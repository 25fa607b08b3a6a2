--------------------------- MODULE RtStPhyProofs ---------------------------
(***************************************************************************)
(* Proofs about RtStPhy, for every set of interface processes and subnets, *)
(* every choice of which serves which, every length of a search and of a   *)
(* simulation.  That a thread simulates only when all others do rests on   *)
(* the second barrier of CommCal: the invariant says what a process has    *)
(* done when it has entered it, and what it may still do after.            *)
(***************************************************************************)
EXTENDS RtStPhy, TLAPS

\* The places of main, of the thread and of a subnet.
Mains == {"init", "err1", "spin", "judge", "err2", "cal", "wait", "world", "exit"}
Places ==
  {"none", "first", "search", "balanced", "unbalanced", "check", "initial", "hold",
   "barrier", "barrier2", "start", "recv", "send", "out", "over", "end", "returned",
   "gone"}
SubPlaces ==
  {"init", "err1", "sent", "err2", "cal", "cal2", "send", "recv", "over", "world"}
Threads == [at : Places, i : Nat, k : Nat, NT : Nat]

\* What each variable the invariant speaks of may hold.
TypeInv ==
  /\ main \in [Phys -> Mains]
  /\ pc \in [Phys -> Threads]
  /\ MarkPhyInit \in [Phys -> {"start", "ok", "over"}]
  /\ IsBalance \in [Phys -> {0, 1}]
  /\ MarkRTCalculation \in [Phys -> {"initializing", "running", "end"}]
  /\ box \in [Phys -> SUBSET {"slaves", "master"}]
  /\ sub \in [Subs -> [at : SubPlaces, NT : Nat]]
  /\ cal \in [Procs -> 0..2]
  /\ world \subseteq Procs

\* Where the thread has found a balance, where all its boxes run, and where
\* it has entered the second barrier of CommCal and not come to the end.
Entered == {"barrier2", "start", "recv", "send", "out", "over"}
Balanced == {"check", "initial", "hold", "barrier", "end"} \cup Entered
Driving ==
  {"search", "balanced", "unbalanced", "check", "initial", "hold", "barrier"}
    \cup Entered

\* Before it starts the thread main has not entered a barrier, and it has
\* entered the first when it lets the thread go on.
MainInv(p) ==
  /\ main[p] \in {"init", "err1"} => pc[p].at = "none"
  /\ main[p] \in {"init", "err1", "spin", "judge", "err2"} => cal[p] = 0
  /\ main[p] \in {"cal", "wait"} => cal[p] # 0
  /\ MarkPhyInit[p] = "over" => main[p] \in {"wait", "world", "exit"} /\ cal[p] # 0

\* The result of the search, and the boxes, stay as they are until the end.
ThreadInv(p) ==
  /\ pc[p].at \in Balanced => IsBalance[p] = 1
  /\ pc[p].at \in Driving => box[p] = Boxes(p)
  /\ pc[p].at = "barrier" => MarkPhyInit[p] = "over"
  /\ pc[p].at \in Entered => cal[p] = 2
  /\ MarkRTCalculation[p] = "end" => pc[p].at \in {"returned", "gone"}
  /\ pc[p].at = "gone" => main[p] = "exit"

\* Who has entered the second barrier has found a balance and been let go on.
EnteredInv(p) ==
  cal[p] = 2 =>
    /\ IsBalance[p] = 1
    /\ main[p] \in {"wait", "world", "exit"}
    /\ pc[p].at \in Entered \cup {"end", "returned", "gone"}

\* A process leaves that has entered a barrier only when its thread has come
\* to the end, and returns when all leave.
LeaveInv(p) ==
  /\ main[p] \in {"world", "exit"} /\ cal[p] # 0 => MarkRTCalculation[p] = "end"
  /\ p \in world => main[p] \in {"world", "exit"}
  /\ main[p] = "exit" => world = Procs

SubInv ==
  \A s \in Subs : cal[s] = 2 => sub[s].at \in {"cal2", "send", "recv", "over", "world"}

\* When a thread simulates, all have entered the second barrier.
BarrierInv == (\E p \in Phys : Simulates(p)) => \A x \in Procs : cal[x] = 2

LocalInv(p) == MainInv(p) /\ ThreadInv(p) /\ EnteredInv(p) /\ LeaveInv(p)

IInv ==
  /\ TypeInv
  /\ \A p \in Phys : LocalInv(p)
  /\ SubInv
  /\ BarrierInv

-----------------------------------------------------------------------------
(* Types *)

\* A process and a subnet are told apart, and a search takes some turns.
LEMMA Numbers ==
  /\ Phys \cap Subs = {} /\ Procs = Phys \cup Subs
  /\ MaxK \in Nat /\ Cycle \in Nat \ {0}
BY RtStAssumption DEF Procs

\* What a process's boxes can be told to do.
LEMMA BoxesType == \A p \in Phys : Boxes(p) \subseteq {"slaves", "master"}
BY DEF Boxes

\* The initial state has its types.
LEMMA InitType == Init => TypeInv
<1> SUFFICES ASSUME Init PROVE TypeInv
  OBVIOUS
<1> USE DEF Init, TypeInv
<1>1. pc \in [Phys -> Threads]
  BY DEF Threads, Places
<1>2. sub \in [Subs -> [at : SubPlaces, NT : Nat]]
  BY DEF SubPlaces
<1>3. main \in [Phys -> Mains]
  BY DEF Mains
<1> QED BY <1>1, <1>2, <1>3

\* A step of the thread from one place to another makes a thread of it.
LEMMA ThreadChange ==
  ASSUME NEW t \in Threads, NEW place \in Places, NEW n \in Nat
  PROVE  /\ [t EXCEPT !.at = place] \in Threads
         /\ [t EXCEPT !.i = @ + 1] \in Threads
         /\ [t EXCEPT !.i = 1, !.at = place] \in Threads
         /\ [t EXCEPT !.k = n] \in Threads
         /\ [t EXCEPT !.at = place, !.k = 0] \in Threads
         /\ [t EXCEPT !.at = place, !.NT = @ + 1] \in Threads
<1> USE DEF Threads
<1>0. t.i + 1 \in Nat /\ t.NT + 1 \in Nat /\ 1 \in Nat /\ 0 \in Nat
  OBVIOUS
<1>1. [t EXCEPT !.at = place] \in Threads
  OBVIOUS
<1>2. [t EXCEPT !.i = @ + 1] \in Threads
  BY <1>0
<1>3. [t EXCEPT !.i = 1, !.at = place] \in Threads
  BY <1>0
<1>4. [t EXCEPT !.k = n] \in Threads
  OBVIOUS
<1>5. [t EXCEPT !.at = place, !.k = 0] \in Threads
  BY <1>0
<1>6. [t EXCEPT !.at = place, !.NT = @ + 1] \in Threads
  BY <1>0
<1> QED BY <1>1, <1>2, <1>3, <1>4, <1>5, <1>6

\* Only the thread of one process takes a step, to a place of its own.
LEMMA ThreadType ==
  ASSUME TypeInv, NEW p \in Phys, Main(p) \/ RTSTPhySim(p)
  PROVE  /\ pc' \in [Phys -> Threads]
         /\ \A q \in Phys \ {p} : pc'[q] = pc[q]
<1> USE DEF TypeInv
<1>1. pc[p] \in Threads /\ pc[p].k \in Nat
  BY DEF Threads
<1>a. ASSUME NEW t \in Threads, pc' = [pc EXCEPT ![p] = t]
      PROVE  /\ pc' \in [Phys -> Threads]
             /\ \A q \in Phys \ {p} : pc'[q] = pc[q]
  BY <1>a
<1>2. ASSUME NEW place \in Places, pc' = [pc EXCEPT ![p].at = place]
      PROVE  /\ pc' \in [Phys -> Threads]
             /\ \A q \in Phys \ {p} : pc'[q] = pc[q]
  <2>1. [pc[p] EXCEPT !.at = place] \in Threads
    BY <1>1, ThreadChange
  <2>2. pc' = [pc EXCEPT ![p] = [pc[p] EXCEPT !.at = place]]
    BY <1>2
  <2> QED BY <1>a, <2>1, <2>2
<1>3. ASSUME NEW place \in Places, Next_i(p, place)
      PROVE  /\ pc' \in [Phys -> Threads]
             /\ \A q \in Phys \ {p} : pc'[q] = pc[q]
  <2>1. /\ [pc[p] EXCEPT !.i = @ + 1] \in Threads
        /\ [pc[p] EXCEPT !.i = 1, !.at = place] \in Threads
    BY <1>1, ThreadChange
  <2>2. \/ pc' = [pc EXCEPT ![p] = [pc[p] EXCEPT !.i = @ + 1]]
        \/ pc' = [pc EXCEPT ![p] = [pc[p] EXCEPT !.i = 1, !.at = place]]
    <3>1. CASE pc[p].i < Len(pcsubnet[p])
      BY <1>3, <3>1 DEF Next_i
    <3>2. CASE ~(pc[p].i < Len(pcsubnet[p]))
      BY <1>3, <3>2 DEF Next_i
    <3> QED BY <3>1, <3>2
  <2> QED BY <1>a, <2>1, <2>2
<1>4. ASSUME Turn(p)
      PROVE  /\ pc' \in [Phys -> Threads]
             /\ \A q \in Phys \ {p} : pc'[q] = pc[q]
  <2> DEFINE n == IF pc[p].k > MaxK + Cycle THEN pc[p].k + 1 - Cycle ELSE pc[p].k + 1
  <2>1. n \in Nat
    BY <1>1, Numbers
  <2>2. pc' = [pc EXCEPT ![p] = [pc[p] EXCEPT !.k = n]]
    BY <1>4 DEF Turn
  <2> HIDE DEF n
  <2>3. "none" \in Places
    BY DEF Places
  <2>4. [pc[p] EXCEPT !.k = n] \in Threads
    BY <1>1, <2>1, <2>3, ThreadChange
  <2> QED BY <1>a, <2>2, <2>4
<1>5. CASE CheckOk(p)
  BY <1>1, <1>5, ThreadChange DEF CheckOk, Places
<1>6. CASE OutStep(p)
  BY <1>1, <1>6, ThreadChange DEF OutStep, Places
<1>7. CASE UNCHANGED pc
  BY <1>7
<1>8. CASE RecvFirst(p) \/ RecvStep(p) \/ SendInitial(p) \/ RecvStart(p) \/ SendStep(p)
  BY <1>3, <1>8 DEF RecvFirst, RecvStep, SendInitial, RecvStart, SendStep, Places
<1>9. CASE Search(p) \/ Hold(p)
  BY <1>2, <1>4, <1>9 DEF Search, Hold, Places
<1> QED
  BY <1>2, <1>5, <1>6, <1>7, <1>8, <1>9
  DEF Main, RTSTPhySim, InitPhy, GiveUp, StartThread, SeesOk, Judge, EnterCal, InitOver,
      wait_for_end, Exit, SetIsBalance, StopUnbalanced, EnterCal2, PassCal2, StopSim,
      MarkEnd, Places

\* A step of a subnet makes a subnet of it.
LEMMA SubnetType ==
  ASSUME TypeInv, NEW s \in Subs, Subnet(s)
  PROVE  sub' \in [Subs -> [at : SubPlaces, NT : Nat]]
<1> USE DEF TypeInv
<1>1. sub[s] \in [at : SubPlaces, NT : Nat]
  OBVIOUS
<1>2. ASSUME NEW place \in SubPlaces, SubAt(s, place)
      PROVE  sub' \in [Subs -> [at : SubPlaces, NT : Nat]]
  <2>1. [sub[s] EXCEPT !.at = place] \in [at : SubPlaces, NT : Nat]
    BY <1>1
  <2>2. sub' = [sub EXCEPT ![s] = [sub[s] EXCEPT !.at = place]]
    BY <1>2 DEF SubAt
  <2> QED BY <2>1, <2>2
<1>3. CASE SubReceives(s)
  <2>1. [at |-> "send", NT |-> sub[s].NT + 1] \in [at : SubPlaces, NT : Nat]
    BY <1>1 DEF SubPlaces
  <2> QED BY <1>3, <2>1 DEF SubReceives
<1> QED
  BY <1>2, <1>3
  DEF Subnet, SubTell, SubEnds, SubSendsFirst, SubReceivesInitial, SubBarrier, SubStarts,
      SubSends, SubPlaces

\* Every step keeps the types.
LEMMA TypeStep == TypeInv /\ [Next]_vars => TypeInv'
<1> SUFFICES ASSUME TypeInv, [Next]_vars PROVE TypeInv'
  OBVIOUS
<1> USE Numbers
<1>1. ASSUME NEW p \in Phys, Main(p) PROVE TypeInv'
  <2>1. pc' \in [Phys -> Threads]
    BY <1>1, ThreadType
  <2>2. /\ main' \in [Phys -> Mains]
        /\ MarkPhyInit' \in [Phys -> {"start", "ok", "over"}]
        /\ IsBalance' \in [Phys -> {0, 1}]
        /\ MarkRTCalculation' \in [Phys -> {"initializing", "running", "end"}]
    BY <1>1
    DEF TypeInv, Mains, Main, InitPhy, GiveUp, StartThread, SeesOk, Judge, EnterCal,
        InitOver, wait_for_end, Exit, LabelEND, Goto, shared
  <2>3. /\ box' \in [Phys -> SUBSET {"slaves", "master"}]
        /\ cal' \in [Procs -> 0..2] /\ world' \subseteq Procs
        /\ UNCHANGED sub
    BY <1>1
    DEF TypeInv, Main, InitPhy, GiveUp, StartThread, SeesOk, Judge, EnterCal,
        InitOver, wait_for_end, Exit, LabelEND, Goto, mpi
  <2> QED BY <2>1, <2>2, <2>3 DEF TypeInv
<1>2. ASSUME NEW p \in Phys, RTSTPhySim(p) PROVE TypeInv'
  <2>1. pc' \in [Phys -> Threads]
    BY <1>2, ThreadType
  <2>2. /\ UNCHANGED <<main, sub, world>>
        /\ MarkPhyInit' \in [Phys -> {"start", "ok", "over"}]
        /\ IsBalance' \in [Phys -> {0, 1}]
        /\ MarkRTCalculation' \in [Phys -> {"initializing", "running", "end"}]
    BY <1>2
    DEF TypeInv, RTSTPhySim, RecvFirst, Search, SetIsBalance, StopUnbalanced, CheckOk,
        SendInitial, Hold, EnterCal2, PassCal2, RecvStart, RecvStep, SendStep, OutStep,
        StopSim, MarkEnd, shared, mpi
  <2>3. cal' \in [Procs -> 0..2]
    <3>1. CASE EnterCal2(p)
      BY <3>1 DEF EnterCal2, TypeInv
    <3>2. CASE UNCHANGED cal
      BY <3>2 DEF TypeInv
    <3> QED
      BY <1>2, <3>1, <3>2
      DEF RTSTPhySim, RecvFirst, Search, SetIsBalance, StopUnbalanced, CheckOk,
          SendInitial, Hold, PassCal2, RecvStart, RecvStep, SendStep, OutStep, StopSim,
          MarkEnd, mpi
  <2>4. box' \in [Phys -> SUBSET {"slaves", "master"}]
    <3>1. CASE RecvFirst(p)
      <4>1. PICK B \in {Boxes(p), box[p]} : box' = [box EXCEPT ![p] = B]
        BY <1>2, <3>1 DEF RecvFirst
      <4>2. B \in SUBSET {"slaves", "master"}
        BY <4>1, BoxesType DEF TypeInv
      <4> QED BY <4>1, <4>2 DEF TypeInv
    <3>2. CASE box' = [box EXCEPT ![p] = {}] \/ UNCHANGED box
      BY <3>2 DEF TypeInv
    <3> QED
      BY <1>2, <3>1, <3>2
      DEF RTSTPhySim, Search, SetIsBalance, StopUnbalanced, CheckOk, SendInitial, Hold,
          EnterCal2, PassCal2, RecvStart, RecvStep, SendStep, OutStep, StopSim, MarkEnd
  <2> QED BY <2>1, <2>2, <2>3, <2>4 DEF TypeInv
<1>3. ASSUME NEW s \in Subs, Subnet(s) PROVE TypeInv'
  <2>1. sub' \in [Subs -> [at : SubPlaces, NT : Nat]]
    BY <1>3, SubnetType
  <2>2. UNCHANGED <<main, pc, MarkPhyInit, IsBalance, MarkRTCalculation, box>>
    BY <1>3
    DEF Subnet, SubTell, SubEnds, SubSendsFirst, SubReceivesInitial, SubBarrier,
        SubStarts, SubSends, SubReceives, shared
  <2>3. cal' \in [Procs -> 0..2] /\ world' \subseteq Procs
    <3>1. CASE SubReceivesInitial(s) \/ SubBarrier(s)
      BY <3>1 DEF SubReceivesInitial, SubBarrier, TypeInv
    <3>2. CASE SubEnds(s)
      BY <3>2 DEF SubEnds, TypeInv
    <3>3. CASE UNCHANGED <<cal, world>>
      BY <3>3 DEF TypeInv
    <3> QED
      BY <1>3, <3>1, <3>2, <3>3
      DEF Subnet, SubTell, SubSendsFirst, SubStarts, SubSends, SubReceives
  <2> QED BY <2>1, <2>2, <2>3 DEF TypeInv
<1>4. CASE UNCHANGED vars
  BY <1>4 DEF TypeInv, vars, shared, mpi
<1> QED BY <1>1, <1>2, <1>3, <1>4 DEF Next

-----------------------------------------------------------------------------
(* One process *)

\* What the invariant says of a process in its first state.
LEMMA InitLocal == ASSUME Init PROVE \A p \in Phys : LocalInv(p)
BY Numbers
DEF Init, LocalInv, MainInv, ThreadInv, EnteredInv, LeaveInv, Balanced, Driving, Entered

\* Nothing of a process changes in a step of another, but that others leave.
Same(q) ==
  /\ main'[q] = main[q] /\ pc'[q] = pc[q] /\ box'[q] = box[q] /\ cal'[q] = cal[q]
  /\ MarkPhyInit'[q] = MarkPhyInit[q]
  /\ IsBalance'[q] = IsBalance[q]
  /\ MarkRTCalculation'[q] = MarkRTCalculation[q]
  /\ q \in world' => q \in world

\* What the invariant says of a process holds on when others take a step.
LEMMA SameKeeps ==
  ASSUME NEW q \in Phys, LocalInv(q), Same(q), world \subseteq world', world' \subseteq Procs
  PROVE  LocalInv(q)'
BY DEF Same, LocalInv, MainInv, ThreadInv, EnteredInv, LeaveInv

\* A step of main keeps what the invariant says of its process.
LEMMA MainKeeps ==
  ASSUME TypeInv, NEW p \in Phys, LocalInv(p), Main(p)
  PROVE  LocalInv(p)'
<1> USE Numbers DEF TypeInv, LocalInv, Balanced, Driving, Entered, Goto
<1>1. CASE InitPhy(p)
  BY <1>1 DEF InitPhy, shared, MainInv, ThreadInv, EnteredInv, LeaveInv
<1>2. CASE GiveUp(p, 1) \/ GiveUp(p, 2)
  BY <1>2 DEF GiveUp, LabelEND, shared, MainInv, ThreadInv, EnteredInv, LeaveInv
<1>3. CASE StartThread(p)
  BY <1>3 DEF StartThread, mpi, Threads, MainInv, ThreadInv, EnteredInv, LeaveInv
<1>4. CASE SeesOk(p)
  BY <1>4 DEF SeesOk, shared, mpi, MainInv, ThreadInv, EnteredInv, LeaveInv
<1>5. CASE Judge(p)
  BY <1>5 DEF Judge, shared, MainInv, ThreadInv, EnteredInv, LeaveInv
<1>6. CASE EnterCal(p)
  BY <1>6 DEF EnterCal, shared, MainInv, ThreadInv, EnteredInv, LeaveInv
<1>7. CASE InitOver(p)
  BY <1>7 DEF InitOver, mpi, MainInv, ThreadInv, EnteredInv, LeaveInv
<1>8. CASE wait_for_end(p)
  BY <1>8 DEF wait_for_end, LabelEND, shared, MainInv, ThreadInv, EnteredInv, LeaveInv
<1>9. CASE Exit(p)
  BY <1>9 DEF Exit, shared, mpi, Threads, MainInv, ThreadInv, EnteredInv, LeaveInv
<1> QED
  BY <1>1, <1>2, <1>3, <1>4, <1>5, <1>6, <1>7, <1>8, <1>9 DEF Main

\* A step of the thread keeps what the invariant says of its process.
LEMMA ThreadKeeps ==
  ASSUME TypeInv, NEW p \in Phys, LocalInv(p), RTSTPhySim(p)
  PROVE  LocalInv(p)'
<1> USE Numbers DEF TypeInv, LocalInv, Balanced, Driving, Entered, Threads
<1>1. CASE RecvFirst(p)
  BY <1>1 DEF RecvFirst, Next_i, shared, MainInv, ThreadInv, EnteredInv, LeaveInv
<1>2. CASE Search(p)
  BY <1>2 DEF Search, Turn, mpi, MainInv, ThreadInv, EnteredInv, LeaveInv
<1>3. CASE SetIsBalance(p)
  BY <1>3 DEF SetIsBalance, mpi, MainInv, ThreadInv, EnteredInv, LeaveInv
<1>4. CASE StopUnbalanced(p)
  BY <1>4 DEF StopUnbalanced, shared, mpi, MainInv, ThreadInv, EnteredInv, LeaveInv
<1>5. CASE CheckOk(p)
  BY <1>5 DEF CheckOk, shared, mpi, MainInv, ThreadInv, EnteredInv, LeaveInv
<1>6. CASE SendInitial(p)
  BY <1>6 DEF SendInitial, Next_i, shared, MainInv, ThreadInv, EnteredInv, LeaveInv
<1>7. CASE Hold(p)
  BY <1>7 DEF Hold, Turn, shared, mpi, MainInv, ThreadInv, EnteredInv, LeaveInv
<1>8. CASE EnterCal2(p)
  BY <1>8 DEF EnterCal2, shared, MainInv, ThreadInv, EnteredInv, LeaveInv
<1>9. CASE PassCal2(p)
  BY <1>9 DEF PassCal2, shared, mpi, MainInv, ThreadInv, EnteredInv, LeaveInv
<1>10. CASE RecvStart(p)
  BY <1>10 DEF RecvStart, Next_i, shared, MainInv, ThreadInv, EnteredInv, LeaveInv
<1>11. CASE RecvStep(p)
  BY <1>11 DEF RecvStep, Next_i, shared, MainInv, ThreadInv, EnteredInv, LeaveInv
<1>12. CASE SendStep(p)
  BY <1>12 DEF SendStep, Next_i, shared, MainInv, ThreadInv, EnteredInv, LeaveInv
<1>13. CASE OutStep(p)
  BY <1>13 DEF OutStep, shared, mpi, MainInv, ThreadInv, EnteredInv, LeaveInv
<1>14. CASE StopSim(p)
  BY <1>14 DEF StopSim, shared, mpi, MainInv, ThreadInv, EnteredInv, LeaveInv
<1>15. CASE MarkEnd(p)
  BY <1>15 DEF MarkEnd, mpi, MainInv, ThreadInv, EnteredInv, LeaveInv
<1> QED
  BY <1>1, <1>2, <1>3, <1>4, <1>5, <1>6, <1>7, <1>8, <1>9, <1>10, <1>11, <1>12, <1>13,
     <1>14, <1>15
  DEF RTSTPhySim

\* A step of a process changes nothing of the others.
LEMMA OthersSame ==
  ASSUME TypeInv, NEW p \in Phys, Main(p) \/ RTSTPhySim(p), NEW q \in Phys \ {p}
  PROVE  Same(q) /\ world \subseteq world'
<1> USE Numbers DEF TypeInv
<1>1. pc'[q] = pc[q]
  BY ThreadType
<1>2. CASE Main(p)
  <2>1. /\ main'[q] = main[q] /\ MarkPhyInit'[q] = MarkPhyInit[q]
        /\ IsBalance'[q] = IsBalance[q]
        /\ MarkRTCalculation'[q] = MarkRTCalculation[q]
    BY <1>2
    DEF Main, InitPhy, GiveUp, StartThread, SeesOk, Judge, EnterCal, InitOver,
        wait_for_end, Exit, LabelEND, Goto, shared
  <2>2. /\ box'[q] = box[q] /\ cal'[q] = cal[q] /\ world \subseteq world'
        /\ q \in world' => q \in world
    BY <1>2
    DEF Main, InitPhy, GiveUp, StartThread, SeesOk, Judge, EnterCal, InitOver,
        wait_for_end, Exit, LabelEND, mpi
  <2> QED BY <1>1, <2>1, <2>2 DEF Same
<1>3. CASE RTSTPhySim(p)
  <2>1. /\ UNCHANGED <<main, world>> /\ MarkPhyInit'[q] = MarkPhyInit[q]
        /\ IsBalance'[q] = IsBalance[q]
        /\ MarkRTCalculation'[q] = MarkRTCalculation[q]
    BY ZenonT(30), <1>3
    DEF RTSTPhySim, RecvFirst, Search, SetIsBalance, StopUnbalanced, CheckOk,
        SendInitial, Hold, EnterCal2, PassCal2, RecvStart, RecvStep, SendStep, OutStep,
        StopSim, MarkEnd, shared, mpi
  <2>2. box'[q] = box[q] /\ cal'[q] = cal[q]
    BY <1>3
    DEF RTSTPhySim, RecvFirst, Search, SetIsBalance, StopUnbalanced, CheckOk,
        SendInitial, Hold, EnterCal2, PassCal2, RecvStart, RecvStep, SendStep, OutStep,
        StopSim, MarkEnd, mpi
  <2> QED BY <1>1, <2>1, <2>2 DEF Same
<1> QED BY <1>2, <1>3

\* A step of a subnet changes nothing of a process.
LEMMA SubnetSame ==
  ASSUME TypeInv, NEW s \in Subs, Subnet(s), NEW q \in Phys
  PROVE  Same(q) /\ world \subseteq world'
<1> USE Numbers DEF TypeInv
<1>1. UNCHANGED <<main, pc, MarkPhyInit, IsBalance, MarkRTCalculation, box>>
  BY DEF Subnet, SubTell, SubEnds, SubSendsFirst, SubReceivesInitial, SubBarrier,
      SubStarts, SubSends, SubReceives, shared
<1>2. q # s
  OBVIOUS
<1>3. cal'[q] = cal[q] /\ world \subseteq world' /\ (q \in world' => q \in world)
  BY <1>2 DEF Subnet, SubTell, SubEnds, SubSendsFirst, SubReceivesInitial, SubBarrier,
      SubStarts, SubSends, SubReceives
<1> QED BY <1>1, <1>3 DEF Same

\* Every step keeps what the invariant says of every process.
LEMMA LocalStep ==
  ASSUME TypeInv, \A p \in Phys : LocalInv(p), [Next]_vars
  PROVE  \A p \in Phys : LocalInv(p)'
<1> SUFFICES ASSUME NEW q \in Phys PROVE LocalInv(q)'
  OBVIOUS
<1>0. TypeInv'
  BY TypeStep
<1>1. ASSUME NEW p \in Phys, Main(p) \/ RTSTPhySim(p) PROVE LocalInv(q)'
  <2>1. CASE q = p
    BY <1>1, <2>1, MainKeeps, ThreadKeeps
  <2>2. CASE q # p
    BY <1>0, <1>1, <2>2, OthersSame, SameKeeps DEF TypeInv
  <2> QED BY <2>1, <2>2
<1>2. ASSUME NEW s \in Subs, Subnet(s) PROVE LocalInv(q)'
  BY <1>0, <1>2, SubnetSame, SameKeeps DEF TypeInv
<1>3. CASE UNCHANGED vars
  BY <1>3 DEF vars, shared, mpi, LocalInv, MainInv, ThreadInv, EnteredInv, LeaveInv
<1> QED BY <1>1, <1>2, <1>3 DEF Next

-----------------------------------------------------------------------------
(* All processes *)

\* A subnet enters the first barrier before the second.
LEMMA SubStep ==
  ASSUME TypeInv, SubInv, [Next]_vars
  PROVE  SubInv'
<1> SUFFICES ASSUME NEW t \in Subs, cal'[t] = 2
             PROVE  sub'[t].at \in {"cal2", "send", "recv", "over", "world"}
  BY DEF SubInv
<1> USE Numbers DEF TypeInv
<1>1. ASSUME NEW p \in Phys, Main(p) \/ RTSTPhySim(p) PROVE UNCHANGED sub /\ cal'[t] = cal[t]
  <2>1. t # p
    OBVIOUS
  <2>2. CASE EnterCal(p) \/ EnterCal2(p)
    BY <2>1, <2>2 DEF EnterCal, EnterCal2
  <2>3. CASE UNCHANGED <<sub, cal>>
    BY <2>3
  <2> QED
    BY <1>1, <2>2, <2>3
    DEF Main, RTSTPhySim, InitPhy, GiveUp, StartThread, SeesOk, Judge, InitOver,
        wait_for_end, Exit, RecvFirst, Search, SetIsBalance, StopUnbalanced, CheckOk,
        SendInitial, Hold, PassCal2, RecvStart, RecvStep, SendStep, OutStep, StopSim,
        MarkEnd, mpi
<1>2. ASSUME NEW s \in Subs, Subnet(s)
      PROVE  sub'[t].at \in {"cal2", "send", "recv", "over", "world"}
  <2> USE DEF SubInv, SubAt
  <2>1. CASE SubTell(s, 1) \/ SubTell(s, 2)
    BY <2>1 DEF SubTell
  <2>2. CASE SubEnds(s)
    BY <2>2 DEF SubEnds
  <2>3. CASE SubSendsFirst(s)
    BY <2>3 DEF SubSendsFirst
  <2>4. CASE SubReceivesInitial(s)
    BY <2>4 DEF SubReceivesInitial
  <2>5. CASE SubBarrier(s)
    BY <2>5 DEF SubBarrier
  <2>6. CASE SubStarts(s) \/ SubSends(s)
    BY <2>6 DEF SubStarts, SubSends
  <2>7. CASE SubReceives(s)
    BY <2>7 DEF SubReceives
  <2> QED BY <1>2, <2>1, <2>2, <2>3, <2>4, <2>5, <2>6, <2>7 DEF Subnet
<1>3. CASE UNCHANGED vars
  BY <1>3 DEF vars, mpi, SubInv
<1> QED BY <1>1, <1>2, <1>3 DEF Next, SubInv

\* Who has entered the second barrier does not enter the first again.
LEMMA CalGrows ==
  ASSUME TypeInv, \A p \in Phys : MainInv(p), SubInv, [Next]_vars,
         \A x \in Procs : cal[x] = 2
  PROVE  \A x \in Procs : cal'[x] = 2
<1> USE Numbers DEF TypeInv
<1>1. ASSUME NEW p \in Phys, Main(p) \/ RTSTPhySim(p) PROVE \A x \in Procs : cal'[x] = 2
  <2>1. CASE EnterCal(p)
    BY <2>1 DEF EnterCal, MainInv
  <2>2. CASE EnterCal2(p)
    BY <2>2 DEF EnterCal2
  <2>3. CASE UNCHANGED cal
    BY <2>3
  <2> QED
    BY <1>1, <2>1, <2>2, <2>3
    DEF Main, RTSTPhySim, InitPhy, GiveUp, StartThread, SeesOk, Judge, InitOver,
        wait_for_end, Exit, RecvFirst, Search, SetIsBalance, StopUnbalanced, CheckOk,
        SendInitial, Hold, PassCal2, RecvStart, RecvStep, SendStep, OutStep, StopSim,
        MarkEnd, mpi
<1>2. ASSUME NEW s \in Subs, Subnet(s) PROVE \A x \in Procs : cal'[x] = 2
  <2>1. CASE SubReceivesInitial(s)
    BY <2>1 DEF SubReceivesInitial, SubInv
  <2>2. CASE SubBarrier(s)
    BY <2>2 DEF SubBarrier
  <2>3. CASE UNCHANGED cal
    BY <2>3
  <2> QED
    BY <1>2, <2>1, <2>2, <2>3
    DEF Subnet, SubTell, SubEnds, SubSendsFirst, SubStarts, SubSends, SubReceives
<1>3. CASE UNCHANGED vars
  BY <1>3 DEF vars, mpi
<1> QED BY <1>1, <1>2, <1>3 DEF Next

\* A thread simulates after it has passed the second barrier.
LEMMA Passed ==
  ASSUME TypeInv, [Next]_vars, NEW p \in Phys, Simulates(p)'
  PROVE  Simulates(p) \/ CalPassed(2)
<1> USE DEF TypeInv, Simulates, Threads
<1>1. CASE pc'[p] = pc[p]
  BY <1>1
<1>2. CASE Main(p) /\ pc'[p] # pc[p]
  BY <1>2
  DEF Main, InitPhy, GiveUp, StartThread, SeesOk, Judge, EnterCal, InitOver, wait_for_end,
      Exit
<1>3. CASE RTSTPhySim(p)
  <2>1. CASE RecvFirst(p) \/ Search(p) \/ SetIsBalance(p) \/ StopUnbalanced(p) \/ CheckOk(p)
    BY <2>1 DEF RecvFirst, Search, SetIsBalance, StopUnbalanced, CheckOk, Next_i, Turn
  <2>2. CASE SendInitial(p) \/ Hold(p) \/ EnterCal2(p) \/ PassCal2(p)
    BY <2>2 DEF SendInitial, Hold, EnterCal2, PassCal2, Next_i, Turn
  <2>3. CASE RecvStart(p) \/ RecvStep(p) \/ SendStep(p) \/ OutStep(p) \/ StopSim(p) \/ MarkEnd(p)
    BY <2>3 DEF RecvStart, RecvStep, SendStep, OutStep, StopSim, MarkEnd, Next_i, Turn
  <2> QED BY <1>3, <2>1, <2>2, <2>3 DEF RTSTPhySim
<1>4. ASSUME NEW q \in Phys, q # p, Main(q) \/ RTSTPhySim(q) PROVE pc'[p] = pc[p]
  BY <1>4, ThreadType
<1>5. ASSUME NEW s \in Subs, Subnet(s) PROVE pc'[p] = pc[p]
  BY <1>5 DEF Subnet, SubTell, SubEnds, SubSendsFirst, SubReceivesInitial, SubBarrier,
      SubStarts, SubSends, SubReceives
<1>6. CASE UNCHANGED vars
  BY <1>6 DEF vars
<1> QED BY <1>1, <1>2, <1>3, <1>4, <1>5, <1>6 DEF Next

\* So every step keeps what the barrier promises.
LEMMA BarrierStep ==
  ASSUME IInv, [Next]_vars PROVE BarrierInv'
<1> SUFFICES ASSUME NEW p \in Phys, Simulates(p)' PROVE \A x \in Procs : cal'[x] = 2
  BY DEF BarrierInv
<1>1. \A x \in Procs : cal[x] = 2
  <2>1. CASE Simulates(p)
    BY <2>1 DEF IInv, BarrierInv
  <2>2. CASE CalPassed(2)
    BY <2>2 DEF CalPassed, IInv, TypeInv
  <2> QED BY <2>1, <2>2, Passed DEF IInv
<1> QED BY <1>1, CalGrows DEF IInv, LocalInv

\* The invariant holds of every run of the processes and their subnets.
THEOREM InvariantHolds == Spec => []IInv
<1>1. Init => IInv
  <2>1. Init => SubInv /\ BarrierInv
    BY Numbers DEF Init, SubInv, BarrierInv, Simulates
  <2> QED BY <2>1, InitType, InitLocal DEF IInv
<1>2. IInv /\ [Next]_vars => IInv'
  BY TypeStep, LocalStep, SubStep, BarrierStep DEF IInv
<1> QED BY <1>1, <1>2, PTL DEF Spec

\* While a thread simulates no other process has returned from main: main
\* returns when all have come to the last barrier, and the process of this
\* thread comes to it when the thread has ended.
LEMMA NobodyLeft ==
  ASSUME IInv, NEW p \in Phys, Simulates(p), NEW q \in Phys PROVE main[q] # "exit"
<1> SUFFICES ASSUME main[q] = "exit" PROVE FALSE
  OBVIOUS
<1>1. p \in world
  BY Numbers DEF IInv, LocalInv, LeaveInv
<1>2. cal[p] = 2
  BY Numbers DEF IInv, BarrierInv
<1>3. MarkRTCalculation[p] = "end"
  BY <1>1, <1>2 DEF IInv, LocalInv, LeaveInv
<1> QED BY <1>3 DEF IInv, LocalInv, ThreadInv, Simulates

\* No thread simulates unless every process has initialised its boxes, found
\* its balance and let its thread go on, for every number of processes and
\* whichever of them fails: main and RTSTPhySim of PstPIDItf_rt64.cpp.
THEOREM AllSimulateTogether == Spec => []SimulateTogether
<1>1. ASSUME IInv PROVE SimulateTogether
  <2> SUFFICES ASSUME NEW p \in Phys, Simulates(p), NEW q \in Phys
               PROVE  /\ IsBalance[q] = 1
                      /\ main[q] \in {"wait", "world"}
                      /\ box[q] = Boxes(q) \/ pc[q].at \in {"end", "returned"}
    BY DEF SimulateTogether
  <2>1. cal[q] = 2
    BY <1>1, Numbers DEF IInv, BarrierInv
  <2>2. main[q] # "exit"
    BY <1>1, NobodyLeft
  <2>3. EnteredInv(q) /\ ThreadInv(q)
    BY <1>1 DEF IInv, LocalInv
  <2> QED BY <2>1, <2>2, <2>3 DEF EnteredInv, ThreadInv, Driving
<1> QED BY <1>1, InvariantHolds, PTL

-----------------------------------------------------------------------------
(* Messages.  What is under way between a process and a subnet is what one  *)
(* has sent and the other has not received.  For each place of the thread   *)
(* and of the subnet that count is known, and as each waits for the other's *)
(* message before it sends its next, it is never more than one.             *)

\* The thread has handled the j-th subnet in the loop it is in.
Past(p, j) == j < pc[p].i
OneIf(b) == IF b THEN 1 ELSE 0

\* What the subnet has sent with tags 101 and 1, and received with tag 102.
Sent101(s) ==
  IF sub[s].at \in {"init", "err1"} THEN 0
  ELSE IF sub[s].at = "recv" \/ (sub[s].at \in {"over", "world"} /\ cal[s] # 0)
       THEN sub[s].NT + 2 ELSE sub[s].NT + 1
Taken102(s) == IF cal[s] = 0 THEN 0 ELSE sub[s].NT + 1
Sent1(s) == OneIf(cal[s] = 2 /\ sub[s].at # "cal2")

\* What the thread has received from the j-th subnet, and sent to it.
Got101(p, j) ==
  CASE pc[p].at = "none" -> 0
    [] pc[p].at = "first" -> OneIf(Past(p, j))
    [] pc[p].at = "recv" -> pc[p].NT + 1 + OneIf(Past(p, j))
    [] pc[p].at \in {"send", "out", "over"} -> pc[p].NT + 2
    [] OTHER -> 1
Put102(p, j) ==
  CASE pc[p].at \in {"none", "first", "search", "balanced", "unbalanced", "check"} -> 0
    [] pc[p].at = "initial" -> OneIf(Past(p, j))
    [] pc[p].at = "send" -> pc[p].NT + 1 + OneIf(Past(p, j))
    [] pc[p].at = "out" -> pc[p].NT + 2
    [] OTHER -> pc[p].NT + 1
Got1(p, j) ==
  OneIf((pc[p].at = "start" /\ Past(p, j)) \/ pc[p].at \in {"recv", "send", "out", "over"})

\* A subnet that left after an error has sent its first message or has not.
Quit(s) == sub[s].at = "world" /\ cal[s] = 0

Ended == {"end", "returned", "gone"}

\* While the thread runs the counts are those of the messages under way.
RunningInv(p, j, s) ==
  /\ \/ OneIf(msg101[p][s] # <<>>) + Got101(p, j) = Sent101(s)
     \/ Quit(s) /\ msg101[p][s] = <<>> /\ Got101(p, j) = 0
  /\ msg102[p][s] + Taken102(s) = Put102(p, j)
  /\ msg1[p][s] + Got1(p, j) = Sent1(s)

\* When it has ended, the subnet sends nothing more, or waits for initial
\* values that do not come.
EndedInv(p, s) ==
  \/ sub[s].at \in {"over", "world"}
  \/ /\ sub[s].at \in {"sent", "err2"}
     /\ msg101[p][s] = <<>> /\ msg102[p][s] = 0 /\ msg1[p][s] = 0

\* The datum of a message of the subnet says whether it is its last.
DatumInv(p, s) ==
  msg101[p][s] # <<>> =>
    Head(msg101[p][s]) = IF cal[s] = 0 THEN ends.atOnce ELSE sub[s].NT = ends.step

PairInv(p, j) ==
  LET s == pcsubnet[p][j]
  IN  /\ DatumInv(p, s)
      /\ IF pc[p].at \in Ended THEN EndedInv(p, s) ELSE RunningInv(p, j, s)

\* Where a subnet is, its step and its barriers.
StageInv(s) ==
  /\ sub[s].at \in {"init", "err1", "sent", "err2"} => cal[s] = 0
  /\ sub[s].at = "cal" => cal[s] = 1
  /\ sub[s].at \in {"cal2", "send", "recv"} => cal[s] = 2
  /\ sub[s].at \in {"over", "world"} => cal[s] \in {0, 2}
  /\ cal[s] # 2 \/ sub[s].at = "cal2" => sub[s].NT = 0
  /\ sub[s].at \in {"sent", "err2", "cal", "cal2", "send", "recv"} => ~ends.atOnce
  /\ sub[s].at = "over" /\ cal[s] = 0 => ends.atOnce
  /\ sub[s].NT <= ends.step
  /\ sub[s].at = "recv" => sub[s].NT < ends.step
  /\ sub[s].at \in {"over", "world"} /\ cal[s] = 2 => sub[s].NT = ends.step
  /\ s \in world => sub[s].at = "world"

\* Where a thread is in its loops, and its step.
LoopInv(p) ==
  /\ pc[p].i \in 1 .. Len(pcsubnet[p])
  /\ pc[p].at \notin {"first", "initial", "start", "recv", "send", "gone"} => pc[p].i = 1
  /\ pc[p].k <= MaxK + Cycle + 1
  /\ pc[p].at \notin {"recv", "send", "out", "over"} \cup Ended => pc[p].NT = 0
  /\ pc[p].NT <= ends.step
  /\ pc[p].at \in {"send", "out"} => pc[p].NT < ends.step
  /\ pc[p].at = "over" => pc[p].NT = ends.step

MsgType ==
  /\ ends \in [atOnce : BOOLEAN, step : 0 .. MaxNT]
  /\ IsContinue \in [Phys -> BOOLEAN]
  /\ DOMAIN msg101 = Phys /\ DOMAIN msg102 = Phys /\ DOMAIN msg1 = Phys
  /\ \A p \in Phys :
       /\ msg101[p] \in [SubsOf(p) -> {<<>>, <<TRUE>>, <<FALSE>>}]
       /\ msg102[p] \in [SubsOf(p) -> {0, 1}]
       /\ msg1[p] \in [SubsOf(p) -> {0, 1}]
       /\ box[p] \subseteq Boxes(p)

MsgInv ==
  /\ MsgType
  /\ \A s \in Subs : StageInv(s)
  /\ \A p \in Phys : LoopInv(p)
  /\ \A p \in Phys : \A j \in 1 .. Len(pcsubnet[p]) : PairInv(p, j)

\* A process exchanges with subnets, with each of them at one place of its list.
LEMMA Indices ==
  ASSUME NEW p \in Phys
  PROVE  /\ pcsubnet[p] \in Seq(Subs) /\ Len(pcsubnet[p]) \in Nat \ {0}
         /\ \A j \in 1 .. Len(pcsubnet[p]) : pcsubnet[p][j] \in SubsOf(p)
         /\ \A j, l \in 1 .. Len(pcsubnet[p]) : pcsubnet[p][j] = pcsubnet[p][l] => j = l
         /\ \A s \in SubsOf(p) : \E j \in 1 .. Len(pcsubnet[p]) : s = pcsubnet[p][j]
         /\ SubsOf(p) \subseteq Subs
BY RtStAssumption DEF SubsOf, ToSet, IsInjective

\* The counts of a thread and of a subnet are numbers, and each is ahead of itself
\* by at most a message.
LEMMA ThreadCounts ==
  ASSUME TypeInv, NEW p \in Phys, NEW j \in Nat, LoopInv(p), pc[p].at \notin Ended
  PROVE  /\ Got101(p, j) \in Nat /\ Put102(p, j) \in Nat /\ Got1(p, j) \in {0, 1}
         /\ Put102(p, j) <= Got101(p, j)
<1>1. pc[p].NT \in Nat /\ pc[p].i \in Nat /\ pc[p].at \in Places
  BY DEF TypeInv, Threads
<1>2. OneIf(Past(p, j)) \in {0, 1}
  BY DEF OneIf
<1>3. Got1(p, j) \in {0, 1}
  BY DEF Got1, OneIf
<1>4. CASE pc[p].at = "recv"
  BY <1>1, <1>2, <1>3, <1>4 DEF Got101, Put102
<1>5. CASE pc[p].at \in {"send", "out", "over"}
  BY <1>1, <1>2, <1>3, <1>5 DEF Got101, Put102
<1>6. CASE pc[p].at \in {"none", "first"}
  BY <1>1, <1>2, <1>3, <1>6 DEF Got101, Put102
<1>7. CASE pc[p].at \notin {"recv", "send", "out", "over", "none", "first"}
  BY <1>1, <1>2, <1>3, <1>7 DEF Got101, Put102, LoopInv
<1>8. QED
  BY <1>4, <1>5, <1>6, <1>7
LEMMA SubCounts ==
  ASSUME TypeInv, NEW s \in Subs, StageInv(s)
  PROVE  /\ Sent101(s) \in Nat /\ Taken102(s) \in Nat /\ Sent1(s) \in {0, 1}
         /\ Taken102(s) <= Sent101(s) /\ Sent101(s) <= Taken102(s) + 1
<1>1. sub[s].NT \in Nat /\ sub[s].at \in SubPlaces /\ cal[s] \in 0 .. 2
  BY DEF TypeInv, Procs
<1>2. QED
  BY <1>1 DEF Sent101, Taken102, Sent1, OneIf, StageInv, SubPlaces

\* A message of at most one of the two tags is under way: each end waits for the
\* other's before it sends its next.
LEMMA OneOfTwo ==
  ASSUME TypeInv, MsgInv, NEW p \in Phys, NEW j \in 1 .. Len(pcsubnet[p]),
         pc[p].at \notin Ended
  PROVE  LET s == pcsubnet[p][j]
         IN  /\ OneIf(msg101[p][s] # <<>>) + msg102[p][s] + Got101(p, j) - Put102(p, j)
                  <= Sent101(s) - Taken102(s)
             /\ s \in Subs /\ StageInv(s) /\ msg102[p][s] \in {0, 1} /\ msg1[p][s] \in {0, 1}
<1> DEFINE s == pcsubnet[p][j]
<1>1. s \in Subs /\ s \in SubsOf(p) /\ j \in Nat
  BY Indices
<1>2. StageInv(s) /\ RunningInv(p, j, s) /\ msg102[p][s] \in {0, 1} /\ msg1[p][s] \in {0, 1}
  BY <1>1 DEF MsgInv, PairInv, MsgType
<1>3. /\ Sent101(s) \in Nat /\ Taken102(s) \in Nat /\ Taken102(s) <= Sent101(s)
  BY <1>1, <1>2, SubCounts
<1>4. Got101(p, j) \in Nat /\ Put102(p, j) \in Nat
  BY <1>1, ThreadCounts DEF MsgInv
<1>5. OneIf(msg101[p][s] # <<>>) \in {0, 1} /\ (msg101[p][s] = <<>> => OneIf(msg101[p][s] # <<>>) = 0)
  BY DEF OneIf
<1> HIDE DEF s
<1>6. OneIf(msg101[p][s] # <<>>) + msg102[p][s] + Got101(p, j) - Put102(p, j)
        <= Sent101(s) - Taken102(s)
  BY SMTT(30), <1>2, <1>3, <1>4, <1>5 DEF RunningInv
<1>7. QED
  BY <1>1, <1>2, <1>6 DEF s

\* A thread that is about to send to a subnet has sent nothing that it has not taken.
LEMMA NothingFromThread ==
  ASSUME TypeInv, MsgInv, NEW p \in Phys, NEW j \in 1 .. Len(pcsubnet[p]),
         pc[p].at \in {"initial", "send"}, ~Past(p, j)
  PROVE  msg102[p][pcsubnet[p][j]] = 0
<1> DEFINE s == pcsubnet[p][j]
<1>1. /\ OneIf(msg101[p][s] # <<>>) + msg102[p][s] + Got101(p, j) - Put102(p, j)
           <= Sent101(s) - Taken102(s)
      /\ s \in Subs /\ StageInv(s) /\ msg102[p][s] \in {0, 1}
  BY OneOfTwo DEF Ended
<1>2. OneIf(msg101[p][s] # <<>>) \in {0, 1}
  BY DEF OneIf
<1>3. Got101(p, j) = Put102(p, j) + 1 /\ Put102(p, j) \in Nat
  BY DEF Got101, Put102, OneIf, TypeInv, Threads
<1> HIDE DEF s
<1>4. /\ Sent101(s) \in Nat /\ Taken102(s) \in Nat /\ Sent101(s) <= Taken102(s) + 1
  BY <1>1, SubCounts
<1>5. msg102[p][s] = 0
  BY <1>1, <1>2, <1>3, <1>4
<1>6. QED
  BY <1>5 DEF s

\* A subnet that is about to send to a process, or that takes the message of one, has
\* sent it nothing that is still under way.
LEMMA NothingFromSub ==
  ASSUME TypeInv, MsgInv, NEW p \in Phys, NEW j \in 1 .. Len(pcsubnet[p]),
         \/ sub[pcsubnet[p][j]].at \in {"err1", "send"}
         \/ sub[pcsubnet[p][j]].at \in {"err2", "recv"} /\ msg102[p][pcsubnet[p][j]] > 0
  PROVE  msg101[p][pcsubnet[p][j]] = <<>> /\ pc[p].at \notin Ended
<1> DEFINE s == pcsubnet[p][j]
<1>0. PairInv(p, j)
  BY DEF MsgInv
<1>1. pc[p].at \notin Ended
  BY <1>0 DEF PairInv, EndedInv
<1>2. /\ OneIf(msg101[p][s] # <<>>) + msg102[p][s] + Got101(p, j) - Put102(p, j)
           <= Sent101(s) - Taken102(s)
      /\ s \in Subs /\ StageInv(s) /\ msg102[p][s] \in {0, 1}
  BY <1>1, OneOfTwo
<1>3. /\ OneIf(msg101[p][s] # <<>>) \in {0, 1}
      /\ msg101[p][s] # <<>> => OneIf(msg101[p][s] # <<>>) = 1
  BY DEF OneIf
<1>4. Got101(p, j) \in Nat /\ Put102(p, j) \in Nat /\ Put102(p, j) <= Got101(p, j)
  BY <1>1, ThreadCounts DEF MsgInv
<1> HIDE DEF s
<1>5. /\ Sent101(s) \in Nat /\ Taken102(s) \in Nat /\ Sent101(s) <= Taken102(s) + 1
  BY <1>2, SubCounts
<1>6. sub[s].at \in {"err1", "send"} => Sent101(s) = Taken102(s)
  BY <1>2, Numbers DEF TypeInv, StageInv, Sent101, Taken102
<1>7. msg101[p][s] = <<>>
  BY <1>2, <1>3, <1>4, <1>5, <1>6 DEF s
<1>8. QED
  BY <1>1, <1>7 DEF s

\* The command to start is sent once.
LEMMA NothingToStart ==
  ASSUME TypeInv, MsgInv, NEW p \in Phys, NEW j \in 1 .. Len(pcsubnet[p]),
         sub[pcsubnet[p][j]].at = "cal2"
  PROVE  msg1[p][pcsubnet[p][j]] = 0 /\ pc[p].at \notin Ended
<1>1. pc[p].at \notin Ended
  BY DEF MsgInv, PairInv, EndedInv
<1>2. RunningInv(p, j, pcsubnet[p][j])
  BY <1>1 DEF MsgInv, PairInv
<1>3. msg1[p][pcsubnet[p][j]] \in {0, 1} /\ Got1(p, j) \in {0, 1}
  BY <1>1, OneOfTwo DEF Got1, OneIf
<1>4. Sent1(pcsubnet[p][j]) = 0
  BY DEF Sent1, OneIf
<1>5. QED
  BY <1>1, <1>2, <1>3, <1>4 DEF RunningInv

\* Which subnet is next, when the thread has handled one.
LEMMA NextPlace ==
  ASSUME TypeInv, NEW p \in Phys, LoopInv(p), NEW place \in Places, Next_i(p, place)
  PROVE  /\ pc'[p].k = pc[p].k /\ pc'[p].NT = pc[p].NT
         /\ \/ /\ pc[p].i < Len(pcsubnet[p]) /\ pc'[p].at = pc[p].at
               /\ pc'[p].i = pc[p].i + 1
            \/ /\ pc[p].i = Len(pcsubnet[p]) /\ pc'[p].at = place
               /\ pc'[p].i = 1
<1>1. pc \in [Phys -> Threads] /\ pc[p].i \in 1 .. Len(pcsubnet[p]) /\ Len(pcsubnet[p]) \in Nat
  BY Indices DEF TypeInv, LoopInv
<1>2. CASE pc[p].i < Len(pcsubnet[p])
  BY <1>1, <1>2 DEF Next_i, Threads
<1>3. CASE ~(pc[p].i < Len(pcsubnet[p]))
  BY <1>1, <1>3 DEF Next_i, Threads
<1>4. QED
  BY <1>2, <1>3

\* A channel with one message holds nothing when it is received.
LEMMA OneMessage ==
  ASSUME NEW b \in BOOLEAN
  PROVE  /\ Head(<<b>>) = b /\ Tail(<<b>>) = <<>> /\ <<b>> # <<>>
         /\ Append(<<>>, b) = <<b>>
<1>1. Head(<<b>>) = b /\ <<b>> # <<>>
  OBVIOUS
<1>2. Tail(<<b>>) = <<>>
  <2>1. <<b>> \in Seq(BOOLEAN) /\ Len(<<b>>) = 1
    OBVIOUS
  <2>2. Tail(<<b>>) \in Seq(BOOLEAN) /\ Len(Tail(<<b>>)) = 0
    BY <2>1
  <2>3. QED
    BY <2>2
<1>3. Append(<<>>, b) = <<b>>
  OBVIOUS
<1>4. QED
  BY <1>1, <1>2, <1>3

\* What a thread that receives a message with tag 101 finds in it.
LEMMA Receives ==
  ASSUME MsgInv, NEW p \in Phys, Receive101(p)
  PROVE  LET s == pcsubnet[p][pc[p].i]
         IN  /\ s \in SubsOf(p) /\ msg101[p][s] # <<>>
             /\ msg101' = [msg101 EXCEPT ![p][s] = <<>>]
             /\ Head(msg101[p][s]) \in BOOLEAN
             /\ IsContinue' \in [Phys -> BOOLEAN] /\ IsContinue'[p] = Head(msg101[p][s])
             /\ Head(msg101[p][s]) =
                  IF cal[s] = 0 THEN ends.atOnce ELSE sub[s].NT = ends.step
<1>1. pc[p].i \in 1 .. Len(pcsubnet[p])
  BY DEF MsgInv, LoopInv
<1>2. PICK s \in SubsOf(p) : s = pcsubnet[p][pc[p].i]
  BY <1>1, Indices
<1>3. DatumInv(p, s)
  BY <1>1, <1>2 DEF MsgInv, PairInv
<1>4. msg101[p][s] \in {<<TRUE>>, <<FALSE>>} /\ msg101[p][s] # <<>>
  <2>1. msg101[p][s] # <<>>
    BY <1>2 DEF Receive101
  <2>2. msg101[p] \in [SubsOf(p) -> {<<>>, <<TRUE>>, <<FALSE>>}]
    BY DEF MsgInv, MsgType
  <2>3. QED
    BY <1>2, <2>1, <2>2
<1>5. Tail(msg101[p][s]) = <<>> /\ Head(msg101[p][s]) \in BOOLEAN
  BY <1>4, OneMessage
<1>6. QED
  BY <1>2, <1>3, <1>4, <1>5 DEF DatumInv, Receive101, MsgInv, MsgType

\* What the counts say of a pair holds on when nothing of it changes.
LEMMA PairSame ==
  ASSUME NEW p, NEW j, PairInv(p, j), pc'[p] = pc[p], UNCHANGED ends,
         msg101'[p][pcsubnet[p][j]] = msg101[p][pcsubnet[p][j]],
         msg102'[p][pcsubnet[p][j]] = msg102[p][pcsubnet[p][j]],
         msg1'[p][pcsubnet[p][j]] = msg1[p][pcsubnet[p][j]],
         sub'[pcsubnet[p][j]] = sub[pcsubnet[p][j]],
         cal'[pcsubnet[p][j]] = cal[pcsubnet[p][j]]
  PROVE  PairInv(p, j)'
BY DEF PairInv, DatumInv, RunningInv, EndedInv, Sent101, Taken102, Sent1, Got101, Put102,
       Got1, OneIf, Past, Quit

\* It holds on when the thread takes a step that its counts do not see.
LEMMA PairMoves ==
  ASSUME NEW p, NEW j, PairInv(p, j), pc[p].at \notin Ended, pc'[p].at \notin Ended,
         Got101(p, j)' = Got101(p, j), Put102(p, j)' = Put102(p, j), Got1(p, j)' = Got1(p, j),
         UNCHANGED <<ends, sub>>, cal'[pcsubnet[p][j]] = cal[pcsubnet[p][j]],
         msg101'[p][pcsubnet[p][j]] = msg101[p][pcsubnet[p][j]],
         msg102'[p][pcsubnet[p][j]] = msg102[p][pcsubnet[p][j]],
         msg1'[p][pcsubnet[p][j]] = msg1[p][pcsubnet[p][j]]
  PROVE  PairInv(p, j)'
BY DEF PairInv, DatumInv, RunningInv, Sent101, Taken102, Sent1, Quit

\* A step of the thread sees to it that the thread is at one place after another.
ThreadKeepsSub(p) ==
  /\ UNCHANGED <<ends, sub>>
  /\ \A s \in Subs : cal'[s] = cal[s]

LEMMA ThreadLeavesSub ==
  ASSUME TypeInv, NEW p \in Phys, RTSTPhySim(p)
  PROVE  ThreadKeepsSub(p)
<1>1. CASE EnterCal2(p)
  BY <1>1, Numbers DEF EnterCal2, ThreadKeepsSub, TypeInv
<1>2. CASE ~EnterCal2(p)
  BY <1>2 DEF RTSTPhySim, RecvFirst, Search, SetIsBalance, StopUnbalanced, CheckOk,
     SendInitial, Hold, PassCal2, RecvStart, RecvStep, SendStep, OutStep, StopSim, MarkEnd,
     ThreadKeepsSub, mpi
<1>3. QED
  BY <1>1, <1>2

\* A subnet from which a thread has the first message, and to which it has sent no
\* values, waits for them, or has left.
LEMMA BeforeInitial ==
  ASSUME TypeInv, MsgInv, NEW p \in Phys, NEW j \in 1 .. Len(pcsubnet[p]),
         pc[p].at \notin Ended, Got101(p, j) = 1, Put102(p, j) = 0, Got1(p, j) = 0
  PROVE  /\ EndedInv(p, pcsubnet[p][j])
         /\ ends.atOnce => sub[pcsubnet[p][j]].at \in {"over", "world"}
<1> DEFINE s == pcsubnet[p][j]
<1>1. /\ OneIf(msg101[p][s] # <<>>) + msg102[p][s] + Got101(p, j) - Put102(p, j)
           <= Sent101(s) - Taken102(s)
      /\ s \in Subs /\ StageInv(s) /\ msg102[p][s] \in {0, 1} /\ msg1[p][s] \in {0, 1}
  BY OneOfTwo
<1>2. RunningInv(p, j, s)
  BY DEF MsgInv, PairInv
<1>3. /\ OneIf(msg101[p][s] # <<>>) \in {0, 1}
      /\ msg101[p][s] # <<>> => OneIf(msg101[p][s] # <<>>) = 1
  BY DEF OneIf
<1> HIDE DEF s
<1>4. /\ Sent101(s) \in Nat /\ Taken102(s) \in Nat /\ Sent101(s) <= Taken102(s) + 1
  BY <1>1, SubCounts
<1>5. /\ sub[s].NT \in Nat /\ cal[s] \in 0 .. 2 /\ sub[s].at \in SubPlaces
  BY <1>1 DEF TypeInv, Procs
<1>6. Taken102(s) = 0 /\ msg102[p][s] = 0 /\ msg101[p][s] = <<>>
  BY <1>1, <1>2, <1>3, <1>4 DEF RunningInv
<1>7. cal[s] = 0
  BY <1>5, <1>6 DEF Taken102
<1>8. msg1[p][s] = 0
  BY <1>1, <1>2, <1>7 DEF RunningInv, Sent1, OneIf
<1>9. sub[s].at \notin {"init", "err1"}
  <2>1. Sent101(s) = 1
    BY <1>2, <1>3, <1>4, <1>6 DEF RunningInv, OneIf
  <2>2. QED
    BY <2>1 DEF Sent101
<1>10. sub[s].at \in {"sent", "err2", "over", "world"}
  BY <1>1, <1>5, <1>7, <1>9 DEF StageInv, SubPlaces
<1>11. EndedInv(p, s) /\ (ends.atOnce => sub[s].at \in {"over", "world"})
  BY <1>1, <1>6, <1>8, <1>10 DEF EndedInv, StageInv
<1>12. QED
  BY <1>11 DEF s

\* The first message of a subnet is received.
LEMMA RecvFirstPair ==
  ASSUME TypeInv, MsgInv, NEW p \in Phys, RecvFirst(p), NEW j \in 1 .. Len(pcsubnet[p])
  PROVE  PairInv(p, j)'
<1> DEFINE i == pc[p].i
           s == pcsubnet[p][j]
<1>1. /\ pc[p].at = "first" /\ LoopInv(p) /\ PairInv(p, j) /\ MsgType
      /\ i \in 1 .. Len(pcsubnet[p]) /\ Len(pcsubnet[p]) \in Nat
  BY Indices DEF MsgInv, RecvFirst, LoopInv
<1>2. ThreadKeepsSub(p) /\ UNCHANGED <<msg102, msg1>>
  BY ThreadLeavesSub DEF RTSTPhySim, RecvFirst
<1>3. /\ pcsubnet[p][i] \in SubsOf(p) /\ msg101[p][pcsubnet[p][i]] # <<>>
      /\ msg101' = [msg101 EXCEPT ![p][pcsubnet[p][i]] = <<>>]
      /\ Head(msg101[p][pcsubnet[p][i]]) \in BOOLEAN
      /\ IsContinue' \in [Phys -> BOOLEAN] /\ IsContinue'[p] = Head(msg101[p][pcsubnet[p][i]])
      /\ Head(msg101[p][pcsubnet[p][i]]) =
           IF cal[pcsubnet[p][i]] = 0 THEN ends.atOnce
           ELSE sub[pcsubnet[p][i]].NT = ends.step
  BY Receives DEF RecvFirst
<1>4. s \in Subs /\ (j # i => s # pcsubnet[p][i]) /\ s \in SubsOf(p) /\ pcsubnet[p][i] \in Subs
  BY <1>1, Indices
<1>5. cal[pcsubnet[p][i]] = 0
  <2>1. RunningInv(p, i, pcsubnet[p][i]) /\ msg102[p][pcsubnet[p][i]] \in {0, 1}
    BY <1>1, <1>3 DEF MsgInv, MsgType, PairInv, Ended
  <2>2. Put102(p, i) = 0
    BY <1>1 DEF Put102
  <2>3. cal[pcsubnet[p][i]] \in 0 .. 2 /\ sub[pcsubnet[p][i]].NT \in Nat
    BY <1>4 DEF TypeInv, Procs
  <2>4. Taken102(pcsubnet[p][i]) \in Nat
    BY <2>3 DEF Taken102
  <2>5. Taken102(pcsubnet[p][i]) = 0
    BY <2>1, <2>2, <2>4 DEF RunningInv
  <2>6. QED
    BY <2>3, <2>5 DEF Taken102
<1>6. IsContinue'[p] => ends.atOnce
  BY <1>3, <1>5
<1>7. PICK place \in {"search", "returned"} :
        Next_i(p, place) /\ (place = "returned" => ends.atOnce)
  BY <1>6 DEF RecvFirst
<1>8. /\ \/ i < Len(pcsubnet[p]) /\ pc'[p].at = "first" /\ pc'[p].i = i + 1
         \/ i = Len(pcsubnet[p]) /\ pc'[p].at = place
      /\ j \in Nat
  BY <1>1, <1>7, NextPlace DEF Places
<1>9. /\ Put102(p, j) = 0 /\ Got1(p, j) = 0
      /\ pc'[p].at \in {"first", "search"} => Put102(p, j)' = 0 /\ Got1(p, j)' = 0
  BY <1>1 DEF Put102, Got1, OneIf
<1>10. Got101(p, j) = OneIf(j < i)
  BY <1>1 DEF Got101, Past
<1>11. ASSUME i < Len(pcsubnet[p])
       PROVE  Got101(p, j)' = OneIf(j < i + 1)
  BY <1>8, <1>11 DEF Got101, Past
<1>12. ASSUME place = "search", i = Len(pcsubnet[p])
       PROVE  Got101(p, j)' = 1
  BY <1>8, <1>12 DEF Got101
<1>13. CASE j = i
  <2>0. /\ DOMAIN msg101 = Phys /\ DOMAIN msg101[p] = SubsOf(p) /\ s = pcsubnet[p][i]
    BY <1>1, <1>13 DEF MsgType
  <2>1. /\ msg101[p][s] # <<>> /\ msg101'[p][s] = <<>> /\ Got101(p, j) = 0
    BY <1>1, <1>3, <1>4, <1>8, <1>10, <1>13, <2>0 DEF OneIf
  <2>2. /\ Sent101(s) = 1 /\ RunningInv(p, j, s)
    BY <1>1, <2>1 DEF PairInv, RunningInv, Ended, OneIf
  <2>3. /\ Sent101(s)' = Sent101(s) /\ Taken102(s)' = Taken102(s) /\ Sent1(s)' = Sent1(s)
    BY <1>2, <1>4 DEF ThreadKeepsSub, Sent101, Taken102, Sent1
  <2>4. CASE pc'[p].at \in {"first", "search"}
    <3>1. Got101(p, j)' = 1
      BY <1>8, <1>11, <1>12, <1>13, <2>4 DEF OneIf
    <3>2. RunningInv(p, j, s)'
      BY <1>2, <1>9, <2>1, <2>2, <2>3, <2>4, <3>1 DEF RunningInv, OneIf
    <3>3. QED
      BY <2>1, <2>4, <3>2 DEF PairInv, DatumInv, Ended
  <2>5. CASE pc'[p].at = "returned" /\ ends.atOnce
    <3>1. sub[s].at \in {"over", "world"}
      <4>1. StageInv(s) /\ sub[s].at \in SubPlaces
        BY <1>4 DEF MsgInv, TypeInv
      <4>2. cal[s] = 0
        BY <1>5, <1>13
      <4>3. QED
        BY <2>2, <2>5, <4>1, <4>2 DEF StageInv, SubPlaces, Sent101
    <3>2. QED
      BY <1>2, <2>1, <2>5, <3>1 DEF PairInv, DatumInv, Ended, EndedInv, ThreadKeepsSub
  <2>6. QED
    BY <1>7, <1>8, <2>4, <2>5
<1>14. CASE j # i
  <2>1. msg101'[p][s] = msg101[p][s]
    BY <1>1, <1>3, <1>4, <1>14 DEF MsgType
  <2>2. CASE pc'[p].at \in {"first", "search"}
    <3>1. Got101(p, j)' = Got101(p, j)
      <4>1. CASE i < Len(pcsubnet[p])
        BY <1>1, <1>10, <1>11, <1>14, <4>1 DEF OneIf
      <4>2. CASE i = Len(pcsubnet[p])
        BY <1>1, <1>8, <1>10, <1>12, <1>14, <2>2, <4>2 DEF OneIf
      <4>3. QED
        BY <1>1, <4>1, <4>2
    <3>2. QED
      BY <1>1, <1>2, <1>4, <1>9, <2>1, <2>2, <3>1, PairMoves DEF Ended, ThreadKeepsSub
  <2>3. CASE pc'[p].at = "returned" /\ ends.atOnce
    <3>1. Got101(p, j) = 1
      BY <1>1, <1>8, <1>10, <1>14, <2>3 DEF OneIf
    <3>2. sub[s].at \in {"over", "world"}
      BY <1>1, <1>9, <2>3, <3>1, BeforeInitial DEF Ended
    <3>3. QED
      BY <1>1, <1>2, <1>4, <2>1, <2>3, <3>2
      DEF PairInv, DatumInv, Ended, EndedInv, ThreadKeepsSub
  <2>4. QED
    BY <1>7, <1>8, <2>2, <2>3
<1>15. QED
  BY <1>13, <1>14

\* From the first messages to the initial values nothing is sent.
LEMMA SearchPair ==
  ASSUME TypeInv, MsgInv, NEW p \in Phys, NEW j \in 1 .. Len(pcsubnet[p]),
         Search(p) \/ SetIsBalance(p) \/ StopUnbalanced(p) \/ CheckOk(p)
  PROVE  PairInv(p, j)'
<1> DEFINE s == pcsubnet[p][j]
<1>1. /\ LoopInv(p) /\ PairInv(p, j) /\ s \in Subs /\ pc \in [Phys -> Threads]
      /\ RTSTPhySim(p) /\ j \in Nat
  <2>1. s \in Subs /\ j \in Nat
    BY Indices
  <2>2. QED
    BY <2>1 DEF MsgInv, RTSTPhySim, TypeInv
<1>2. ThreadKeepsSub(p) /\ UNCHANGED <<msg101, msg102, msg1>>
  BY <1>1, ThreadLeavesSub DEF Search, SetIsBalance, StopUnbalanced, CheckOk, mpi
<1>3. /\ pc[p].at \in {"search", "balanced", "unbalanced", "check"}
      /\ pc'[p].at \in {"search", "balanced", "unbalanced", "check", "initial", "end", "returned"}
      /\ pc'[p].i = 1
  BY <1>1 DEF Search, SetIsBalance, StopUnbalanced, CheckOk, Turn, Threads, LoopInv, Ended
<1>4. Got101(p, j) = 1 /\ Put102(p, j) = 0 /\ Got1(p, j) = 0 /\ pc[p].at \notin Ended
  BY <1>3 DEF Got101, Put102, Got1, OneIf, Ended
<1>5. CASE pc'[p].at \notin Ended
  <2>1. Got101(p, j)' = 1 /\ Put102(p, j)' = 0 /\ Got1(p, j)' = 0
    BY <1>1, <1>3, <1>5 DEF Got101, Put102, Got1, OneIf, Ended, Past
  <2>2. QED
    BY <1>1, <1>2, <1>4, <1>5, <2>1, PairMoves DEF ThreadKeepsSub
<1>6. CASE pc'[p].at \in Ended
  <2>1. EndedInv(p, s)
    BY <1>4, BeforeInitial
  <2>2. QED
    BY <1>1, <1>2, <1>6, <2>1 DEF PairInv, DatumInv, EndedInv, ThreadKeepsSub
<1>7. QED
  BY <1>5, <1>6

\* What a thread that sends values with tag 102 finds under way, and leaves.
LEMMA Sends ==
  ASSUME TypeInv, MsgInv, NEW p \in Phys, Send102(p), pc[p].at \in {"initial", "send"}
  PROVE  LET s == pcsubnet[p][pc[p].i]
         IN  /\ s \in SubsOf(p) /\ msg102[p][s] = 0
             /\ msg102' = [msg102 EXCEPT ![p][s] = 1]
             /\ msg102'[p][s] = 1
<1>1. pc[p].i \in 1 .. Len(pcsubnet[p])
  BY DEF MsgInv, LoopInv
<1>2. PICK s \in SubsOf(p) : s = pcsubnet[p][pc[p].i]
  BY <1>1, Indices
<1>3. ~Past(p, pc[p].i)
  BY <1>1, Indices DEF Past
<1>4. msg102[p][s] = 0
  BY <1>1, <1>2, <1>3, NothingFromThread
<1>5. DOMAIN msg102 = Phys /\ DOMAIN msg102[p] = SubsOf(p)
  BY DEF MsgInv, MsgType
<1>6. msg102' = [msg102 EXCEPT ![p][s] = 1]
  BY <1>2, <1>4 DEF Send102
<1>7. msg102'[p][s] = 1
  BY <1>2, <1>5, <1>6
<1>8. QED
  BY <1>2, <1>4, <1>6, <1>7

\* Values are sent to a subnet, the initial ones or those of a step.
LEMMA SendPair ==
  ASSUME TypeInv, MsgInv, NEW p \in Phys, NEW j \in 1 .. Len(pcsubnet[p]),
         SendInitial(p) \/ SendStep(p)
  PROVE  PairInv(p, j)'
<1> DEFINE i == pc[p].i
           s == pcsubnet[p][j]
<1>1. /\ LoopInv(p) /\ PairInv(p, j) /\ MsgType /\ pc[p].NT \in Nat
      /\ i \in 1 .. Len(pcsubnet[p]) /\ Len(pcsubnet[p]) \in Nat /\ j \in Nat
      /\ pc[p].at = "initial" => pc[p].NT = 0
  BY Indices DEF MsgInv, LoopInv, TypeInv, Threads, Ended
<1>2. ThreadKeepsSub(p) /\ UNCHANGED <<msg101, msg1>>
  BY ThreadLeavesSub DEF RTSTPhySim, SendInitial, SendStep
<1>3. pc[p].at \in {"initial", "send"} /\ Send102(p)
  BY DEF SendInitial, SendStep
<1>4. s \in Subs /\ (j # i => s # pcsubnet[p][i]) /\ s \in SubsOf(p) /\ pcsubnet[p][i] \in Subs
  BY <1>1, Indices
<1>5. PICK place \in {"hold", "out"} :
        Next_i(p, place) /\ place = IF pc[p].at = "initial" THEN "hold" ELSE "out"
  BY DEF SendInitial, SendStep
<1>6. /\ \/ i < Len(pcsubnet[p]) /\ pc'[p].at = pc[p].at /\ pc'[p].i = i + 1
         \/ i = Len(pcsubnet[p]) /\ pc'[p].at = place
      /\ pc'[p].NT = pc[p].NT
  BY <1>1, <1>5, NextPlace DEF Places
<1>7. pc[p].at \notin Ended /\ pc'[p].at \notin Ended
  BY <1>3, <1>5, <1>6 DEF Ended
<1>8. Got101(p, j)' = Got101(p, j) /\ Got1(p, j)' = Got1(p, j)
  BY <1>1, <1>3, <1>5, <1>6 DEF Got101, Got1, OneIf
<1>9. Put102(p, j) = pc[p].NT + OneIf(j < i) + (IF pc[p].at = "initial" THEN 0 ELSE 1)
  BY <1>1, <1>3 DEF Put102, Past, OneIf
<1>10. Put102(p, j)' = pc[p].NT + OneIf(j <= i) + (IF pc[p].at = "initial" THEN 0 ELSE 1)
  <2>1. CASE i < Len(pcsubnet[p])
    BY <1>1, <1>3, <1>6, <2>1 DEF Put102, Past, OneIf
  <2>2. CASE i = Len(pcsubnet[p]) /\ pc[p].at = "initial"
    <3>1. pc'[p].at = "hold" /\ pc'[p].NT = 0
      BY <1>1, <1>5, <1>6, <2>2
    <3>2. QED
      BY <1>1, <2>2, <3>1 DEF Put102, OneIf
  <2>3. CASE i = Len(pcsubnet[p]) /\ pc[p].at = "send"
    <3>1. pc'[p].at = "out" /\ pc'[p].NT = pc[p].NT
      BY <1>1, <1>5, <1>6, <2>3
    <3>2. QED
      BY <1>1, <2>3, <3>1 DEF Put102, OneIf
  <2>4. QED
    BY <1>1, <1>3, <2>1, <2>2, <2>3
<1>11. CASE j = i
  <2>1. msg102[p][s] = 0 /\ msg102'[p][s] = 1
    BY <1>3, <1>11, Sends
  <2>2. Put102(p, j)' = Put102(p, j) + 1 /\ Put102(p, j) \in Nat
    BY <1>1, <1>9, <1>10, <1>11 DEF OneIf
  <2>3. /\ Sent101(s)' = Sent101(s) /\ Taken102(s)' = Taken102(s) /\ Sent1(s)' = Sent1(s)
        /\ Quit(s)' = Quit(s) /\ Taken102(s) \in Nat
    BY <1>2, <1>4, SubCounts DEF ThreadKeepsSub, Sent101, Taken102, Sent1, Quit, MsgInv
  <2>4. RunningInv(p, j, s) /\ DatumInv(p, s)
    BY <1>1, <1>7 DEF PairInv
  <2>5. RunningInv(p, j, s)'
    BY <1>2, <1>8, <2>1, <2>2, <2>3, <2>4 DEF RunningInv
  <2>6. DatumInv(p, s)'
    BY <1>2, <1>4, <2>4 DEF DatumInv, ThreadKeepsSub
  <2>7. QED
    BY <1>7, <2>5, <2>6 DEF PairInv
<1>12. CASE j # i
  <2>1. msg102'[p][s] = msg102[p][s]
    BY <1>1, <1>3, <1>4, <1>12 DEF Send102, MsgType
  <2>2. Put102(p, j)' = Put102(p, j)
    BY <1>1, <1>9, <1>10, <1>12 DEF OneIf
  <2>3. QED
    BY <1>1, <1>2, <1>4, <1>7, <1>8, <2>1, <2>2, PairMoves DEF ThreadKeepsSub
<1>13. QED
  BY <1>11, <1>12

\* The command to start is received.
LEMMA RecvStartPair ==
  ASSUME TypeInv, MsgInv, NEW p \in Phys, NEW j \in 1 .. Len(pcsubnet[p]), RecvStart(p)
  PROVE  PairInv(p, j)'
<1> DEFINE i == pc[p].i
           s == pcsubnet[p][j]
<1>1. /\ LoopInv(p) /\ PairInv(p, j) /\ MsgType /\ pc[p].NT = 0 /\ pc[p].at = "start"
      /\ i \in 1 .. Len(pcsubnet[p]) /\ Len(pcsubnet[p]) \in Nat /\ j \in Nat
  BY Indices DEF MsgInv, LoopInv, RecvStart, Ended
<1>2. ThreadKeepsSub(p) /\ UNCHANGED <<msg101, msg102>>
  BY ThreadLeavesSub DEF RTSTPhySim, RecvStart
<1>4. s \in Subs /\ (j # i => s # pcsubnet[p][i]) /\ s \in SubsOf(p) /\ pcsubnet[p][i] \in Subs
  BY <1>1, Indices
<1>5. Next_i(p, "recv")
  BY DEF RecvStart
<1>6. /\ \/ i < Len(pcsubnet[p]) /\ pc'[p].at = "start" /\ pc'[p].i = i + 1
         \/ i = Len(pcsubnet[p]) /\ pc'[p].at = "recv" /\ pc'[p].i = 1
      /\ pc'[p].NT = 0
  BY <1>1, <1>5, NextPlace DEF Places
<1>7. pc[p].at \notin Ended /\ pc'[p].at \notin Ended
  BY <1>1, <1>6 DEF Ended
<1>8. Got101(p, j)' = Got101(p, j) /\ Put102(p, j)' = Put102(p, j)
  BY <1>1, <1>6 DEF Got101, Put102, OneIf, Past
<1>9. Got1(p, j) = OneIf(j < i) /\ Got1(p, j)' = OneIf(j <= i)
  BY <1>1, <1>6 DEF Got1, Past, OneIf
<1>11. CASE j = i
  <2>0. DOMAIN msg1 = Phys /\ DOMAIN msg1[p] = SubsOf(p) /\ msg1[p][s] \in {0, 1}
    BY <1>1, <1>4 DEF MsgType
  <2>1. msg1[p][s] = 1 /\ msg1'[p][s] = 0
    BY <1>4, <1>11, <2>0 DEF RecvStart
  <2>2. Got1(p, j) = 0 /\ Got1(p, j)' = 1
    BY <1>1, <1>9, <1>11 DEF OneIf
  <2>3. /\ Sent101(s)' = Sent101(s) /\ Taken102(s)' = Taken102(s) /\ Sent1(s)' = Sent1(s)
        /\ Quit(s)' = Quit(s)
    BY <1>2, <1>4 DEF ThreadKeepsSub, Sent101, Taken102, Sent1, Quit
  <2>4. RunningInv(p, j, s) /\ DatumInv(p, s)
    BY <1>1, <1>7 DEF PairInv
  <2>5. RunningInv(p, j, s)'
    BY <1>2, <1>8, <2>1, <2>2, <2>3, <2>4 DEF RunningInv
  <2>6. DatumInv(p, s)'
    BY <1>2, <1>4, <2>4 DEF DatumInv, ThreadKeepsSub
  <2>7. QED
    BY <1>7, <2>5, <2>6 DEF PairInv
<1>12. CASE j # i
  <2>1. msg1'[p][s] = msg1[p][s]
    BY <1>1, <1>4, <1>12 DEF RecvStart, MsgType
  <2>2. Got1(p, j)' = Got1(p, j)
    BY <1>1, <1>9, <1>12 DEF OneIf
  <2>3. QED
    BY <1>1, <1>2, <1>4, <1>7, <1>8, <2>1, <2>2, PairMoves DEF ThreadKeepsSub
<1>13. QED
  BY <1>11, <1>12

\* The values of a step are received from a subnet.
LEMMA RecvStepPair ==
  ASSUME TypeInv, MsgInv, NEW p \in Phys, NEW j \in 1 .. Len(pcsubnet[p]), RecvStep(p)
  PROVE  PairInv(p, j)'
<1> DEFINE i == pc[p].i
           s == pcsubnet[p][j]
<1>1. /\ LoopInv(p) /\ PairInv(p, j) /\ MsgType /\ pc[p].NT \in Nat /\ pc[p].at = "recv"
      /\ i \in 1 .. Len(pcsubnet[p]) /\ Len(pcsubnet[p]) \in Nat /\ j \in Nat
  BY Indices DEF MsgInv, LoopInv, RecvStep, TypeInv, Threads
<1>2. ThreadKeepsSub(p) /\ UNCHANGED <<msg102, msg1>>
  BY ThreadLeavesSub DEF RTSTPhySim, RecvStep
<1>3. /\ pcsubnet[p][i] \in SubsOf(p) /\ msg101[p][pcsubnet[p][i]] # <<>>
      /\ msg101' = [msg101 EXCEPT ![p][pcsubnet[p][i]] = <<>>]
  BY Receives DEF RecvStep
<1>4. s \in Subs /\ (j # i => s # pcsubnet[p][i]) /\ s \in SubsOf(p) /\ pcsubnet[p][i] \in Subs
  BY <1>1, Indices
<1>5. PICK place \in {"over", "send"} : Next_i(p, place)
  BY DEF RecvStep
<1>6. /\ \/ i < Len(pcsubnet[p]) /\ pc'[p].at = "recv" /\ pc'[p].i = i + 1
         \/ i = Len(pcsubnet[p]) /\ pc'[p].at = place /\ pc'[p].i = 1
      /\ pc'[p].NT = pc[p].NT
  BY <1>1, <1>5, NextPlace DEF Places
<1>7. pc[p].at \notin Ended /\ pc'[p].at \notin Ended
  BY <1>1, <1>5, <1>6 DEF Ended
<1>8. Got1(p, j)' = Got1(p, j) /\ Put102(p, j)' = Put102(p, j)
  BY <1>1, <1>5, <1>6 DEF Got1, Put102, OneIf, Past
<1>9. /\ Got101(p, j) = pc[p].NT + 1 + OneIf(j < i)
      /\ Got101(p, j)' = pc[p].NT + 1 + OneIf(j <= i)
  BY <1>1, <1>5, <1>6 DEF Got101, Past, OneIf
<1>11. CASE j = i
  <2>0. DOMAIN msg101 = Phys /\ DOMAIN msg101[p] = SubsOf(p) /\ s = pcsubnet[p][i]
    BY <1>1, <1>11 DEF MsgType
  <2>1. msg101[p][s] # <<>> /\ msg101'[p][s] = <<>>
    BY <1>3, <1>4, <2>0
  <2>2. Got101(p, j)' = Got101(p, j) + 1 /\ Got101(p, j) \in Nat
    BY <1>1, <1>9, <1>11 DEF OneIf
  <2>3. /\ Sent101(s)' = Sent101(s) /\ Taken102(s)' = Taken102(s) /\ Sent1(s)' = Sent1(s)
        /\ Quit(s)' = Quit(s) /\ Sent101(s) \in Nat
    BY <1>2, <1>4, SubCounts DEF ThreadKeepsSub, Sent101, Taken102, Sent1, Quit, MsgInv
  <2>4. RunningInv(p, j, s)
    BY <1>1, <1>7 DEF PairInv
  <2>5. OneIf(msg101[p][s] # <<>>) = 1 /\ OneIf(msg101'[p][s] # <<>>) = 0
    BY <2>1 DEF OneIf
  <2>6. RunningInv(p, j, s)'
    BY <1>2, <1>8, <2>1, <2>2, <2>3, <2>4, <2>5 DEF RunningInv
  <2>7. DatumInv(p, s)'
    BY <2>1 DEF DatumInv
  <2>8. QED
    BY <1>7, <2>6, <2>7 DEF PairInv
<1>12. CASE j # i
  <2>1. msg101'[p][s] = msg101[p][s]
    BY <1>1, <1>3, <1>4, <1>12 DEF MsgType
  <2>2. Got101(p, j)' = Got101(p, j)
    BY <1>1, <1>9, <1>12 DEF OneIf
  <2>3. QED
    BY <1>1, <1>2, <1>4, <1>7, <1>8, <2>1, <2>2, PairMoves DEF ThreadKeepsSub
<1>13. QED
  BY <1>11, <1>12

\* The steps of the thread without a message.
LEMMA QuietPair ==
  ASSUME TypeInv, MsgInv, NEW p \in Phys, NEW j \in 1 .. Len(pcsubnet[p]),
         Hold(p) \/ EnterCal2(p) \/ PassCal2(p) \/ OutStep(p)
  PROVE  PairInv(p, j)'
<1>1. /\ LoopInv(p) /\ PairInv(p, j) /\ pc[p].NT \in Nat /\ pc \in [Phys -> Threads]
      /\ j \in Nat /\ pcsubnet[p][j] \in Subs
  <2>1. pcsubnet[p][j] \in Subs /\ j \in Nat
    BY Indices
  <2>2. QED
    BY <2>1 DEF MsgInv, TypeInv, Threads
<1>2. ThreadKeepsSub(p) /\ UNCHANGED <<msg101, msg102, msg1>>
  BY ThreadLeavesSub DEF RTSTPhySim, Hold, EnterCal2, PassCal2, OutStep, mpi
<1>3. pc'[p].i = 1 /\ pc[p].i = 1
  BY <1>1 DEF Hold, EnterCal2, PassCal2, OutStep, Turn, Threads, LoopInv
<1>4. CASE Hold(p) \/ EnterCal2(p) \/ PassCal2(p)
  <2>1. /\ pc[p].at \in {"hold", "barrier", "barrier2"} /\ pc'[p].NT = pc[p].NT
        /\ pc'[p].at \in {"hold", "barrier", "barrier2", "start"} /\ pc[p].NT = 0
    BY <1>1, <1>4 DEF Hold, EnterCal2, PassCal2, Turn, Threads, LoopInv, Ended
  <2>2. Got101(p, j)' = Got101(p, j) /\ Put102(p, j)' = Put102(p, j) /\ Got1(p, j)' = Got1(p, j)
    BY <1>1, <1>3, <2>1 DEF Got101, Put102, Got1, OneIf, Past
  <2>3. QED
    BY <1>1, <1>2, <2>1, <2>2, PairMoves DEF ThreadKeepsSub, Ended
<1>5. CASE OutStep(p)
  <2>1. /\ pc[p].at = "out" /\ pc'[p].at = "recv" /\ pc'[p].NT = pc[p].NT + 1
    BY <1>1, <1>5 DEF OutStep, Threads
  <2>2. Got101(p, j)' = Got101(p, j) /\ Put102(p, j)' = Put102(p, j) /\ Got1(p, j)' = Got1(p, j)
    BY <1>1, <1>3, <2>1 DEF Got101, Put102, Got1, OneIf, Past
  <2>3. QED
    BY <1>1, <1>2, <2>1, <2>2, PairMoves DEF ThreadKeepsSub, Ended
<1>6. QED
  BY <1>4, <1>5

\* When the thread stops its boxes all its subnets have sent their last message.
LEMMA StopPair ==
  ASSUME TypeInv, MsgInv, NEW p \in Phys, NEW j \in 1 .. Len(pcsubnet[p]),
         StopSim(p) \/ MarkEnd(p)
  PROVE  PairInv(p, j)'
<1> DEFINE s == pcsubnet[p][j]
<1>1. LoopInv(p) /\ PairInv(p, j) /\ pc \in [Phys -> Threads] /\ s \in Subs
  <2>1. s \in Subs
    BY Indices
  <2>2. QED
    BY <2>1 DEF MsgInv, TypeInv
<1>2. ThreadKeepsSub(p) /\ UNCHANGED <<msg101, msg102, msg1>>
  BY ThreadLeavesSub DEF RTSTPhySim, StopSim, MarkEnd, mpi
<1>3. EndedInv(p, s)
  <2>1. CASE MarkEnd(p)
    BY <1>1, <2>1 DEF MarkEnd, PairInv, Ended
  <2>2. CASE StopSim(p)
    <3>1. pc[p].at = "over" /\ pc[p].NT = ends.step /\ ends.step \in Nat /\ pc[p].at \notin Ended
      BY <1>1, <2>2, Numbers DEF StopSim, LoopInv, MsgInv, MsgType, Ended, TypeInv, Threads
    <3>2. RunningInv(p, j, s) /\ StageInv(s)
      BY <1>1, <3>1 DEF PairInv, MsgInv
    <3>3. Got101(p, j) = ends.step + 2
      BY <3>1 DEF Got101
    <3>4. OneIf(msg101[p][s] # <<>>) \in {0, 1} /\ Sent101(s) \in Nat
      BY <1>1, <3>2, SubCounts DEF OneIf
    <3>5. Sent101(s) >= ends.step + 2
      BY <3>1, <3>2, <3>3, <3>4 DEF RunningInv
    <3>6. sub[s].NT \in Nat /\ sub[s].at \in SubPlaces /\ sub[s].NT <= ends.step
      BY <1>1, <3>2 DEF TypeInv, StageInv
    <3>7. sub[s].at \in {"recv", "over", "world"}
      BY <3>1, <3>5, <3>6 DEF Sent101
    <3>8. sub[s].at # "recv"
      BY <3>1, <3>2, <3>5, <3>6 DEF Sent101, StageInv
    <3>9. QED
      BY <3>7, <3>8 DEF EndedInv
  <2>3. QED
    BY <2>1, <2>2
<1>4. pc'[p].at \in Ended
  BY <1>1 DEF StopSim, MarkEnd, Threads, Ended
<1>5. DatumInv(p, s)'
  BY <1>1, <1>2 DEF PairInv, DatumInv, ThreadKeepsSub
<1>6. EndedInv(p, s)'
  BY <1>2, <1>3 DEF EndedInv, ThreadKeepsSub
<1>7. QED
  BY <1>4, <1>5, <1>6 DEF PairInv

\* A step of the thread keeps the counts of its pairs.
LEMMA ThreadPair ==
  ASSUME TypeInv, MsgInv, NEW p \in Phys, RTSTPhySim(p), NEW j \in 1 .. Len(pcsubnet[p])
  PROVE  PairInv(p, j)'
BY RecvFirstPair, SearchPair, SendPair, RecvStartPair, RecvStepPair, QuietPair, StopPair
DEF RTSTPhySim

\* A message of a step says whether this step is the last.
LEMMA StepDatum ==
  ASSUME TypeInv, MsgInv, NEW p \in Phys, RecvStep(p)
  PROVE  IsContinue'[p] = (pc[p].NT = ends.step)
<1> DEFINE i == pc[p].i
           s == pcsubnet[p][i]
<1>1. i \in 1 .. Len(pcsubnet[p]) /\ pc[p].at = "recv" /\ pc[p].NT \in Nat
  BY DEF MsgInv, LoopInv, RecvStep, TypeInv, Threads
<1>2. /\ msg101[p][s] # <<>>
      /\ IsContinue'[p] = IF cal[s] = 0 THEN ends.atOnce ELSE sub[s].NT = ends.step
  BY Receives DEF RecvStep
<1>3. /\ OneIf(msg101[p][s] # <<>>) + msg102[p][s] + Got101(p, i) - Put102(p, i)
           <= Sent101(s) - Taken102(s)
      /\ s \in Subs /\ StageInv(s) /\ msg102[p][s] \in {0, 1}
  BY <1>1, OneOfTwo DEF Ended
<1>4. Got101(p, i) = pc[p].NT + 1 /\ Put102(p, i) = pc[p].NT + 1 /\ OneIf(msg101[p][s] # <<>>) = 1
  BY <1>1, <1>2 DEF Got101, Put102, OneIf, Past
<1>5. RunningInv(p, i, s)
  BY <1>1 DEF MsgInv, PairInv, Ended
<1> HIDE DEF s
<1>6. /\ Sent101(s) \in Nat /\ Taken102(s) \in Nat /\ Sent101(s) <= Taken102(s) + 1
      /\ sub[s].NT \in Nat /\ cal[s] \in 0 .. 2
  BY <1>3, SubCounts DEF TypeInv, Procs
<1>7. Taken102(s) = pc[p].NT + 1
  BY <1>1, <1>3, <1>4, <1>5, <1>6 DEF RunningInv
<1>8. cal[s] # 0 /\ sub[s].NT = pc[p].NT
  BY SMTT(30), <1>1, <1>6, <1>7 DEF Taken102
<1>9. QED
  BY <1>2, <1>8

\* A step of the thread keeps to its loops.
LEMMA ThreadLoop ==
  ASSUME TypeInv, MsgInv, NEW p \in Phys, RTSTPhySim(p)
  PROVE  LoopInv(p)'
<1>1. /\ LoopInv(p) /\ pc \in [Phys -> Threads] /\ Len(pcsubnet[p]) \in Nat \ {0}
      /\ ends.step \in Nat /\ UNCHANGED ends /\ MaxK \in Nat /\ Cycle \in Nat \ {0}
      /\ pc[p].NT \in Nat /\ pc[p].k \in Nat /\ pc[p].i \in Nat
  BY SMTT(30), Numbers, Indices, ThreadLeavesSub, RtStAssumption
  DEF MsgInv, MsgType, TypeInv, ThreadKeepsSub, Threads
<1>2. CASE RecvFirst(p)
  <2>1. PICK place \in {"search", "returned"} : Next_i(p, place)
    BY <1>2 DEF RecvFirst
  <2>2. /\ pc'[p].k = pc[p].k /\ pc'[p].NT = pc[p].NT
        /\ \/ /\ pc[p].i < Len(pcsubnet[p]) /\ pc'[p].at = pc[p].at
              /\ pc'[p].i = pc[p].i + 1
           \/ /\ pc[p].i = Len(pcsubnet[p]) /\ pc'[p].at = place
              /\ pc'[p].i = 1
    BY <1>1, <2>1, NextPlace DEF Places
  <2>3. QED
    BY <1>1, <1>2, <2>1, <2>2 DEF LoopInv, RecvFirst, Ended
<1>3. CASE SendInitial(p)
  <2>1. /\ pc'[p].k = pc[p].k /\ pc'[p].NT = pc[p].NT
        /\ \/ /\ pc[p].i < Len(pcsubnet[p]) /\ pc'[p].at = pc[p].at
              /\ pc'[p].i = pc[p].i + 1
           \/ /\ pc[p].i = Len(pcsubnet[p]) /\ pc'[p].at = "hold"
              /\ pc'[p].i = 1
    BY <1>1, <1>3, NextPlace DEF Places, SendInitial
  <2>2. pc[p].at = "initial"
    BY <1>3 DEF SendInitial
  <2>3. QED
    BY <1>1, <2>1, <2>2 DEF LoopInv, Ended
<1>4. CASE RecvStart(p)
  <2>1. /\ pc'[p].k = pc[p].k /\ pc'[p].NT = pc[p].NT
        /\ \/ /\ pc[p].i < Len(pcsubnet[p]) /\ pc'[p].at = pc[p].at
              /\ pc'[p].i = pc[p].i + 1
           \/ /\ pc[p].i = Len(pcsubnet[p]) /\ pc'[p].at = "recv"
              /\ pc'[p].i = 1
    BY <1>1, <1>4, NextPlace DEF Places, RecvStart
  <2>2. QED
    BY SMTT(30), <1>1, <1>4, <2>1 DEF LoopInv, RecvStart, Ended
<1>5. CASE SendStep(p)
  <2>1. /\ pc'[p].k = pc[p].k /\ pc'[p].NT = pc[p].NT
        /\ \/ /\ pc[p].i < Len(pcsubnet[p]) /\ pc'[p].at = pc[p].at
              /\ pc'[p].i = pc[p].i + 1
           \/ /\ pc[p].i = Len(pcsubnet[p]) /\ pc'[p].at = "out"
              /\ pc'[p].i = 1
    BY <1>1, <1>5, NextPlace DEF Places, SendStep
  <2>2. QED
    BY <1>1, <1>5, <2>1 DEF LoopInv, SendStep, Ended
<1>6. CASE RecvStep(p)
  <2>1. PICK place \in {"over", "send"} :
          /\ Next_i(p, place)
          /\ place = IF pc[p].NT = ends.step THEN "over" ELSE "send"
    BY <1>6, StepDatum DEF RecvStep
  <2>2. /\ pc'[p].k = pc[p].k /\ pc'[p].NT = pc[p].NT
        /\ \/ /\ pc[p].i < Len(pcsubnet[p]) /\ pc'[p].at = pc[p].at
              /\ pc'[p].i = pc[p].i + 1
           \/ /\ pc[p].i = Len(pcsubnet[p]) /\ pc'[p].at = place
              /\ pc'[p].i = 1
    BY <1>1, <2>1, NextPlace DEF Places
  <2>3. QED
    BY <1>1, <1>6, <2>1, <2>2 DEF LoopInv, RecvStep, Ended
<1>7. CASE Search(p) \/ Hold(p)
  <2>1. CASE Turn(p)
    <3>1. /\ pc'[p].at = pc[p].at /\ pc'[p].i = pc[p].i /\ pc'[p].NT = pc[p].NT
          /\ pc'[p].k = IF pc[p].k > MaxK + Cycle THEN pc[p].k + 1 - Cycle ELSE pc[p].k + 1
      BY <1>1, <2>1 DEF Turn, Threads
    <3>2. pc'[p].k <= MaxK + Cycle + 1
      BY <1>1, <3>1 DEF LoopInv
    <3>3. QED
      BY <1>1, <3>1, <3>2 DEF LoopInv, Ended
  <2>2. CASE ~Turn(p)
    <3>1. /\ pc[p].at \in {"search", "hold"}
          /\ pc'[p].at \in {"balanced", "unbalanced", "barrier"} /\ pc'[p].i = pc[p].i
          /\ pc'[p].NT = pc[p].NT /\ pc'[p].k = pc[p].k
      BY <1>1, <1>7, <2>2 DEF Search, Hold, Threads
    <3>2. QED
      BY <1>1, <3>1 DEF LoopInv, Ended
  <2>3. QED
    BY <2>1, <2>2
<1>8. CASE SetIsBalance(p) \/ StopUnbalanced(p) \/ EnterCal2(p) \/ PassCal2(p) \/ StopSim(p)
             \/ MarkEnd(p)
  <2>1. /\ pc'[p].i = pc[p].i /\ pc'[p].NT = pc[p].NT /\ pc'[p].k = pc[p].k
        /\ \/ pc[p].at \in {"balanced", "unbalanced", "barrier", "barrier2"}
              /\ pc'[p].at \in {"check", "returned", "barrier2", "start"}
           \/ pc[p].at \in {"over", "end"} /\ pc'[p].at \in {"end", "returned"}
    BY <1>1, <1>8 DEF SetIsBalance, StopUnbalanced, EnterCal2, PassCal2, StopSim, MarkEnd, Threads
  <2>2. QED
    BY <1>1, <2>1 DEF LoopInv, Ended
<1>9. CASE CheckOk(p)
  <2>1. /\ pc'[p].i = pc[p].i /\ pc'[p].NT = pc[p].NT /\ pc'[p].k = 0
        /\ pc[p].at = "check" /\ pc'[p].at \in {"initial", "end"}
    BY <1>1, <1>9 DEF CheckOk, Threads
  <2>2. QED
    BY <1>1, <2>1 DEF LoopInv, Ended
<1>10. CASE OutStep(p)
  <2>1. /\ pc'[p].i = pc[p].i /\ pc'[p].NT = pc[p].NT + 1 /\ pc'[p].k = pc[p].k
        /\ pc[p].at = "out" /\ pc'[p].at = "recv"
    BY <1>1, <1>10 DEF OutStep, Threads
  <2>2. QED
    BY <1>1, <2>1 DEF LoopInv, Ended
<1>11. QED
  BY <1>2, <1>3, <1>4, <1>5, <1>6, <1>7, <1>8, <1>9, <1>10 DEF RTSTPhySim

\* A step of the thread keeps the types of messages and boxes.
LEMMA ThreadMsgType ==
  ASSUME TypeInv, MsgInv, NEW p \in Phys, RTSTPhySim(p)
  PROVE  MsgType'
<1>1. MsgType /\ UNCHANGED ends /\ pc[p].i \in 1 .. Len(pcsubnet[p])
  BY ThreadLeavesSub DEF MsgInv, ThreadKeepsSub, LoopInv
<1>2. /\ IsContinue' \in [Phys -> BOOLEAN] /\ DOMAIN msg101' = Phys
      /\ \A q \in Phys : msg101'[q] \in [SubsOf(q) -> {<<>>, <<TRUE>>, <<FALSE>>}]
  <2>1. CASE RecvFirst(p) \/ RecvStep(p)
    <3>1. PICK s \in SubsOf(p) : /\ msg101' = [msg101 EXCEPT ![p][s] = <<>>]
                                 /\ IsContinue' \in [Phys -> BOOLEAN]
      BY <2>1, Receives DEF RecvFirst, RecvStep
    <3>2. QED
      BY <1>1, <3>1 DEF MsgType
  <2>2. CASE UNCHANGED <<msg101, IsContinue>>
    BY <1>1, <2>2 DEF MsgType
  <2>3. QED
    BY <2>1, <2>2 DEF RTSTPhySim, Search, SetIsBalance, StopUnbalanced, CheckOk, SendInitial,
       Hold, EnterCal2, PassCal2, RecvStart, SendStep, OutStep, StopSim, MarkEnd, mpi
<1>3. DOMAIN msg102' = Phys /\ \A q \in Phys : msg102'[q] \in [SubsOf(q) -> {0, 1}]
  <2>1. CASE SendInitial(p) \/ SendStep(p)
    <3>1. PICK s \in SubsOf(p) : msg102' = [msg102 EXCEPT ![p][s] = 1]
      BY <2>1, Sends DEF SendInitial, SendStep
    <3>2. QED
      BY <1>1, <3>1 DEF MsgType
  <2>2. CASE UNCHANGED msg102
    BY <1>1, <2>2 DEF MsgType
  <2>3. QED
    BY <2>1, <2>2 DEF RTSTPhySim, RecvFirst, Search, SetIsBalance, StopUnbalanced, CheckOk,
       Hold, EnterCal2, PassCal2, RecvStart, RecvStep, OutStep, StopSim, MarkEnd, mpi
<1>4. DOMAIN msg1' = Phys /\ \A q \in Phys : msg1'[q] \in [SubsOf(q) -> {0, 1}]
  <2>1. CASE RecvStart(p)
    <3>1. PICK s \in SubsOf(p) : msg1[p][s] > 0 /\ msg1' = [msg1 EXCEPT ![p][s] = @ - 1]
      BY <1>1, <2>1, Indices DEF RecvStart
    <3>2. msg1[p] \in [SubsOf(p) -> {0, 1}]
      BY <1>1 DEF MsgType
    <3>3. msg1[p][s] \in {0, 1}
      BY <3>2
    <3>4. msg1[p][s] - 1 = 0
      BY <3>1, <3>3
    <3>5. PICK f : f = [msg1[p] EXCEPT ![s] = 0]
      OBVIOUS
    <3>6. f \in [SubsOf(p) -> {0, 1}]
      BY <3>2, <3>5
    <3>7. msg1' = [msg1 EXCEPT ![p] = f]
      BY <3>1, <3>4, <3>5
    <3>8. QED
      BY <1>1, <3>6, <3>7 DEF MsgType
  <2>2. CASE UNCHANGED msg1
    BY <1>1, <2>2 DEF MsgType
  <2>3. QED
    BY <2>1, <2>2 DEF RTSTPhySim, RecvFirst, Search, SetIsBalance, StopUnbalanced, CheckOk,
       SendInitial, Hold, EnterCal2, PassCal2, RecvStep, SendStep, OutStep, StopSim, MarkEnd, mpi
<1>5. \A q \in Phys : box'[q] \subseteq Boxes(q)
  <2>1. PICK B \in {box[p], {}, Boxes(p)} : box' = [box EXCEPT ![p] = B]
    <3>1. box = [box EXCEPT ![p] = box[p]]
      BY DEF TypeInv
    <3>2. CASE RecvFirst(p)
      <4>1. PICK B \in {Boxes(p), box[p]} : box' = [box EXCEPT ![p] = B]
        BY <3>2 DEF RecvFirst
      <4>2. QED
        BY <4>1
    <3>3. CASE box' = [box EXCEPT ![p] = {}] \/ UNCHANGED box
      BY <3>1, <3>3
    <3>4. QED
      BY <3>2, <3>3 DEF RTSTPhySim, Search, SetIsBalance, StopUnbalanced, CheckOk, SendInitial,
         Hold, EnterCal2, PassCal2, RecvStart, RecvStep, SendStep, OutStep, StopSim, MarkEnd
  <2>2. QED
    BY <1>1, <2>1 DEF MsgType, TypeInv
<1>6. QED
  BY <1>1, <1>2, <1>3, <1>4, <1>5 DEF MsgType

\* What is said of a subnet does not change in a step of a process.
LEMMA StageSame ==
  ASSUME NEW s, StageInv(s), sub'[s] = sub[s], cal'[s] = cal[s], UNCHANGED ends,
         s \in world' => s \in world
  PROVE  StageInv(s)'
BY DEF StageInv

\* A step of the thread keeps what is said of the messages.
LEMMA ThreadMsg ==
  ASSUME TypeInv, MsgInv, NEW p \in Phys, RTSTPhySim(p)
  PROVE  MsgInv'
<1>1. MsgType'
  BY ThreadMsgType
<1>2. ThreadKeepsSub(p)
  BY ThreadLeavesSub
<1>3. UNCHANGED world
  BY DEF RTSTPhySim, RecvFirst, Search, SetIsBalance, StopUnbalanced, CheckOk, SendInitial,
     Hold, EnterCal2, PassCal2, RecvStart, RecvStep, SendStep, OutStep, StopSim, MarkEnd, mpi
<1>4. \A s \in Subs : StageInv(s)'
  BY <1>2, <1>3, StageSame DEF MsgInv, ThreadKeepsSub
<1>5. \A q \in Phys \ {p} : /\ pc'[q] = pc[q]
                            /\ msg101'[q] = msg101[q] /\ msg102'[q] = msg102[q]
                            /\ msg1'[q] = msg1[q]
  <2>1. SUFFICES ASSUME NEW q \in Phys \ {p}
                 PROVE  /\ pc'[q] = pc[q] /\ msg101'[q] = msg101[q] /\ msg102'[q] = msg102[q]
                        /\ msg1'[q] = msg1[q]
    OBVIOUS
  <2>2. DOMAIN msg101 = Phys /\ DOMAIN msg102 = Phys /\ DOMAIN msg1 = Phys
    BY DEF MsgInv, MsgType
  <2>3. pc'[q] = pc[q]
    BY ThreadType
  <2>4. msg101'[q] = msg101[q]
    BY <2>2 DEF RTSTPhySim, RecvFirst, Search, SetIsBalance, StopUnbalanced, CheckOk,
       SendInitial, Hold, EnterCal2, PassCal2, RecvStart, RecvStep, SendStep, OutStep, StopSim,
       MarkEnd, mpi, Receive101
  <2>5. msg102'[q] = msg102[q]
    BY <2>2 DEF RTSTPhySim, RecvFirst, Search, SetIsBalance, StopUnbalanced, CheckOk,
       SendInitial, Hold, EnterCal2, PassCal2, RecvStart, RecvStep, SendStep, OutStep, StopSim,
       MarkEnd, mpi, Send102
  <2>6. msg1'[q] = msg1[q]
    BY <2>2 DEF RTSTPhySim, RecvFirst, Search, SetIsBalance, StopUnbalanced, CheckOk,
       SendInitial, Hold, EnterCal2, PassCal2, RecvStart, RecvStep, SendStep, OutStep, StopSim,
       MarkEnd, mpi
  <2>7. QED
    BY <2>3, <2>4, <2>5, <2>6
<1>6. \A q \in Phys : LoopInv(q)'
  <2>1. LoopInv(p)'
    BY ThreadLoop
  <2>2. \A q \in Phys \ {p} : LoopInv(q)'
    BY <1>2, <1>5 DEF MsgInv, LoopInv, ThreadKeepsSub
  <2>3. QED
    BY <2>1, <2>2
<1>7. ASSUME NEW q \in Phys, NEW j \in 1 .. Len(pcsubnet[q])
      PROVE  PairInv(q, j)'
  <2>1. CASE q = p
    BY <2>1, ThreadPair
  <2>2. CASE q # p
    <3>1. pcsubnet[q][j] \in Subs
      BY Indices
    <3>2. QED
      BY <1>2, <1>5, <2>2, <3>1, PairSame DEF MsgInv, ThreadKeepsSub
  <2>3. QED
    BY <2>1, <2>2
<1>8. QED
  BY <1>1, <1>4, <1>6, <1>7 DEF MsgInv

\* A step of main keeps it: it starts the thread, or leaves when all leave.
LEMMA MainMsg ==
  ASSUME TypeInv, MsgInv, NEW p \in Phys, MainInv(p), Main(p)
  PROVE  MsgInv'
<1>1. UNCHANGED <<ends, sub, msg101, msg102, msg1, IsContinue>>
  BY DEF Main, InitPhy, GiveUp, StartThread, SeesOk, Judge, EnterCal, InitOver, wait_for_end,
     Exit, mpi
<1>2. \A s \in Subs : cal'[s] = cal[s] /\ (s \in world' => s \in world)
  <2>1. CASE EnterCal(p)
    BY <2>1, Numbers DEF EnterCal, TypeInv
  <2>2. CASE ~EnterCal(p)
    BY <2>2, Numbers DEF Main, InitPhy, GiveUp, StartThread, SeesOk, Judge, InitOver,
       wait_for_end, Exit, LabelEND, mpi
  <2>3. QED
    BY <2>1, <2>2
<1>3. \A s \in Subs : StageInv(s)'
  BY <1>1, <1>2, StageSame DEF MsgInv
<1>4. MsgType'
  <2>1. \A q \in Phys : box'[q] \subseteq Boxes(q)
    <3>1. CASE StartThread(p)
      BY <3>1 DEF StartThread, MsgInv, MsgType, TypeInv, Boxes
    <3>2. CASE ~StartThread(p)
      BY <3>2 DEF Main, InitPhy, GiveUp, SeesOk, Judge, EnterCal, InitOver, wait_for_end, Exit,
         MsgInv, MsgType
    <3>3. QED
      BY <3>1, <3>2
  <2>2. QED
    BY <1>1, <2>1 DEF MsgInv, MsgType
<1>5. CASE StartThread(p)
  <2>1. pc[p].at = "none" /\ pc' = [pc EXCEPT ![p].at = "first"] /\ pc \in [Phys -> Threads]
    BY <1>5 DEF StartThread, MainInv, TypeInv
  <2>2. /\ pc'[p].at = "first" /\ pc'[p].i = pc[p].i /\ pc'[p].k = pc[p].k
        /\ pc'[p].NT = pc[p].NT
        /\ \A q \in Phys \ {p} : pc'[q] = pc[q]
    BY <2>1 DEF Threads
  <2>3. \A q \in Phys : LoopInv(q)'
    <3>1. LoopInv(p)'
      BY <1>1, <2>1, <2>2 DEF MsgInv, LoopInv, Ended
    <3>2. \A q \in Phys \ {p} : LoopInv(q)'
      BY <1>1, <2>2 DEF MsgInv, LoopInv
    <3>3. QED
      BY <3>1, <3>2
  <2>4. ASSUME NEW q \in Phys, NEW j \in 1 .. Len(pcsubnet[q])
        PROVE  PairInv(q, j)'
    <3>1. pcsubnet[q][j] \in Subs /\ PairInv(q, j) /\ j \in Nat /\ j >= 1
      BY Indices DEF MsgInv
    <3>2. CASE q = p
      <4>1. pc'[p].i = 1
        BY <2>1, <2>2 DEF MsgInv, LoopInv
      <4>2. /\ Got101(p, j) = 0 /\ Put102(p, j) = 0 /\ Got1(p, j) = 0
            /\ Got101(p, j)' = 0 /\ Put102(p, j)' = 0 /\ Got1(p, j)' = 0
        BY <2>1, <2>2, <3>1, <4>1 DEF Got101, Put102, Got1, OneIf, Past
      <4>3. pc[p].at \notin Ended /\ pc'[p].at \notin Ended
        BY <2>1, <2>2 DEF Ended
      <4>4. PairInv(p, j)'
        BY <1>1, <1>2, <3>1, <3>2, <4>2, <4>3, PairMoves
      <4>5. QED
        BY <3>2, <4>4
    <3>3. CASE q # p
      BY <1>1, <1>2, <2>2, <3>1, <3>3, PairSame
    <3>4. QED
      BY <3>2, <3>3
  <2>5. QED
    BY <1>3, <1>4, <2>3, <2>4 DEF MsgInv
<1>6. CASE Exit(p)
  <2>1. world = Procs /\ pc' = [pc EXCEPT ![p].at = "gone"] /\ pc \in [Phys -> Threads]
    BY <1>6 DEF Exit, TypeInv
  <2>2. \A s \in Subs : sub[s].at = "world"
    BY <2>1, Numbers DEF MsgInv, StageInv
  <2>3. /\ pc'[p].at = "gone" /\ pc'[p].i = pc[p].i /\ pc'[p].k = pc[p].k /\ pc'[p].NT = pc[p].NT
        /\ \A q \in Phys \ {p} : pc'[q] = pc[q]
    BY <2>1 DEF Threads
  <2>4. \A q \in Phys : LoopInv(q)'
    <3>1. LoopInv(p)'
      BY <1>1, <2>3 DEF MsgInv, LoopInv, Ended
    <3>2. \A q \in Phys \ {p} : LoopInv(q)'
      BY <1>1, <2>3 DEF MsgInv, LoopInv
    <3>3. QED
      BY <3>1, <3>2
  <2>5. ASSUME NEW q \in Phys, NEW j \in 1 .. Len(pcsubnet[q])
        PROVE  PairInv(q, j)'
    <3>1. pcsubnet[q][j] \in Subs /\ PairInv(q, j)
      BY Indices DEF MsgInv
    <3>2. CASE q = p
      BY <1>1, <1>2, <2>2, <2>3, <3>1, <3>2 DEF PairInv, DatumInv, Ended, EndedInv
    <3>3. CASE q # p
      BY <1>1, <1>2, <2>3, <3>1, <3>3, PairSame
    <3>4. QED
      BY <3>2, <3>3
  <2>6. QED
    BY <1>3, <1>4, <2>4, <2>5 DEF MsgInv
<1>7. CASE UNCHANGED pc
  <2>1. \A q \in Phys : LoopInv(q)'
    BY <1>1, <1>7 DEF MsgInv, LoopInv
  <2>2. ASSUME NEW q \in Phys, NEW j \in 1 .. Len(pcsubnet[q])
        PROVE  PairInv(q, j)'
    <3>1. pcsubnet[q][j] \in Subs /\ PairInv(q, j)
      BY Indices DEF MsgInv
    <3>2. QED
      BY <1>1, <1>2, <1>7, <3>1, PairSame
  <2>3. QED
    BY <1>3, <1>4, <2>1, <2>2 DEF MsgInv
<1>8. QED
  BY <1>5, <1>6, <1>7 DEF Main, InitPhy, GiveUp, SeesOk, Judge, EnterCal, InitOver, wait_for_end

\* A subnet takes a step of its own, from one place to another.
LEMMA SubMoves ==
  ASSUME TypeInv, MsgInv, NEW s \in Subs, Subnet(s)
  PROVE  /\ UNCHANGED <<pc, ends, IsContinue, box>>
         /\ \A t \in Subs \ {s} : sub'[t] = sub[t] /\ cal'[t] = cal[t]
         /\ \A t \in Subs \ {s} : t \in world' => t \in world
         /\ StageInv(s)'
<1>1. /\ UNCHANGED <<pc, ends, IsContinue, box>>
  BY DEF Subnet, SubTell, SubEnds, SubSendsFirst, SubReceivesInitial, SubBarrier, SubStarts,
     SubSends, SubReceives
<1>2. /\ sub \in [Subs -> [at : SubPlaces, NT : Nat]] /\ cal \in [Procs -> 0 .. 2]
      /\ StageInv(s) /\ ends.step \in Nat /\ s \in Procs
  BY Numbers, RtStAssumption DEF TypeInv, MsgInv, MsgType
<1>3. \A t \in Subs \ {s} : sub'[t] = sub[t]
  <2>1. CASE \E place : sub' = [sub EXCEPT ![s].at = place]
    BY <1>2, <2>1
  <2>2. CASE SubReceives(s)
    BY <1>2, <2>2 DEF SubReceives
  <2>3. CASE SubTell(s, 1) \/ SubTell(s, 2)
    BY <2>1, <2>3 DEF SubTell, SubAt
  <2>4. CASE SubEnds(s) \/ SubSendsFirst(s) \/ SubSends(s)
    BY <2>1, <2>4 DEF SubEnds, SubSendsFirst, SubSends, SubAt
  <2>5. CASE SubReceivesInitial(s) \/ SubBarrier(s) \/ SubStarts(s)
    BY <2>1, <2>5 DEF SubReceivesInitial, SubBarrier, SubStarts, SubAt
  <2>6. QED
    BY <2>2, <2>3, <2>4, <2>5 DEF Subnet
<1>4. \A t \in Subs \ {s} : cal'[t] = cal[t]
  BY <1>2, Numbers DEF Subnet, SubTell, SubEnds, SubSendsFirst, SubReceivesInitial, SubBarrier, SubStarts,
     SubSends, SubReceives
<1>5. \A t \in Subs \ {s} : t \in world' => t \in world
  BY DEF Subnet, SubTell, SubEnds, SubSendsFirst, SubReceivesInitial, SubBarrier, SubStarts,
     SubSends, SubReceives
<1>6. StageInv(s)'
  <2> USE DEF StageInv
  <2>1. CASE SubTell(s, 1) \/ SubTell(s, 2)
    <3>1. UNCHANGED <<cal, world>>
      BY <2>1 DEF SubTell
    <3>2. \/ sub[s].at = "init" /\ SubAt(s, "err1")
          \/ sub[s].at = "sent" /\ SubAt(s, "err2")
      BY <2>1 DEF SubTell
    <3>3. /\ sub'[s].NT = sub[s].NT
          /\ \/ sub[s].at = "init" /\ sub'[s].at = "err1"
             \/ sub[s].at = "sent" /\ sub'[s].at = "err2"
      BY <1>2, <3>2 DEF SubAt
    <3>4. QED
      BY <1>1, <1>2, <3>1, <3>3
  <2>2. CASE SubEnds(s)
    <3>1. /\ sub'[s].NT = sub[s].NT /\ UNCHANGED cal /\ sub'[s].at = "world"
          /\ sub[s].at \in {"err1", "err2", "over"}
      BY <1>2, <2>2 DEF SubEnds, SubAt
    <3>2. QED
      BY <1>1, <1>2, <3>1
  <2>3. CASE SubSendsFirst(s)
    <3>1. /\ sub'[s].NT = sub[s].NT /\ UNCHANGED <<cal, world>> /\ sub[s].at = "err1"
          /\ sub'[s].at = IF ends.atOnce THEN "over" ELSE "sent"
      BY <1>2, <2>3 DEF SubSendsFirst, SubAt
    <3>2. QED
      BY <1>1, <1>2, <3>1
  <2>4. CASE SubReceivesInitial(s)
    <3>1. /\ sub'[s].NT = sub[s].NT /\ UNCHANGED world /\ sub[s].at = "err2"
          /\ sub'[s].at = "cal" /\ cal'[s] = 1
      BY <1>2, <2>4 DEF SubReceivesInitial, SubAt
    <3>2. QED
      BY <1>1, <1>2, <3>1
  <2>5. CASE SubBarrier(s)
    <3>1. /\ sub'[s].NT = sub[s].NT /\ UNCHANGED world /\ sub[s].at = "cal"
          /\ sub'[s].at = "cal2" /\ cal'[s] = 2
      BY <1>2, <2>5 DEF SubBarrier, SubAt
    <3>2. QED
      BY <1>1, <1>2, <3>1
  <2>6. CASE SubStarts(s)
    <3>1. /\ sub'[s].NT = sub[s].NT /\ UNCHANGED <<cal, world>> /\ sub[s].at = "cal2"
          /\ sub'[s].at = "send"
      BY <1>2, <2>6 DEF SubStarts, SubAt
    <3>2. QED
      BY <1>1, <1>2, <3>1
  <2>7. CASE SubSends(s)
    <3>1. /\ sub'[s].NT = sub[s].NT /\ UNCHANGED <<cal, world>> /\ sub[s].at = "send"
          /\ sub'[s].at = IF sub[s].NT = ends.step THEN "over" ELSE "recv"
      BY <1>2, <2>7 DEF SubSends, SubAt
    <3>2. QED
      BY <1>1, <1>2, <3>1
  <2>8. CASE SubReceives(s)
    <3>1. /\ sub'[s].NT = sub[s].NT + 1 /\ UNCHANGED <<cal, world>> /\ sub[s].at = "recv"
          /\ sub'[s].at = "send"
      BY <1>2, <2>8 DEF SubReceives
    <3>2. QED
      BY <1>1, <1>2, <3>1
  <2>9. QED
    BY <2>1, <2>2, <2>3, <2>4, <2>5, <2>6, <2>7, <2>8 DEF Subnet
<1>7. QED
  BY <1>1, <1>3, <1>4, <1>5, <1>6

\* What a subnet that sends to all its processes, or takes from all, changes.
LEMMA SentToAll ==
  ASSUME NEW s \in Subs, MsgType, NEW m \in BOOLEAN, msg101' = ToAll(s, msg101, m),
         \A p \in PhysOf(s) : msg101[p][s] = <<>>
  PROVE  /\ DOMAIN msg101' = Phys
         /\ \A p \in Phys : /\ msg101'[p] \in [SubsOf(p) -> {<<>>, <<TRUE>>, <<FALSE>>}]
                            /\ s \in SubsOf(p) => msg101'[p][s] = <<m>>
                            /\ \A t \in SubsOf(p) \ {s} : msg101'[p][t] = msg101[p][t]
<1>1. DOMAIN msg101' = Phys
  BY DEF ToAll
<1>2. ASSUME NEW p \in Phys
      PROVE  /\ msg101'[p] \in [SubsOf(p) -> {<<>>, <<TRUE>>, <<FALSE>>}]
             /\ s \in SubsOf(p) => msg101'[p][s] = <<m>>
             /\ \A t \in SubsOf(p) \ {s} : msg101'[p][t] = msg101[p][t]
  <2>1. msg101'[p] = [t \in SubsOf(p) |-> IF t = s THEN Append(msg101[p][t], m) ELSE msg101[p][t]]
    BY DEF ToAll
  <2>2. s \in SubsOf(p) => Append(msg101[p][s], m) = <<m>>
    BY OneMessage DEF PhysOf
  <2>3. msg101[p] \in [SubsOf(p) -> {<<>>, <<TRUE>>, <<FALSE>>}]
    BY DEF MsgType
  <2>4. <<m>> \in {<<TRUE>>, <<FALSE>>}
    OBVIOUS
  <2>5. QED
    BY <2>1, <2>2, <2>3, <2>4
<1>3. QED
  BY <1>1, <1>2

LEMMA TakenOfAll ==
  ASSUME NEW s \in Subs, MsgType, Take102(s)
  PROVE  /\ DOMAIN msg102' = Phys
         /\ \A p \in Phys : /\ msg102'[p] \in [SubsOf(p) -> {0, 1}]
                            /\ s \in SubsOf(p) => msg102[p][s] = 1 /\ msg102'[p][s] = 0
                            /\ \A t \in SubsOf(p) \ {s} : msg102'[p][t] = msg102[p][t]
<1>1. DOMAIN msg102' = Phys
  BY DEF Take102
<1>2. ASSUME NEW p \in Phys
      PROVE  /\ msg102'[p] \in [SubsOf(p) -> {0, 1}]
             /\ s \in SubsOf(p) => msg102[p][s] = 1 /\ msg102'[p][s] = 0
             /\ \A t \in SubsOf(p) \ {s} : msg102'[p][t] = msg102[p][t]
  <2>1. msg102'[p] = [t \in SubsOf(p) |-> IF t = s THEN msg102[p][t] - 1 ELSE msg102[p][t]]
    BY DEF Take102
  <2>2. msg102[p] \in [SubsOf(p) -> {0, 1}]
    BY DEF MsgType
  <2>3. s \in SubsOf(p) => msg102[p][s] = 1
    BY <2>2 DEF Take102, PhysOf
  <2>4. QED
    BY <2>1, <2>2, <2>3
<1>3. QED
  BY <1>1, <1>2

LEMMA StartsAll ==
  ASSUME NEW s \in Subs, MsgType,
         msg1' = [p \in Phys |-> [t \in SubsOf(p) |->
                                   IF t = s THEN msg1[p][t] + 1 ELSE msg1[p][t]]],
         \A p \in PhysOf(s) : msg1[p][s] = 0
  PROVE  /\ DOMAIN msg1' = Phys
         /\ \A p \in Phys : /\ msg1'[p] \in [SubsOf(p) -> {0, 1}]
                            /\ s \in SubsOf(p) => msg1'[p][s] = 1
                            /\ \A t \in SubsOf(p) \ {s} : msg1'[p][t] = msg1[p][t]
<1>1. DOMAIN msg1' = Phys
  OBVIOUS
<1>2. ASSUME NEW p \in Phys
      PROVE  /\ msg1'[p] \in [SubsOf(p) -> {0, 1}]
             /\ s \in SubsOf(p) => msg1'[p][s] = 1
             /\ \A t \in SubsOf(p) \ {s} : msg1'[p][t] = msg1[p][t]
  <2>1. msg1'[p] = [t \in SubsOf(p) |-> IF t = s THEN msg1[p][t] + 1 ELSE msg1[p][t]]
    OBVIOUS
  <2>2. msg1[p] \in [SubsOf(p) -> {0, 1}]
    BY DEF MsgType
  <2>3. s \in SubsOf(p) => msg1[p][s] = 0
    BY DEF PhysOf
  <2>4. QED
    BY <2>1, <2>2, <2>3
<1>3. QED
  BY <1>1, <1>2

\* A step of a subnet keeps the types of the messages, and changes none but its own.
LEMMA SubMsgs ==
  ASSUME TypeInv, MsgInv, NEW s \in Subs, Subnet(s)
  PROVE  /\ MsgType'
         /\ \A p \in Phys : \A t \in SubsOf(p) \ {s} :
              /\ msg101'[p][t] = msg101[p][t] /\ msg102'[p][t] = msg102[p][t]
              /\ msg1'[p][t] = msg1[p][t]
         /\ \A p \in Phys : s \in SubsOf(p) =>
              /\ SubSendsFirst(s) => msg101[p][s] = <<>> /\ msg101'[p][s] = <<ends.atOnce>>
              /\ SubSends(s) => /\ msg101[p][s] = <<>>
                                /\ \E m \in BOOLEAN : /\ msg101'[p][s] = <<m>>
                                                     /\ m = (sub[s].NT = ends.step)
              /\ SubReceivesInitial(s) \/ SubReceives(s) =>
                   msg101[p][s] = <<>> /\ msg102[p][s] = 1 /\ msg102'[p][s] = 0
              /\ SubStarts(s) => msg1[p][s] = 0 /\ msg1'[p][s] = 1
<1>1. MsgType /\ UNCHANGED <<ends, IsContinue, box>>
  BY SubMoves DEF MsgInv
<1>2. ASSUME NEW p \in PhysOf(s)
      PROVE  /\ sub[s].at \in {"err1", "send"} => msg101[p][s] = <<>>
             /\ sub[s].at \in {"err2", "recv"} /\ msg102[p][s] > 0 => msg101[p][s] = <<>>
             /\ sub[s].at = "cal2" => msg1[p][s] = 0
  <2>1. p \in Phys /\ s \in SubsOf(p)
    BY DEF PhysOf
  <2>2. PICK j \in 1 .. Len(pcsubnet[p]) : s = pcsubnet[p][j]
    BY <2>1, Indices
  <2>3. QED
    BY <2>1, <2>2, NothingFromSub, NothingToStart
<1>3. \A p \in Phys : s \in SubsOf(p) => p \in PhysOf(s)
  BY DEF PhysOf
<1>4. CASE SubSendsFirst(s) \/ SubSends(s)
  <2>1. PICK m \in BOOLEAN :
          /\ msg101' = ToAll(s, msg101, m)
          /\ m = IF SubSendsFirst(s) THEN ends.atOnce ELSE sub[s].NT = ends.step
    BY <1>1, <1>4 DEF SubSendsFirst, SubSends, MsgType
  <2>2. sub[s].at \in {"err1", "send"} /\ UNCHANGED <<msg102, msg1>>
    BY <1>4 DEF SubSendsFirst, SubSends
  <2>3. /\ DOMAIN msg101' = Phys
        /\ \A p \in Phys : /\ msg101'[p] \in [SubsOf(p) -> {<<>>, <<TRUE>>, <<FALSE>>}]
                           /\ s \in SubsOf(p) => msg101'[p][s] = <<m>>
                           /\ \A t \in SubsOf(p) \ {s} : msg101'[p][t] = msg101[p][t]
    BY <1>1, <1>2, <2>1, <2>2, SentToAll
  <2>4. /\ ~SubReceivesInitial(s) /\ ~SubReceives(s) /\ ~SubStarts(s)
        /\ SubSendsFirst(s) => ~SubSends(s)
    BY <2>2 DEF SubReceivesInitial, SubReceives, SubStarts, SubSendsFirst, SubSends
  <2>5. MsgType'
    BY <1>1, <2>2, <2>3 DEF MsgType
  <2>6. QED
    BY ZenonT(30), <1>2, <1>3, <2>1, <2>2, <2>3, <2>4, <2>5
<1>5. CASE SubReceivesInitial(s) \/ SubReceives(s)
  <2>1. Take102(s) /\ sub[s].at \in {"err2", "recv"} /\ UNCHANGED <<msg101, msg1>>
    BY <1>5 DEF SubReceivesInitial, SubReceives
  <2>2. /\ DOMAIN msg102' = Phys
        /\ \A p \in Phys : /\ msg102'[p] \in [SubsOf(p) -> {0, 1}]
                           /\ s \in SubsOf(p) => msg102[p][s] = 1 /\ msg102'[p][s] = 0
                           /\ \A t \in SubsOf(p) \ {s} : msg102'[p][t] = msg102[p][t]
    BY <1>1, <2>1, TakenOfAll
  <2>3. ~SubSendsFirst(s) /\ ~SubSends(s) /\ ~SubStarts(s)
    BY <2>1 DEF SubStarts, SubSendsFirst, SubSends
  <2>4. MsgType'
    BY <1>1, <2>1, <2>2 DEF MsgType
  <2>5. QED
    BY <1>2, <1>3, <2>1, <2>2, <2>3, <2>4
<1>6. CASE SubStarts(s)
  <2>1. sub[s].at = "cal2" /\ UNCHANGED <<msg101, msg102>>
    BY <1>6 DEF SubStarts
  <2>2. /\ DOMAIN msg1' = Phys
        /\ \A p \in Phys : /\ msg1'[p] \in [SubsOf(p) -> {0, 1}]
                           /\ s \in SubsOf(p) => msg1'[p][s] = 1
                           /\ \A t \in SubsOf(p) \ {s} : msg1'[p][t] = msg1[p][t]
    BY <1>1, <1>2, <1>6, <2>1, StartsAll DEF SubStarts
  <2>3. ~SubSendsFirst(s) /\ ~SubSends(s) /\ ~SubReceivesInitial(s) /\ ~SubReceives(s)
    BY <2>1 DEF SubReceivesInitial, SubReceives, SubSendsFirst, SubSends
  <2>4. MsgType'
    BY <1>1, <2>1, <2>2 DEF MsgType
  <2>5. QED
    BY <1>2, <1>3, <2>1, <2>2, <2>3, <2>4
<1>7. CASE UNCHANGED <<msg101, msg102, msg1>> /\ ~SubSendsFirst(s) /\ ~SubSends(s)
           /\ ~SubReceivesInitial(s) /\ ~SubReceives(s) /\ ~SubStarts(s)
  BY <1>1, <1>7 DEF MsgType
<1>8. QED
  BY <1>4, <1>5, <1>6, <1>7 DEF Subnet, SubTell, SubEnds, SubBarrier

\* A step of a subnet keeps the counts of its pairs.
LEMMA SubPair ==
  ASSUME TypeInv, MsgInv, NEW s \in Subs, Subnet(s), NEW p \in Phys,
         NEW j \in 1 .. Len(pcsubnet[p]), s = pcsubnet[p][j]
  PROVE  PairInv(p, j)'
<1>1. /\ PairInv(p, j) /\ StageInv(s) /\ s \in SubsOf(p) /\ s \in Procs /\ pc'[p] = pc[p]
      /\ UNCHANGED ends /\ sub \in [Subs -> [at : SubPlaces, NT : Nat]]
      /\ cal \in [Procs -> 0 .. 2] /\ sub[s].NT \in Nat /\ ends.atOnce \in BOOLEAN
  BY Numbers, Indices, SubMoves DEF MsgInv, MsgType, TypeInv
<1>2. ASSUME pc[p].at \notin Ended
      PROVE  /\ RunningInv(p, j, s) /\ DatumInv(p, s)
             /\ Got101(p, j)' = Got101(p, j) /\ Put102(p, j)' = Put102(p, j)
             /\ Got1(p, j)' = Got1(p, j) /\ Got101(p, j) \in Nat /\ Put102(p, j) \in Nat
             /\ Got1(p, j) \in {0, 1} /\ OneIf(msg101[p][s] # <<>>) \in {0, 1}
             /\ (OneIf(msg101[p][s] # <<>>) = 0) = (msg101[p][s] = <<>>)
             /\ msg102[p][s] \in {0, 1} /\ msg1[p][s] \in {0, 1}
  <2>1. j \in Nat
    BY Indices
  <2>2. Got101(p, j) \in Nat /\ Put102(p, j) \in Nat /\ Got1(p, j) \in {0, 1}
    BY <1>2, <2>1, ThreadCounts DEF MsgInv
  <2>3. RunningInv(p, j, s) /\ DatumInv(p, s)
    BY <1>1, <1>2 DEF PairInv
  <2>4. /\ OneIf(msg101[p][s] # <<>>) \in {0, 1}
        /\ (OneIf(msg101[p][s] # <<>>) = 0) = (msg101[p][s] = <<>>)
    BY DEF OneIf
  <2>5. msg102[p][s] \in {0, 1} /\ msg1[p][s] \in {0, 1}
    BY <1>1 DEF MsgInv, MsgType
  <2>6. /\ Got101(p, j)' = Got101(p, j) /\ Put102(p, j)' = Put102(p, j)
        /\ Got1(p, j)' = Got1(p, j)
    BY <1>1 DEF Got101, Put102, Got1, Past
  <2>7. QED
    BY <2>2, <2>3, <2>4, <2>5, <2>6
<1>3. pc[p].at \in Ended => EndedInv(p, s) /\ DatumInv(p, s)
  BY <1>1 DEF PairInv
<1>4. CASE SubTell(s, 1) \/ SubTell(s, 2) \/ SubEnds(s)
  <2>1. /\ UNCHANGED <<cal, msg101, msg102, msg1>> /\ sub'[s].NT = sub[s].NT
        /\ \/ sub[s].at = "init" /\ sub'[s].at = "err1"
           \/ sub[s].at = "sent" /\ sub'[s].at = "err2"
           \/ sub[s].at \in {"err1", "err2", "over"} /\ sub'[s].at = "world"
    <3>1. UNCHANGED <<cal, msg101, msg102, msg1>>
      BY <1>4 DEF SubTell, SubEnds
    <3>2. \/ sub[s].at = "init" /\ SubAt(s, "err1")
          \/ sub[s].at = "sent" /\ SubAt(s, "err2")
          \/ sub[s].at \in {"err1", "err2", "over"} /\ SubAt(s, "world")
      BY <1>4 DEF SubTell, SubEnds
    <3>3. QED
      BY <1>1, <3>1, <3>2 DEF SubAt
  <2>2. DatumInv(p, s)'
    BY <1>1, <1>2, <1>3, <2>1 DEF DatumInv
  <2>3. CASE pc[p].at \in Ended
    <3>1. EndedInv(p, s)'
      BY <1>3, <2>1, <2>3 DEF EndedInv
    <3>2. QED
      BY <1>1, <2>2, <2>3, <3>1 DEF PairInv
  <2>4. CASE pc[p].at \notin Ended
    <3>1. Taken102(s)' = Taken102(s) /\ Sent1(s)' = Sent1(s)
      BY <1>1, <2>1 DEF Taken102, Sent1, StageInv
    <3>2. CASE sub[s].at = "err1"
      <4>1. Sent101(s) = 0 /\ ~Quit(s) /\ Quit(s)'
        BY <1>1, <2>1, <3>2 DEF Sent101, Quit, StageInv
      <4>2. Got101(p, j) = 0 /\ msg101[p][s] = <<>>
        BY <1>2, <2>4, <4>1 DEF RunningInv
      <4>3. RunningInv(p, j, s)'
        BY <1>2, <2>1, <2>4, <3>1, <4>1, <4>2 DEF RunningInv
      <4>4. QED
        BY <1>1, <2>2, <2>4, <4>3 DEF PairInv
    <3>3. CASE sub[s].at # "err1"
      <4>1. Sent101(s)' = Sent101(s) /\ ~Quit(s)
        BY <1>1, <2>1, <3>3 DEF Sent101, Quit, StageInv
      <4>2. RunningInv(p, j, s)'
        BY <1>2, <2>1, <2>4, <3>1, <4>1 DEF RunningInv
      <4>3. QED
        BY <1>1, <2>2, <2>4, <4>2 DEF PairInv
    <3>4. QED
      BY <3>2, <3>3
  <2>5. QED
    BY <2>3, <2>4
<1>5. CASE SubBarrier(s)
  <2>1. /\ UNCHANGED <<msg101, msg102, msg1>> /\ sub'[s].NT = sub[s].NT
        /\ sub[s].at = "cal" /\ sub'[s].at = "cal2" /\ cal[s] = 1 /\ cal'[s] = 2
    BY <1>1, <1>5 DEF SubBarrier, SubAt, StageInv
  <2>2. pc[p].at \notin Ended
    BY <1>3, <2>1 DEF EndedInv
  <2>3. /\ Taken102(s)' = Taken102(s) /\ Sent1(s)' = Sent1(s) /\ Sent101(s)' = Sent101(s)
        /\ ~Quit(s)
    BY <2>1 DEF Taken102, Sent1, Sent101, Quit
  <2>4. RunningInv(p, j, s)'
    BY <1>2, <2>1, <2>2, <2>3 DEF RunningInv
  <2>5. DatumInv(p, s)'
    BY <1>1, <1>2, <2>1, <2>2 DEF DatumInv
  <2>6. QED
    BY <1>1, <2>2, <2>4, <2>5 DEF PairInv
<1>6. CASE SubSendsFirst(s) \/ SubSends(s)
  <2>1. /\ UNCHANGED <<msg102, msg1, cal>> /\ sub'[s].NT = sub[s].NT
        /\ \/ SubSendsFirst(s) /\ sub[s].at = "err1" /\ sub'[s].at \in {"over", "sent"} /\ cal[s] = 0
           \/ SubSends(s) /\ sub[s].at = "send" /\ sub'[s].at \in {"over", "recv"} /\ cal[s] = 2
    BY <1>1, <1>6 DEF SubSendsFirst, SubSends, SubAt, StageInv
  <2>2. pc[p].at \notin Ended
    BY <2>1, NothingFromSub
  <2>3. PICK m \in BOOLEAN :
          /\ msg101[p][s] = <<>> /\ msg101'[p][s] = <<m>>
          /\ m = IF cal[s] = 0 THEN ends.atOnce ELSE sub[s].NT = ends.step
    <3>1. CASE SubSendsFirst(s) /\ cal[s] = 0
      BY <1>1, <3>1, SubMsgs
    <3>2. CASE SubSends(s) /\ cal[s] = 2
      BY <1>1, <3>2, SubMsgs
    <3>3. QED
      BY <2>1, <3>1, <3>2
  <2>4. msg101'[p][s] # <<>> /\ Head(msg101'[p][s]) = m
    BY <2>3, OneMessage
  <2>5. /\ Taken102(s)' = Taken102(s) /\ Sent1(s)' = Sent1(s) /\ ~Quit(s)
        /\ Sent101(s)' = Sent101(s) + 1
    <3>1. sub[s].at = "err1" => sub[s].NT = 0
      BY <1>1, <2>1 DEF StageInv
    <3>2. QED
      BY <1>1, <2>1, <3>1 DEF Taken102, Sent1, Sent101, Quit
  <2>6. OneIf(msg101[p][s] # <<>>) = 0 /\ OneIf(msg101'[p][s] # <<>>) = 1
    BY <2>3, <2>4 DEF OneIf
  <2>7. RunningInv(p, j, s)'
    BY <1>2, <2>1, <2>2, <2>5, <2>6 DEF RunningInv
  <2>8. DatumInv(p, s)'
    BY <1>1, <2>1, <2>3, <2>4 DEF DatumInv
  <2>9. QED
    BY <1>1, <2>2, <2>7, <2>8 DEF PairInv
<1>7. CASE SubReceivesInitial(s) \/ SubReceives(s)
  <2>1. /\ UNCHANGED <<msg101, msg1>>
        /\ \/ /\ SubReceivesInitial(s) /\ sub[s].at = "err2" /\ sub'[s].at = "cal"
              /\ cal[s] = 0 /\ cal'[s] = 1 /\ sub'[s].NT = 0 /\ sub[s].NT = 0
           \/ /\ SubReceives(s) /\ sub[s].at = "recv" /\ sub'[s].at = "send"
              /\ cal[s] = 2 /\ cal'[s] = 2 /\ sub'[s].NT = sub[s].NT + 1
    BY SMTT(30), <1>1, <1>7 DEF SubReceivesInitial, SubReceives, SubAt, StageInv
  <2>2. msg101[p][s] = <<>> /\ msg102[p][s] = 1 /\ msg102'[p][s] = 0
    BY <1>1, <1>7, SubMsgs
  <2>3. pc[p].at \notin Ended
    BY <2>1, <2>2, NothingFromSub
  <2>4. /\ Taken102(s)' = Taken102(s) + 1 /\ Sent1(s)' = Sent1(s) /\ ~Quit(s)
        /\ Sent101(s)' = Sent101(s) /\ Taken102(s) \in Nat
    BY <1>1, <2>1 DEF Taken102, Sent1, Sent101, Quit
  <2>5. RunningInv(p, j, s)'
    BY <1>2, <2>1, <2>2, <2>3, <2>4 DEF RunningInv
  <2>6. DatumInv(p, s)'
    BY <2>1, <2>2 DEF DatumInv
  <2>7. QED
    BY <1>1, <2>3, <2>5, <2>6 DEF PairInv
<1>8. CASE SubStarts(s)
  <2>1. /\ UNCHANGED <<msg101, msg102, cal>> /\ sub'[s].NT = sub[s].NT
        /\ sub[s].at = "cal2" /\ sub'[s].at = "send" /\ cal[s] = 2
    BY <1>1, <1>8 DEF SubStarts, SubAt, StageInv
  <2>2. msg1[p][s] = 0 /\ msg1'[p][s] = 1
    BY <1>1, <1>8, SubMsgs
  <2>3. pc[p].at \notin Ended
    BY <2>1, NothingToStart
  <2>4. /\ Taken102(s)' = Taken102(s) /\ Sent1(s) = 0 /\ Sent1(s)' = 1 /\ ~Quit(s)
        /\ Sent101(s)' = Sent101(s)
    BY <1>1, <2>1 DEF Taken102, Sent1, Sent101, Quit, OneIf
  <2>5. RunningInv(p, j, s)'
    BY <1>2, <2>1, <2>2, <2>3, <2>4 DEF RunningInv
  <2>6. DatumInv(p, s)'
    BY <1>1, <1>2, <2>1, <2>3 DEF DatumInv
  <2>7. QED
    BY <1>1, <2>3, <2>5, <2>6 DEF PairInv
<1>9. QED
  BY <1>4, <1>5, <1>6, <1>7, <1>8 DEF Subnet

\* A step of a subnet keeps what is said of the messages.
LEMMA SubMsg ==
  ASSUME TypeInv, MsgInv, NEW s \in Subs, Subnet(s)
  PROVE  MsgInv'
<1>1. /\ UNCHANGED <<pc, ends>>
      /\ \A t \in Subs \ {s} : sub'[t] = sub[t] /\ cal'[t] = cal[t]
      /\ \A t \in Subs \ {s} : t \in world' => t \in world
      /\ StageInv(s)'
  BY SubMoves
<1>2. /\ MsgType'
      /\ \A p \in Phys : \A t \in SubsOf(p) \ {s} :
           /\ msg101'[p][t] = msg101[p][t] /\ msg102'[p][t] = msg102[p][t]
           /\ msg1'[p][t] = msg1[p][t]
  BY SubMsgs
<1>3. \A t \in Subs : StageInv(t)'
  BY <1>1, StageSame DEF MsgInv
<1>4. \A q \in Phys : LoopInv(q)'
  BY <1>1 DEF MsgInv, LoopInv
<1>5. ASSUME NEW q \in Phys, NEW j \in 1 .. Len(pcsubnet[q])
      PROVE  PairInv(q, j)'
  <2>1. pcsubnet[q][j] \in Subs /\ PairInv(q, j) /\ pcsubnet[q][j] \in SubsOf(q)
    BY Indices DEF MsgInv
  <2>2. CASE pcsubnet[q][j] = s
    BY <2>2, SubPair
  <2>3. CASE pcsubnet[q][j] # s
    BY <1>1, <1>2, <2>1, <2>3, PairSame
  <2>4. QED
    BY <2>2, <2>3
<1>6. QED
  BY <1>2, <1>3, <1>4, <1>5 DEF MsgInv

\* The counts hold when nothing has been sent.
LEMMA InitMsg == Init => MsgInv
<1> SUFFICES ASSUME Init PROVE MsgInv
  OBVIOUS
<1>1. /\ MaxNT \in Nat /\ MaxK \in Nat /\ Cycle \in Nat /\ Phys \cap Subs = {} /\ Procs = Phys \cup Subs
  BY Numbers, RtStAssumption
<1>2. /\ ends.atOnce \in BOOLEAN /\ ends.step \in Nat
      /\ \A s \in Subs : sub[s] = [at |-> "init", NT |-> 0] /\ cal[s] = 0
      /\ \A p \in Phys : pc[p] = [at |-> "none", i |-> 1, k |-> 0, NT |-> 0]
      /\ world = {}
  BY <1>1 DEF Init
<1>3. MsgType
  BY DEF Init, MsgType
<1>4. \A s \in Subs : StageInv(s)
  BY <1>1, <1>2 DEF StageInv
<1>5. \A p \in Phys : LoopInv(p)
  BY <1>1, <1>2, Indices DEF LoopInv, Ended
<1>6. ASSUME NEW p \in Phys, NEW j \in 1 .. Len(pcsubnet[p])
      PROVE  PairInv(p, j)
  <2>1. PICK s \in SubsOf(p) : s = pcsubnet[p][j] /\ s \in Subs
    BY Indices
  <2>2. msg101[p][s] = <<>> /\ msg102[p][s] = 0 /\ msg1[p][s] = 0
    BY <2>1 DEF Init
  <2>3. /\ Got101(p, j) = 0 /\ Put102(p, j) = 0 /\ Got1(p, j) = 0
        /\ Sent101(s) = 0 /\ Taken102(s) = 0 /\ Sent1(s) = 0
    BY <1>2, <2>1 DEF Got101, Put102, Got1, Sent101, Taken102, Sent1, OneIf
  <2>4. RunningInv(p, j, s) /\ DatumInv(p, s)
    BY <2>2, <2>3 DEF RunningInv, DatumInv, OneIf
  <2>5. pc[p].at \notin Ended
    BY <1>2 DEF Ended
  <2>6. QED
    BY <2>1, <2>4, <2>5 DEF PairInv
<1>7. QED
  BY <1>3, <1>4, <1>5, <1>6 DEF MsgInv

\* When nothing changes, neither do the counts.
LEMMA StillMsg == MsgInv /\ UNCHANGED vars => MsgInv'
<1> SUFFICES ASSUME MsgInv, UNCHANGED vars PROVE MsgInv'
  OBVIOUS
<1>1. UNCHANGED <<pc, box, IsContinue, sub, ends, cal, world, msg101, msg102, msg1>>
  BY DEF vars, mpi
<1>2. MsgType' /\ (\A s \in Subs : StageInv(s)') /\ \A p \in Phys : LoopInv(p)'
  BY <1>1 DEF MsgInv, MsgType, StageInv, LoopInv
<1>3. \A p \in Phys : \A j \in 1 .. Len(pcsubnet[p]) : PairInv(p, j)'
  BY <1>1, PairSame DEF MsgInv
<1>4. QED
  BY <1>2, <1>3 DEF MsgInv

\* For every behaviour, what is under way between a process and a subnet is what
\* one has sent and the other has not received.
THEOREM MessagesAreCounted == Spec => []MsgInv
<1>1. Init => MsgInv
  BY InitMsg
<1>2. IInv /\ MsgInv /\ [Next]_vars => MsgInv'
  BY ThreadMsg, MainMsg, SubMsg, StillMsg DEF IInv, LocalInv, Next
<1>3. QED
  BY <1>1, <1>2, InvariantHolds, PTL DEF Spec

\* The boxes that answer are boxes of their process, from the first state on.
AliveInv == /\ DOMAIN alive = Phys
            /\ \A p \in Phys : alive[p] \subseteq Boxes(p)

LEMMA AliveHolds == Spec => []AliveInv
<1>1. Init => AliveInv
  BY DEF Init, AliveInv
<1>2. ASSUME AliveInv, [Next]_vars PROVE AliveInv'
  <2>1. CASE UNCHANGED alive
    BY <1>2, <2>1 DEF AliveInv, Boxes
  <2>2. ASSUME NEW p \in Phys, InitPhy(p) PROVE AliveInv'
    <3>1. PICK up \in SUBSET Boxes(p) : alive' = [alive EXCEPT ![p] = up]
      BY <2>2 DEF InitPhy
    <3>2. QED
      BY <1>2, <3>1 DEF AliveInv, Boxes
  <2>3. ASSUME NEW p \in Phys, RTSTPhySim(p) PROVE UNCHANGED alive
    BY <2>3
    DEF RTSTPhySim, RecvFirst, Search, SetIsBalance, StopUnbalanced, CheckOk, SendInitial,
        Hold, EnterCal2, PassCal2, RecvStart, RecvStep, SendStep, OutStep, StopSim, MarkEnd
  <2>4. ASSUME NEW p \in Phys, Main(p), ~InitPhy(p) PROVE UNCHANGED alive
    BY <2>4
    DEF Main, GiveUp, StartThread, SeesOk, Judge, EnterCal, InitOver, wait_for_end, Exit
  <2>5. ASSUME NEW s \in Subs, Subnet(s) PROVE UNCHANGED alive
    BY <2>5
    DEF Subnet, SubTell, SubEnds, SubSendsFirst, SubReceivesInitial, SubBarrier,
        SubStarts, SubSends, SubReceives
  <2>6. QED
    BY <1>2, <2>1, <2>2, <2>3, <2>4, <2>5 DEF Next, vars
<1>3. QED
  BY <1>1, <1>2, PTL DEF Spec

\* Never is more than one message with a tag under way between a process and a
\* subnet, so that the first message with tag 101 (the values RTSTPhySim begins
\* with) is not taken for one of a step; and no thread and no subnet goes on after
\* the step at which the program ends, for every length of search and simulation.
THEOREM TypeCorrect == Spec => []TypeOK
<1>1. ASSUME IInv, MsgInv, AliveInv PROVE TypeOK
  <2>1. ends.step \in Nat /\ ends.step <= MaxNT /\ MaxNT \in Nat /\ MaxK \in Nat /\ Cycle \in Nat
    BY <1>1, RtStAssumption DEF MsgInv, MsgType
  <2>2. ASSUME NEW p \in Phys
        PROVE  /\ pc[p].i \in 1 .. Len(pcsubnet[p]) /\ pc[p].k \in 0 .. MaxK + Cycle + 1
               /\ pc[p].NT \in 0 .. MaxNT
               /\ MarkPhyInit[p] \in {"start", "ok", "over"} /\ IsBalance[p] \in {0, 1}
               /\ MarkRTCalculation[p] \in {"initializing", "running", "end"}
    <3>1. LoopInv(p) /\ pc[p].k \in Nat /\ pc[p].NT \in Nat
      BY <1>1 DEF MsgInv, IInv, TypeInv, Threads
    <3>2. QED
      BY <1>1, <2>1, <3>1 DEF LoopInv, IInv, TypeInv
  <2>3. ASSUME NEW p \in Phys
        PROVE  /\ box[p] \subseteq Boxes(p) /\ alive[p] \subseteq Boxes(p)
               /\ \A s \in SubsOf(p) :
                    /\ msg101[p][s] \in {<<>>, <<TRUE>>, <<FALSE>>}
                    /\ msg102[p][s] \in {0, 1} /\ msg1[p][s] \in {0, 1}
    BY <1>1 DEF MsgInv, MsgType, AliveInv
  <2>4. \A s \in Subs : sub[s].NT \in 0 .. MaxNT
    BY <1>1, <2>1 DEF MsgInv, StageInv, IInv, TypeInv
  <2>5. cal \in [Procs -> 0 .. 2] /\ world \subseteq Procs
    BY <1>1 DEF IInv, TypeInv
  <2>6. QED
    BY <2>2, <2>3, <2>4, <2>5 DEF TypeOK
<1>2. QED
  BY <1>1, InvariantHolds, MessagesAreCounted, AliveHolds, PTL
=============================================================================
