-------------------------------- MODULE FormComm --------------------------------
(***************************************************************************)
(* FormComm of the three interface programs (pstdid.cpp of piditf_d1,      *)
(* PstPIDItf_rt64.cpp of piditf_b1, ADPSS_PID_MAIN.cpp of piditf_c1): the  *)
(* processes of the simulator tell each other what they are and form the   *)
(* communicators that everything else goes over.  Creating one is a        *)
(* collective call on an older one: nobody returns from it before all its  *)
(* members have made it.  The other programs, which are not in the         *)
(* repository, make the calls of their kind, ST or EMT.                    *)
(*                                                                         *)
(* A communicator, or a group, is the sequence of the world ranks of its   *)
(* members; ranks start at 0.                                              *)
(***************************************************************************)
EXTENDS Integers, Sequences, SequencesExt, FiniteSetsExt

CONSTANT Layouts  \* the kinds of the processes, in the order of their ranks

\* SIMUTYPE_ALL: electromechanical (ST) up to 100, electromagnetic (EMT) up
\* to 200, and beyond those the ones that only read and write files.
STCTRL == 1
STSUB == 2
STPHY == 5   \* the interface program of piditf_b1
STCom == 6   \* that of piditf_d1
EMTSUB == 101
EMTPHY == 104   \* that of piditf_c1

ASSUME FormCommAssumption ==
  \A kinds \in Layouts : kinds \in Seq(Nat \ {0}) /\ kinds # <<>>

VARIABLES
  Ntype,    \* Ntype[r + 1]: the kind of the process with world rank r
  comm,     \* the communicators formed so far
  calls,    \* calls[r]: collective calls that the process has made
  aborted   \* a call of the message library was in error, which ends all

commVars == <<Ntype, comm, calls, aborted>>

World == 0..(Len(Ntype) - 1)
IsCal(r) == Ntype[r + 1] <= 200
IsST(r) == Ntype[r + 1] <= 100
IsEMT(r) == IsCal(r) /\ ~IsST(r)

\* PCbuffer: the world ranks of some of the processes, in order; before the
\* k-th of them come k - 1 others.
PCbuffer(ranks) ==
  [k \in 1..Cardinality(ranks) |->
     CHOOSE r \in ranks : Cardinality({q \in ranks : q < r}) = k - 1]
NumProcST == Cardinality({r \in World : IsST(r)})
NumProcEMT == Cardinality({r \in World : IsEMT(r)})

\* Which ranks the new group has of the group it is made from.  For CommST
\* and CommEMT world ranks are taken for ranks in CommCal; for CommMain_Sub
\* the kinds of the first world ranks for those of the ranks in CommST; for
\* CommEMTCAL world ranks, less the number of ST processes, for ranks in
\* CommEMT.
RanksCal == PCbuffer({r \in World : IsCal(r)})
RanksST == PCbuffer({r \in World : IsST(r)})
RanksEMT == PCbuffer({r \in World : IsEMT(r)})
RanksMain_Sub ==
  <<0>> \o PCbuffer({r \in World : r < NumProcST /\ Ntype[r + 1] = STSUB})

\* Mutant of RanksEMTCAL: world ranks as they are.
RanksEMTCALWorld == PCbuffer({r \in World : Ntype[r + 1] = EMTSUB})

RanksEMTCAL ==
  LET ranks == PCbuffer({r \in World : Ntype[r + 1] = EMTSUB})
  IN [k \in DOMAIN ranks |-> ranks[k] - NumProcST]

\* Each collective call, the communicator it is made on, and the ranks there
\* of the new one's members.  All tell their kind in the first.
Allgather == "MPI_Allgather"
On(call) ==
  CASE call \in {Allgather, "CommCal"}      -> "CommWorld"
    [] call \in {"CommST", "CommEMT"}       -> "CommCal"
    [] call = "CommMain_Sub"                -> "CommST"
    [] call = "CommEMTCAL"                  -> "CommEMT"
Members(call) ==
  CASE call = "CommCal"       -> RanksCal
    [] call = "CommST"        -> RanksST
    [] call = "CommEMT"       -> RanksEMT
    [] call = "CommMain_Sub"  -> RanksMain_Sub
    [] call = "CommEMTCAL"    -> RanksEMTCAL
    [] OTHER                  -> <<>>
AllCalls ==
  {Allgather, "CommCal", "CommST", "CommEMT", "CommMain_Sub", "CommEMTCAL"}

If(condition, call) == IF condition THEN <<call>> ELSE <<>>

\* The calls of an ST process, in order ...
CallsST ==
  <<Allgather, "CommCal", "CommST">> \o If(NumProcEMT > 0, "CommEMT")
    \o <<"CommMain_Sub">>

\* ... and of an EMT process.
CallsEMT ==
  <<Allgather, "CommCal">> \o If(NumProcST > 0, "CommST") \o <<"CommEMT">>
    \o If(RanksEMTCAL # <<>>, "CommEMTCAL")

CallsOf(r) ==
  IF IsST(r) THEN CallsST
  ELSE IF IsEMT(r) THEN CallsEMT
  ELSE <<Allgather, "CommCal">>

CommInit ==
  /\ Ntype \in Layouts
  /\ comm = [CommWorld |-> [i \in 1..Len(Ntype) |-> i - 1], CommCal |-> <<>>,
             CommST |-> <<>>, CommEMT |-> <<>>, CommMain_Sub |-> <<>>,
             CommEMTCAL |-> <<>>]
  /\ calls = [r \in World |-> 0]
  /\ aborted = FALSE

Next_call(r) ==
  IF calls[r] < Len(CallsOf(r)) THEN CallsOf(r)[calls[r] + 1] ELSE "none"
Makes(call) == {r \in World : Next_call(r) = call}

\* The error handler of a communicator ends all processes when a group is to
\* have a rank that its group has not, or one twice, or when the communicator
\* that the call is made on does not have the caller.
InError(call) ==
  \/ \E k \in DOMAIN Members(call) :
       Members(call)[k] \notin 0..(Len(comm[On(call)]) - 1)
  \/ ~IsInjective(Members(call))
  \/ ~(Makes(call) \subseteq Range(comm[On(call)]))

\* All members of a communicator have come to a call on it, and return.
Collective(call) ==
  /\ ~aborted
  /\ comm[On(call)] # <<>>
  /\ Range(comm[On(call)]) \subseteq Makes(call)
  /\ IF InError(call)
     THEN aborted' = TRUE /\ UNCHANGED <<comm, calls>>
     ELSE /\ calls' = [r \in World |->
                         IF r \in Makes(call) THEN calls[r] + 1 ELSE calls[r]]
          /\ comm' = IF call = Allgather THEN comm
                     ELSE [comm EXCEPT ![call] =
                             [k \in DOMAIN Members(call) |->
                                comm[On(call)][Members(call)[k] + 1]]]
          /\ UNCHANGED aborted
  /\ UNCHANGED Ntype

CommNext == \E call \in AllCalls : Collective(call)

Formed == ~aborted /\ \A r \in World : Next_call(r) = "none"

-----------------------------------------------------------------------------
(* Properties *)

\* The processes are started in the order of their kinds, the control first
\* ("by default the processes of the different kinds are started in the
\* order of COMMSIMU.PMN", ADPSS_PID_MAIN.cpp:316).
InOrder ==
  /\ Ntype[1] = STCTRL
  /\ \A r, q \in World :
       r < q => (IsST(q) => IsST(r)) /\ (IsCal(q) => IsCal(r))

\* Each communicator has the processes it is for and no other, although each
\* program computes them from the ranks in another.
Meant ==
  /\ Range(comm.CommCal) = {r \in World : IsCal(r)}
  /\ Range(comm.CommST) = {r \in World : IsST(r)}
  /\ Range(comm.CommEMT) = {r \in World : IsEMT(r)}
  /\ Range(comm.CommMain_Sub) = {0} \cup {r \in World : Ntype[r + 1] = STSUB}
  /\ Range(comm.CommEMTCAL) = {r \in World : Ntype[r + 1] = EMTSUB}

\* If they are started so, then no call blocks for ever, although each program
\* has its own list of calls, none is in error, and the communicators are as
\* they are meant.
CommsFormed == InOrder => <>[](Formed /\ Meant)
=============================================================================
