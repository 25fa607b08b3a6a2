-------------------------- MODULE GroupConfig --------------------------
(***************************************************************************)
(* The channel groups of one kind of signal of one box in the c1 driver    *)
(* (di_grp_cfg, do_grp_cfg, ai_grp_cfg or ao_grp_cfg; the code is the same *)
(* four times).  A group is a list of channels; PID_xx_GrpConfig sets it,  *)
(* PID_xx_GrpWrite and PID_xx_GrpRead pass the words of its channels.      *)
(*                                                                         *)
(* GrpConfig checks one channel after the other and stores each at once, so *)
(* a refused call has changed the list up to the channel it was refused    *)
(* for, but not its length.                                                *)
(***************************************************************************)
EXTENDS Integers, Sequences, FiniteSets

CONSTANTS
  MAX_SLOTS, MAX_CHANS, MAX_GRP_CFGS,
  Named,      \* the channels callers name, some of them not of the box
  Words,      \* the values of a channel
  MaxList     \* bound: the longest list a caller passes

ASSUME GroupAssumption ==
  /\ MAX_SLOTS \in Nat \ {0} /\ MAX_CHANS \in Nat \ {0} /\ MAX_GRP_CFGS \in Nat \ {0}
  /\ Named \subseteq [slot : Nat, chan : Nat]
  /\ 0 \in Words /\ MaxList \in Nat

Capacity == MAX_SLOTS * MAX_CHANS
Grps     == 0 .. MAX_GRP_CFGS - 1
Channels == [slot : 0 .. MAX_SLOTS - 1, chan : 0 .. MAX_CHANS - 1]
Lists   == UNION {[1 .. n -> Named] : n \in 0 .. MaxList}

VARIABLES
  cfg,      \* the groups: how many channels are valid, and the array of them
  xx_data,  \* the word of each channel in dev_buff
  result    \* the last call: the group, and whether it returned NoError

grpVars == <<cfg, xx_data, result>>

Shown(c) == {c.entry[i] : i \in 0 .. c.count - 1}

GrpInit ==
  /\ cfg = [g \in Grps |-> [count |-> 0,
                            entry |-> [i \in 0 .. Capacity - 1 |-> [slot |-> 0, chan |-> 0]]]]
  /\ xx_data = [e \in Channels |-> 0]
  /\ result = [call |-> "none", grp |-> 0, ok |-> TRUE]

Return(call, g, ok) == result' = [call |-> call, grp |-> g, ok |-> ok]

(***************************************************************************)
(* PID_xx_GrpConfig.                                                       *)
(***************************************************************************)
\* Mutants of Accepts: only the first channel of the other groups is looked at;
\* the slot is compared alone; the range of the slot is off by one.
AcceptsFirst(g, e) ==
  /\ e.slot < MAX_SLOTS /\ e.chan < MAX_CHANS
  /\ \A h \in Grps \ {g} : cfg[h].count > 0 => cfg[h].entry[0] # e

\* Mutant of Accepts: a slot number of MAX_SLOTS passes.
AcceptsAnySlot(g, e) ==
  /\ e.slot <= MAX_SLOTS /\ e.chan < MAX_CHANS
  /\ \A h \in Grps \ {g} : e \notin Shown(cfg[h])

Accepts(g, e) ==
  /\ e.slot < MAX_SLOTS /\ e.chan < MAX_CHANS
  /\ \A h \in Grps \ {g} : e \notin Shown(cfg[h])

\* The array after the first m channels of the list were stored.
Stored(entry, list, m) == [i \in DOMAIN entry |-> IF i < m THEN list[i + 1] ELSE entry[i]]

GrpConfig(g, list) ==
  /\ Len(list) < Capacity
  /\ \E m \in 0 .. Len(list) :
       /\ \A i \in 1 .. m : Accepts(g, list[i])
       /\ m < Len(list) => ~Accepts(g, list[m + 1])
       /\ cfg' = [cfg EXCEPT ![g] = [count |-> IF m = Len(list) THEN m ELSE @.count,
                                     entry |-> Stored(@.entry, list, m)]]
       /\ Return("config", g, m = Len(list))
  /\ UNCHANGED xx_data

\* As many channels as the box has, or more: refused at once.
GrpConfigTooLong(g, list) ==
  /\ Len(list) >= Capacity
  /\ Return("config", g, FALSE)
  /\ UNCHANGED <<cfg, xx_data>>

(***************************************************************************)
(* PID_xx_GrpWrite: of two words for one channel the later one remains.    *)
(***************************************************************************)
\* Mutant of Cell: the words are stored in the order of the channels.
CellInOrder(g, i) == [slot |-> i \div MAX_CHANS, chan |-> i % MAX_CHANS]

Cell(g, i) == cfg[g].entry[i]

GrpWrite(g, words) ==
  /\ LET n == cfg[g].count IN
       /\ DOMAIN words = 0 .. n - 1
       /\ xx_data' \in [Channels -> Words]
       /\ \A e \in Channels \ {Cell(g, i) : i \in 0 .. n - 1} : xx_data'[e] = xx_data[e]
       /\ \A i \in 0 .. n - 1 :
            (\A k \in i + 1 .. n - 1 : Cell(g, k) # Cell(g, i)) => xx_data'[Cell(g, i)] = words[i]
  /\ Return("write", g, TRUE)
  /\ UNCHANGED cfg

\* Count is not the length of the group.
GrpWriteRefused(g) ==
  /\ Return("write", g, FALSE)
  /\ UNCHANGED <<cfg, xx_data>>

GrpNext == \E g \in Grps :
  \/ \E list \in Lists : GrpConfig(g, list) \/ GrpConfigTooLong(g, list)
  \/ \E words \in [0 .. cfg[g].count - 1 -> Words] : GrpWrite(g, words)
  \/ GrpWriteRefused(g)

GrpSpec == GrpInit /\ [][GrpNext]_grpVars

(***************************************************************************)
(* Properties.                                                             *)
(***************************************************************************)
\* Types of the state: every channel a group holds, shown or not, is one of the
\* box, so that GrpRead and GrpWrite stay inside di_data, do_data, ai_data and
\* ao_data after any sequence of calls, refused ones included.
GrpTypeOK ==
  /\ cfg \in [Grps -> [count : 0 .. Capacity, entry : [0 .. Capacity - 1 -> Channels]]]
  /\ xx_data \in [Channels -> Words]
  /\ result \in [call : {"none", "config", "write"}, grp : Grps, ok : BOOLEAN]

\* No channel belongs to two groups, although a refused GrpConfig leaves a mixture
\* of the old and the new list: that is what ErrorxxGrpConflict is for.
GroupsDisjoint ==
  \A g, h \in Grps : g # h => Shown(cfg[g]) \cap Shown(cfg[h]) = {}

\* Writing one group never changes a word of another.
GroupsKeepTheirs ==
  [][\A g, h \in Grps : g # h /\ result'.call = "write" /\ result'.grp = g =>
       \A e \in Shown(cfg[h]) : xx_data'[e] = xx_data[e]]_grpVars
==========================================================================
