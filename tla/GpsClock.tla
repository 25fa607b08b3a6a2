---------------------------- MODULE GpsClock ----------------------------
(***************************************************************************)
(* The clock of the c1 real-time thread: the thread __gpsTimer_event       *)
(* copies the GPS registers to currTime without end, wait_PPS_signal locks *)
(* the microsecond at which a second begins, and getSignal_NextDT returns  *)
(* when the next step of DT microseconds has begun, from nothing but       *)
(* gtime_us, which starts again every millisecond, and a 16-bit difference.*)
(* DT is a double: 1/FRAC of a microsecond is the part it is counted in    *)
(* here, and what the additions to a double round off is left out.         *)
(*                                                                         *)
(* "time" is the true one in microseconds.  It stands still until every    *)
(* thread has done what its processor leaves it time for: the bounds       *)
(* MaxStale and MaxWork, and one poll of the real-time thread for each     *)
(* microsecond, are the assumptions about the machine.                     *)
(***************************************************************************)
EXTENDS Integers

CONSTANTS
  US,       \* microseconds of a millisecond (1000)
  MS,       \* milliseconds of a second (1000)
  WORD,     \* 2^16, the width of U16
  HIGH,     \* a U16 difference above it is a negative one (60000)
  FRAC,     \* the parts of a microsecond that DT is counted in
  DT,       \* the step, in those parts
  MaxStale, \* bound: how old the time read by __gpsTimer_event gets
  MaxWork,  \* bound: how long a step, or the start command, takes
  NStep     \* bound: the steps of the simulation

ASSUME ClockAssumption ==
  /\ US \in Nat /\ MS \in Nat /\ WORD \in Nat /\ HIGH \in Nat
  /\ FRAC \in Nat \ {0} /\ DT \in Nat
  /\ 2 <= MS /\ FRAC <= DT /\ DT < FRAC * US
  /\ US <= HIGH /\ HIGH + US < WORD
  /\ MaxStale \in Nat /\ MaxWork \in Nat /\ NStep \in Nat

VARIABLES
  time,       \* the true time
  sample,     \* the time __gpsTimer_event has read from the registers
  tpc,        \* its next store: currTime.gtime_ms or currTime.gtime_us
  gtime_ms, gtime_us,
  shown,      \* ghost: the time gtime_us belongs to
  rtpc,       \* where the real-time thread is
  moniter_ms, \* wait_PPS_signal has seen the last millisecond of a second
  polled,     \* the real-time thread has had its turn in this microsecond
  entered,    \* when it began the step, or the start command
  global_us,  \* where the current step began, within its millisecond
  g_us_g,     \* the steps so far, in parts of a microsecond
  g_us_t,     \* the time of the step as the statistics take it, in parts
  base,       \* ghost: the time locked by wait_PPS_signal
  steps       \* ITime - 1

timerVars == <<sample, tpc, gtime_ms, gtime_us, shown>>
stepVars == <<global_us, g_us_g, g_us_t, base, steps>>
clockVars == <<time, timerVars, rtpc, moniter_ms, polled, entered, stepVars>>

ClockInit ==
  /\ time \in 0 .. (US * MS - 1)
  /\ sample = time /\ shown = time /\ tpc = "read"
  /\ gtime_ms = (time \div US) % MS
  /\ gtime_us = time % US
  /\ rtpc = "pps1" /\ moniter_ms = FALSE /\ polled = FALSE /\ entered = time
  /\ global_us = 0 /\ g_us_g = 0 /\ g_us_t = 0 /\ base = 0 /\ steps = 0

Waiting == rtpc \in {"pps1", "pps2", "next"}

ClockTick ==
  /\ rtpc # "end"
  /\ time - sample < MaxStale
  /\ time - shown < MaxStale
  /\ Waiting => polled
  /\ rtpc \in {"work", "start"} => time - entered < MaxWork
  /\ rtpc # "lock1" /\ rtpc # "lock2"
  /\ time' = time + 1
  /\ polled' = FALSE
  /\ UNCHANGED <<timerVars, rtpc, moniter_ms, entered, stepVars>>

(***************************************************************************)
(* __gpsTimer_event.                                                       *)
(***************************************************************************)
ReadRegisters ==
  /\ tpc = "read"
  /\ sample' = time
  /\ tpc' = "ms"
  /\ UNCHANGED <<time, gtime_ms, gtime_us, shown, rtpc, moniter_ms, polled, entered, stepVars>>

StoreMs ==
  /\ tpc = "ms"
  /\ gtime_ms' = (sample \div US) % MS
  /\ tpc' = "us"
  /\ UNCHANGED <<time, sample, gtime_us, shown, rtpc, moniter_ms, polled, entered, stepVars>>

StoreUs ==
  /\ tpc = "us"
  /\ gtime_us' = sample % US
  /\ shown' = sample
  /\ tpc' = "read"
  /\ UNCHANGED <<time, sample, gtime_ms, rtpc, moniter_ms, polled, entered, stepVars>>

gpsTimer_event == ReadRegisters \/ StoreMs \/ StoreUs

(***************************************************************************)
(* wait_PPS_signal, called before the start commands ("pps1") and before   *)
(* the first step ("pps2").                                                *)
(***************************************************************************)
Sees(ms) == gtime_ms = ms

\* Mutant of Locked: the beginning of the second is not awaited.
LockedEarly == moniter_ms

Locked == moniter_ms /\ Sees(0)

WatchSecond ==
  /\ rtpc \in {"pps1", "pps2"} /\ ~polled
  /\ ~Locked
  /\ moniter_ms' = (moniter_ms \/ Sees(MS - 1))
  /\ polled' = TRUE
  /\ UNCHANGED <<time, timerVars, rtpc, entered, stepVars>>

\* The second has begun; gtime_us is read after gtime_ms.
SecondBegins ==
  /\ rtpc \in {"pps1", "pps2"} /\ ~polled
  /\ Locked
  /\ rtpc' = IF rtpc = "pps1" THEN "lock1" ELSE "lock2"
  /\ moniter_ms' = FALSE
  /\ polled' = TRUE
  /\ UNCHANGED <<time, timerVars, entered, stepVars>>

LockUs ==
  /\ rtpc \in {"lock1", "lock2"}
  /\ global_us' = gtime_us
  /\ base' = shown
  /\ rtpc' = IF rtpc = "lock1" THEN "start" ELSE "next"
  /\ entered' = time
  /\ UNCHANGED <<time, timerVars, moniter_ms, polled, g_us_g, g_us_t, steps>>

\* startSlaveSim and startMasterSim have returned.
SimStarted ==
  /\ rtpc = "start"
  /\ rtpc' = "pps2"
  /\ UNCHANGED <<time, timerVars, moniter_ms, polled, entered, stepVars>>

(***************************************************************************)
(* getSignal_NextDT.                                                       *)
(***************************************************************************)
\* Mutants of Elapsed: the wrap at the millisecond is forgotten; a negative
\* difference counts as nothing.
ElapsedNoWrap(us, g) == (us - g) % WORD
ElapsedSigned(us, g) == IF us < g THEN 0 ELSE us - g

\* n = currTime.gtime_us - global_us; if (n > 60000) n += 1000; in 16 bits.
Elapsed(us, g) ==
  LET n == (us - g) % WORD
  IN  IF n > HIGH THEN (n + US) % WORD ELSE n

Wrapped(us) == IF us > US - 1 THEN us - US ELSE us

\* n > DT, a comparison of doubles.
Longer(n) == FRAC * n > DT

\* A double that is stored in a U16 loses its fraction.
Truncated(parts) == parts \div FRAC

NoSignal ==
  /\ rtpc = "next" /\ ~polled
  /\ ~Longer(Elapsed(gtime_us, global_us))
  /\ polled' = TRUE
  /\ UNCHANGED <<time, timerVars, rtpc, moniter_ms, entered, stepVars>>

\* Mutant of NextDT: the next step begins where this one was seen, not where
\* it was due.
NextDTFromNow ==
  /\ rtpc = "next" /\ ~polled
  /\ Longer(Elapsed(gtime_us, global_us))
  /\ global_us' = gtime_us
  /\ g_us_g' = g_us_g + DT
  /\ g_us_t' = g_us_g' + FRAC * Elapsed(gtime_us, global_us) - DT
  /\ rtpc' = "work"
  /\ entered' = time
  /\ UNCHANGED <<time, timerVars, moniter_ms, polled, base, steps>>

\* The next step has begun.  global_us, a U16, takes the sum with DT without
\* its fraction; global_us_g and global_us_t, doubles, take all of it.
NextDT ==
  /\ rtpc = "next" /\ ~polled
  /\ Longer(Elapsed(gtime_us, global_us))
  /\ global_us' = Wrapped(Truncated(FRAC * global_us + DT))
  /\ g_us_g' = g_us_g + DT
  /\ g_us_t' = g_us_g' + FRAC * Elapsed(gtime_us, global_us) - DT
  /\ rtpc' = "work"
  /\ entered' = time
  /\ UNCHANGED <<time, timerVars, moniter_ms, polled, base, steps>>

\* The step: exchange with the boxes and the computing processes.
Worked ==
  /\ rtpc = "work"
  /\ steps' = steps + 1
  /\ rtpc' = IF steps' = NStep THEN "end" ELSE "next"
  /\ UNCHANGED <<time, timerVars, moniter_ms, polled, entered, global_us, g_us_g, g_us_t, base>>

\* stopSim; the simulation is over.
ClockEnd == rtpc = "end" /\ UNCHANGED clockVars

RtThread ==
  WatchSecond \/ SecondBegins \/ LockUs \/ SimStarted \/ NoSignal \/ NextDT \/ Worked \/ ClockEnd

ClockNext == ClockTick \/ gpsTimer_event \/ RtThread

ClockSpec == ClockInit /\ [][ClockNext]_clockVars

(***************************************************************************)
(* Properties.                                                             *)
(***************************************************************************)
\* Types of the state; global_us stays a microsecond of a millisecond.
ClockTypeOK ==
  /\ time \in Nat /\ sample \in Nat /\ shown \in Nat
  /\ tpc \in {"read", "ms", "us"}
  /\ gtime_ms \in 0 .. MS - 1 /\ gtime_us \in 0 .. US - 1
  /\ rtpc \in {"pps1", "lock1", "start", "pps2", "lock2", "next", "work", "end"}
  /\ moniter_ms \in BOOLEAN /\ polled \in BOOLEAN /\ entered \in Nat
  /\ global_us \in 0 .. US - 1
  /\ g_us_g \in Nat /\ g_us_t \in Nat /\ base \in Nat /\ steps \in Nat

Simulating == rtpc \in {"next", "work", "end"}

\* The steps begun so far, and the fractions that global_us has lost by them,
\* in parts of a microsecond: none when DT is a whole number of microseconds.
Taken == steps + IF rtpc = "work" THEN 1 ELSE 0
Behind == Taken * (DT % FRAC)

\* When the current step began, by the clock: what g_us_g says less those.
Due == base + (g_us_g - Behind) \div FRAC

\* However the timer thread and the steps are delayed, the simulation runs
\* ahead of the GPS time by no more than the lost fractions of its steps.
NeverAhead == Simulating => FRAC * base + g_us_g <= FRAC * shown + Behind

\* global_us is the microsecond at which the current step began: of the errors
\* of single steps only the fractions add up, and no delay does.
InPhase == Simulating => global_us = Due % US

\* The time locked by wait_PPS_signal belongs to the first millisecond of a
\* second, or to the moment before it when gtime_us is older than gtime_ms.
StartsWithSecond ==
  Simulating => (base + MaxStale) % (US * MS) < US + MaxStale

\* The time the statistics of the steps are made from is the time at which
\* the step was seen to begin, and the lost fractions: while a step takes less
\* than a millisecond, no millisecond is lost, although only microseconds are
\* looked at.
StepTimeIsTrue ==
  [][NextDT => g_us_t' = FRAC * (shown - base) + Behind]_clockVars
=============================================================================
