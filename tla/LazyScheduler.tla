--------------------------- MODULE LazyScheduler ---------------------------
(***************************************************************************)
(* The machine as PsxCore really runs it (api.rs): with the scheduler on,  *)
(* the devices lag the CPU and are caught up only when an instruction      *)
(* reaches the cached next-event deadline or touches a device register;    *)
(* with it off, step_cpu_naive ticks them with every instruction.          *)
(*                                                                         *)
(* `dev' is the device state as of `deviceClock', `iStat' holds the device *)
(* bits raised up to `deviceClock' and the software bits raised since.     *)
(***************************************************************************)
EXTENDS Devices

CONSTANT None

VARIABLES
  cycles, ie, seen, dev, iStat, iMask, frameEnd, snap,
  schedulerEnabled, \* PsxCore.scheduler_enabled
  deviceClock,      \* the cycle the devices have been advanced to
  nextDeadline      \* no I_STAT bit is due before this cycle

cpuVars   == <<cycles, ie>>
hostVars  == <<frameEnd, snap>>
clockVars == <<deviceClock, nextDeadline>>
vars == <<cpuVars, seen, dev, iStat, iMask, hostVars, schedulerEnabled, clockVars>>

AtRest == frameEnd = None

Init ==
  /\ cycles = 0 /\ ie = FALSE /\ seen = {}
  /\ dev = InitDev /\ iStat = {} /\ iMask = {}
  /\ frameEnd = None /\ snap = None
  /\ schedulerEnabled = TRUE /\ deviceClock = 0 /\ nextDeadline = 0

(***************************************************************************)
(* catch_up_devices: a no-op when the devices are already there.           *)
(***************************************************************************)
Gap(target) == IF target <= deviceClock THEN 0 ELSE target - deviceClock

CaughtUpDev(target)   == Advance(dev, Gap(target))
CaughtUpStat(target)  == iStat \cup Raised(dev, Gap(target))
CaughtUpClock(target) == deviceClock + Gap(target)

\* Mutant: the offset taken from the base instead of added to it.
DeadlineOf_Subtracted(d, base) ==
  IF NextEvent(d) = Never THEN Never ELSE base - NextEvent(d)

\* recompute_deadline: base + offset, or u64::MAX when no event is pending.
DeadlineOf(d, base) == IF NextEvent(d) = Never THEN Never ELSE base + NextEvent(d)

Due(cycle) == nextDeadline # Never /\ cycle >= nextDeadline

(***************************************************************************)
(* step_cpu_scheduled.                                                     *)
(***************************************************************************)
Obs == cycles + 1

PolledDev      == IF Due(Obs) THEN CaughtUpDev(Obs) ELSE dev
PolledStat     == IF Due(Obs) THEN CaughtUpStat(Obs) ELSE iStat
PolledClock    == IF Due(Obs) THEN CaughtUpClock(Obs) ELSE deviceClock
PolledDeadline == IF Due(Obs) THEN DeadlineOf(CaughtUpDev(Obs), CaughtUpClock(Obs))
                              ELSE nextDeadline

ScheduledInterrupt ==
  /\ schedulerEnabled
  /\ TakesInterrupt(PolledStat, iMask, ie)
  /\ cycles + 1 <= Horizon
  /\ cycles' = cycles + 1
  /\ ie' = FALSE
  /\ dev' = PolledDev /\ iStat' = PolledStat
  /\ deviceClock' = PolledClock /\ nextDeadline' = PolledDeadline
  /\ seen' = {}
  /\ UNCHANGED <<iMask, hostVars, schedulerEnabled>>

\* Mutant: the instruction's own cycle is forgotten, only waits are charged.
ScheduledPlain_NoCycle(extra) ==
  /\ schedulerEnabled
  /\ ~ TakesInterrupt(PolledStat, iMask, ie)
  /\ cycles' = cycles + extra
  /\ ie' \in BOOLEAN
  /\ dev' = PolledDev /\ iStat' = PolledStat
  /\ deviceClock' = PolledClock /\ nextDeadline' = PolledDeadline
  /\ seen' = {}
  /\ UNCHANGED <<iMask, hostVars, schedulerEnabled>>

\* An instruction that touches no device register: the devices stay behind.
ScheduledPlain(extra) ==
  /\ schedulerEnabled
  /\ ~ TakesInterrupt(PolledStat, iMask, ie)
  /\ cycles + 1 + extra <= Horizon
  /\ cycles' = cycles + 1 + extra
  /\ ie' \in BOOLEAN
  /\ dev' = PolledDev /\ iStat' = PolledStat
  /\ deviceClock' = PolledClock /\ nextDeadline' = PolledDeadline
  /\ seen' = {}
  /\ UNCHANGED <<iMask, hostVars, schedulerEnabled>>

\* Mutant: touch_io does not catch the devices up.
ScheduledIo_NoCatchUp(a, extra) ==
  /\ schedulerEnabled
  /\ ~ TakesInterrupt(PolledStat, iMask, ie)
  /\ cycles + 1 + extra <= Horizon
  /\ cycles' = cycles + 1 + extra
  /\ dev' = IoDev(a, PolledDev)
  /\ iStat' = IoStat(a, PolledDev, PolledStat)
  /\ iMask' = IoMask(a, iMask)
  /\ seen' = IoSeen(a, PolledDev, PolledStat)
  /\ deviceClock' = PolledClock
  /\ nextDeadline' = DeadlineOf(IoDev(a, PolledDev), PolledClock)
  /\ UNCHANGED <<ie, hostVars, schedulerEnabled>>

\* An instruction that touches one: touch_io catches the devices up to Obs
\* before the access, and the deadline is recomputed after it.
ScheduledIo(a, extra) ==
  /\ schedulerEnabled
  /\ ~ TakesInterrupt(PolledStat, iMask, ie)
  /\ cycles + 1 + extra <= Horizon
  /\ cycles' = cycles + 1 + extra
  /\ dev' = IoDev(a, CaughtUpDev(Obs))
  /\ iStat' = IoStat(a, CaughtUpDev(Obs), CaughtUpStat(Obs))
  /\ iMask' = IoMask(a, iMask)
  /\ seen' = IoSeen(a, CaughtUpDev(Obs), CaughtUpStat(Obs))
  /\ deviceClock' = CaughtUpClock(Obs)
  /\ nextDeadline' = DeadlineOf(IoDev(a, CaughtUpDev(Obs)), CaughtUpClock(Obs))
  /\ UNCHANGED <<ie, hostVars, schedulerEnabled>>

(***************************************************************************)
(* step_cpu_naive: tick by one, poll, execute, tick by the wait states.    *)
(***************************************************************************)
NaiveDev  == Advance(dev, 1)
NaiveStat == iStat \cup Raised(dev, 1)

NaiveInterrupt ==
  /\ ~ schedulerEnabled
  /\ TakesInterrupt(NaiveStat, iMask, ie)
  /\ cycles + 1 <= Horizon
  /\ cycles' = cycles + 1
  /\ ie' = FALSE
  /\ dev' = NaiveDev /\ iStat' = NaiveStat
  /\ deviceClock' = cycles + 1
  /\ seen' = {}
  /\ UNCHANGED <<iMask, hostVars, schedulerEnabled, nextDeadline>>

NaiveExecute(a, extra) ==
  /\ ~ schedulerEnabled
  /\ ~ TakesInterrupt(NaiveStat, iMask, ie)
  /\ cycles + 1 + extra <= Horizon
  /\ cycles' = cycles + 1 + extra
  /\ dev' = Advance(IoDev(a, NaiveDev), extra)
  /\ iStat' = IoStat(a, NaiveDev, NaiveStat) \cup Raised(IoDev(a, NaiveDev), extra)
  /\ iMask' = IoMask(a, iMask)
  /\ seen' = IoSeen(a, NaiveDev, NaiveStat)
  /\ ie' \in BOOLEAN /\ (a.reg # "none" => ie' = ie)
  /\ deviceClock' = cycles + 1 + extra
  /\ UNCHANGED <<hostVars, schedulerEnabled, nextDeadline>>

Step ==
  \/ ScheduledInterrupt
  \/ \E extra \in Extras : ScheduledPlain(extra)
  \/ \E a \in IoAccess, extra \in Extras : ScheduledIo(a, extra)
  \/ NaiveInterrupt
  \/ \E a \in IoAccess \cup {NoIo}, extra \in Extras : NaiveExecute(a, extra)

StepCpu   == AtRest /\ Step

\* Mutant: the budget test moved after the step of the loop.
FrameRuns_LateTest == frameEnd # None /\ cycles <= frameEnd + MaxExtra /\ Step

FrameRuns == frameEnd # None /\ cycles < frameEnd /\ Step

BeginFrame ==
  /\ AtRest
  /\ cycles + FrameCycles + MaxExtra <= Horizon
  /\ frameEnd' = cycles + FrameCycles
  /\ seen' = {}
  /\ UNCHANGED <<cpuVars, dev, iStat, iMask, snap, schedulerEnabled, clockVars>>

EndFrame ==
  /\ frameEnd # None /\ cycles >= frameEnd
  /\ iStat' = iStat \cup {VBlank}
  /\ frameEnd' = None
  /\ seen' = {}
  /\ UNCHANGED <<cpuVars, dev, iMask, snap, schedulerEnabled, clockVars>>

(***************************************************************************)
(* Host commands and calls.                                                *)
(***************************************************************************)
\* catch_up_all(cycles), as sync_devices and save_state call it.
CatchUpAll ==
  /\ dev' = CaughtUpDev(cycles) /\ iStat' = CaughtUpStat(cycles)
  /\ deviceClock' = CaughtUpClock(cycles)
  /\ nextDeadline' = DeadlineOf(CaughtUpDev(cycles), CaughtUpClock(cycles))

SyncDevices ==
  /\ AtRest
  /\ CatchUpAll
  /\ UNCHANGED <<cpuVars, seen, iMask, hostVars, schedulerEnabled>>

\* sync_for_one_off, the access, resync_after_one_off; no sync when naive.
OneOffDev  == IF schedulerEnabled THEN CaughtUpDev(cycles) ELSE dev
OneOffStat == IF schedulerEnabled THEN CaughtUpStat(cycles) ELSE iStat

\* Mutant: resync_after_one_off is missing.
OneOff_NoResync(a) ==
  /\ AtRest
  /\ dev' = IoDev(a, OneOffDev) /\ iStat' = IoStat(a, OneOffDev, OneOffStat)
  /\ iMask' = IoMask(a, iMask) /\ seen' = IoSeen(a, OneOffDev, OneOffStat)
  /\ IF schedulerEnabled
     THEN /\ deviceClock' = CaughtUpClock(cycles)
          /\ nextDeadline' = DeadlineOf(OneOffDev, CaughtUpClock(cycles))
     ELSE UNCHANGED clockVars
  /\ UNCHANGED <<cycles, ie, hostVars, schedulerEnabled>>

OneOff(a) ==
  /\ AtRest
  /\ dev' = IoDev(a, OneOffDev) /\ iStat' = IoStat(a, OneOffDev, OneOffStat)
  /\ iMask' = IoMask(a, iMask) /\ seen' = IoSeen(a, OneOffDev, OneOffStat)
  /\ IF schedulerEnabled
     THEN /\ deviceClock' = CaughtUpClock(cycles)
          /\ nextDeadline' = DeadlineOf(IoDev(a, OneOffDev), CaughtUpClock(cycles))
     ELSE UNCHANGED clockVars
  /\ UNCHANGED <<cycles, ie, hostVars, schedulerEnabled>>

\* SetControllerState, InsertMemoryCard ...: the device is changed as it is,
\* wherever its clock stands, and the deadline is left alone.
HostPoke(c) ==
  /\ AtRest
  /\ dev' = Poke(c, dev)
  /\ seen' = {}
  /\ UNCHANGED <<cpuVars, iStat, iMask, hostVars, schedulerEnabled, clockVars>>

SetSchedulerEnabled(b) ==
  /\ AtRest
  /\ dev' = CaughtUpDev(cycles) /\ iStat' = CaughtUpStat(cycles)
  /\ schedulerEnabled' = b
  /\ deviceClock' = cycles /\ nextDeadline' = 0
  /\ UNCHANGED <<cpuVars, seen, iMask, hostVars>>

Snapshot(d, stat) ==
  [cycles |-> cycles, ie |-> ie, dev |-> d,
   iStat |-> stat, iMask |-> iMask]

SaveState ==
  /\ AtRest /\ cycles \in SavePoints
  /\ CatchUpAll
  /\ snap' = Snapshot(CaughtUpDev(cycles), CaughtUpStat(cycles))
  /\ seen' = {}
  /\ UNCHANGED <<cpuVars, iMask, frameEnd, schedulerEnabled>>

\* Mutant: the clock of the devices is not rewound with them.
LoadState_StaleClock ==
  /\ AtRest /\ snap # None
  /\ cycles' = snap.cycles /\ ie' = snap.ie
  /\ dev' = snap.dev /\ iStat' = snap.iStat /\ iMask' = snap.iMask
  /\ nextDeadline' = 0
  /\ seen' = {}
  /\ UNCHANGED <<frameEnd, snap, schedulerEnabled, deviceClock>>

LoadState ==
  /\ AtRest /\ snap # None
  /\ cycles' = snap.cycles /\ ie' = snap.ie
  /\ dev' = snap.dev /\ iStat' = snap.iStat /\ iMask' = snap.iMask
  /\ deviceClock' = snap.cycles /\ nextDeadline' = 0
  /\ seen' = {}
  /\ UNCHANGED <<frameEnd, snap, schedulerEnabled>>

\* Command::Reset and Command::LoadBios: cpu.reset() zeroes the CPU's clock
\* and nothing else.
Reset ==
  /\ AtRest
  /\ cycles' = 0 /\ ie' = FALSE
  /\ seen' = {}
  /\ UNCHANGED <<dev, iStat, iMask, hostVars, schedulerEnabled, clockVars>>

Next ==
  \/ StepCpu \/ FrameRuns \/ EndFrame
  \/ BeginFrame
  \/ \E a \in IoAccess : OneOff(a)
  \/ \E c \in Pokes : HostPoke(c)
  \/ \E b \in BOOLEAN : SetSchedulerEnabled(b)
  \/ SyncDevices \/ SaveState \/ LoadState

Spec == Init /\ [][Next]_vars

\* The same machine when the host may also reset it.
ResetSpec == Init /\ [][Next \/ Reset]_vars

\* advance_frame loops until the frame's cycles are spent: a step or the
\* VBlank that ends the frame is always the next thing that happens.
FairSpec == Spec /\ WF_vars(FrameRuns) /\ WF_vars(EndFrame)

----------------------------------------------------------------------------
(***************************************************************************)
(* The reference machine this one implements: the same CPU, and the        *)
(* devices as they would be had they kept up.                              *)
(***************************************************************************)
Lag == IF cycles <= deviceClock THEN 0 ELSE cycles - deviceClock

TrueDev  == Advance(dev, Lag)
TrueStat == iStat \cup Raised(dev, Lag)

Reference == INSTANCE ReferenceLoop WITH dev <- TrueDev, iStat <- TrueStat

\* Running lazily cannot be told from running the reference loop: same
\* cycle counts, same interrupts taken at the same instructions, same values
\* read, same save states ("behaviourally identical (bit-for-bit)").
RefinesReference == Reference!Spec

\* Types; in particular a deadline is a cycle to come, or Never.
TypeOK ==
  /\ cycles \in Span /\ ie \in BOOLEAN /\ seen \in SUBSET Int
  /\ dev \in DevState /\ iStat \in SUBSET Lines /\ iMask \in SUBSET Lines
  /\ frameEnd \in Span \cup {None}
  /\ snap \in [cycles : Span, ie : BOOLEAN, dev : DevState,
               iStat : SUBSET Lines, iMask : SUBSET Lines] \cup {None}
  /\ schedulerEnabled \in BOOLEAN
  /\ deviceClock \in Span
  /\ nextDeadline \in Nat \cup {Never}

\* The devices never run ahead of the CPU, and with the scheduler off they
\* never fall behind either ("In naive mode this tracks cpu.cycles").
DevicesFollow ==
  /\ deviceClock <= cycles
  /\ ~ schedulerEnabled => deviceClock = cycles

\* Before the cached deadline no device has an interrupt to deliver, so a
\* poll made without catching up sees the true I_STAT.
NoMissedEvent ==
  schedulerEnabled =>
    \A n \in Span : ~ Due(deviceClock + n) => Raised(dev, n) = {}

\* A frame never overruns its budget by more than one instruction.
FrameOverrunBounded ==
  frameEnd # None => cycles <= frameEnd + MaxExtra

\* advance_frame terminates: every frame that begins reaches its VBlank.
FrameTerminates == (frameEnd # None) ~> (frameEnd = None)
=============================================================================
