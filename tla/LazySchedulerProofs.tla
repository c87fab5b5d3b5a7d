------------------------ MODULE LazySchedulerProofs ------------------------
(***************************************************************************)
(* For every device that honours the contract, whatever the frame length   *)
(* and the wait states: the types, the two invariants the scheduler rests  *)
(* on, and that the lazy machine implements the reference loop.            *)
(***************************************************************************)
EXTENDS LazyScheduler, TLAPS

(***************************************************************************)
(* Lemmas on the operators.                                                *)
(***************************************************************************)
\* An access keeps the types of the device, I_STAT, I_MASK and what is read.
LEMMA AccessTypes ==
  ASSUME NEW a \in IoAccess \cup {NoIo}, NEW d \in DevState,
         NEW stat \in SUBSET Lines, NEW mask \in SUBSET Lines
  PROVE  /\ IoDev(a, d) \in DevState
         /\ IoStat(a, d, stat) \in SUBSET Lines
         /\ IoMask(a, mask) \in SUBSET Lines
         /\ IoSeen(a, d, stat) \in SUBSET Int
<1>1. CASE a \in DeviceIo
  <2>1. a.reg = "device" /\ a.op \in Ops
    BY <1>1 DEF DeviceIo
  <2>2. Apply(a.op, d) \in DevState /\ Value(a.op, d) \in SUBSET Int /\ Sets(a.op, d) \in SUBSET Lines
    BY <2>1, DeviceTypes
  <2> QED
    BY <2>1, <2>2 DEF IoDev, IoStat, IoMask, IoSeen
<1>2. CASE a \in [reg : {"ackStat", "mask"}, op : IrqWrites]
  <2>1. a.reg \in {"ackStat", "mask"} /\ a.op \in SUBSET Lines
    BY <1>2, BoundsAssumption
  <2> QED
    BY <2>1 DEF IoDev, IoStat, IoMask, IoSeen
<1>3. CASE a \in [reg : {"readStat"}, op : {{}}]
  <2>1. a.reg = "readStat"
    BY <1>3
  <2> QED
    BY <2>1, LinesAreBits DEF IoDev, IoStat, IoMask, IoSeen
<1>4. CASE a = NoIo
  BY <1>4 DEF NoIo, IoDev, IoStat, IoMask, IoSeen
<1> QED
  BY <1>1, <1>2, <1>3, <1>4 DEF IoAccess, IrqIo

\* catch_up_devices brings the devices to `target', never back.
LEMMA CatchUpTypes ==
  ASSUME TypeOK, NEW target \in Span
  PROVE  /\ Gap(target) \in Span
         /\ CaughtUpDev(target) \in DevState
         /\ CaughtUpStat(target) \in SUBSET Lines
         /\ CaughtUpClock(target) \in Span
         /\ CaughtUpClock(target) = IF target <= deviceClock THEN deviceClock ELSE target
<1>1. Gap(target) \in Span
  BY BoundsAssumption DEF TypeOK, Gap, Span
<1>2. Advance(dev, Gap(target)) \in DevState /\ Raised(dev, Gap(target)) \in SUBSET Lines
  BY <1>1, DeviceTypes DEF TypeOK
<1>3. CaughtUpClock(target) = IF target <= deviceClock THEN deviceClock ELSE target
  BY BoundsAssumption DEF TypeOK, CaughtUpClock, Gap, Span
<1> QED
  BY <1>1, <1>2, <1>3 DEF TypeOK, CaughtUpDev, CaughtUpStat

\* A recomputed deadline is a cycle or Never, and nothing is due before it.
LEMMA DeadlineSound ==
  ASSUME NEW d \in DevState, NEW base \in Span
  PROVE  /\ DeadlineOf(d, base) \in Nat \cup {Never}
         /\ \A n \in Span :
              ~ (DeadlineOf(d, base) # Never /\ base + n >= DeadlineOf(d, base))
                => Raised(d, n) = {}
<1>1. NextEvent(d) \in (Nat \ {0}) \cup {Never}
  BY DeviceTypes
<1>2. CASE NextEvent(d) = Never
  BY <1>2, ConservativeDeadline DEF DeadlineOf
<1>3. CASE NextEvent(d) # Never
  <2>1. NextEvent(d) \in Nat /\ DeadlineOf(d, base) = base + NextEvent(d)
    BY <1>1, <1>3 DEF DeadlineOf
  <2>2. base \in Nat /\ DeadlineOf(d, base) \in Nat
    BY <2>1, BoundsAssumption DEF Span
  <2>3. DeadlineOf(d, base) # Never
    BY <2>2, BoundsAssumption
  <2>4. ASSUME NEW n \in Span, ~ (base + n >= DeadlineOf(d, base))
        PROVE  n < NextEvent(d)
    BY <2>1, <2>2, <2>4, BoundsAssumption DEF Span
  <2> QED
    BY <2>2, <2>3, <2>4, ConservativeDeadline
<1> QED
  BY <1>2, <1>3

(***************************************************************************)
(* The inductive invariant.  NoMissedEvent needs the types (a deadline is  *)
(* a number of cycles from deviceClock on), and DevicesFollow keeps the    *)
(* clocks in their range.                                                  *)
(***************************************************************************)
LazyInv == TypeOK /\ DevicesFollow /\ NoMissedEvent

\* The state after the poll of step_cpu_scheduled.
LEMMA PollTypes ==
  ASSUME TypeOK, DevicesFollow, cycles + 1 <= Horizon
  PROVE  /\ Obs \in Span
         /\ PolledDev \in DevState /\ PolledStat \in SUBSET Lines
         /\ PolledClock \in Span /\ PolledClock <= Obs
         /\ PolledDeadline \in Nat \cup {Never}
<1>1. Obs \in Span /\ deviceClock <= Obs /\ cycles \in Nat
  BY BoundsAssumption DEF TypeOK, DevicesFollow, Obs, Span
<1>2. CASE Due(Obs)
  <2>1. CaughtUpClock(Obs) <= Obs
    BY <1>1, CatchUpTypes, BoundsAssumption DEF TypeOK, Span
  <2> QED
    BY <1>1, <1>2, <2>1, CatchUpTypes, DeadlineSound
       DEF PolledDev, PolledStat, PolledClock, PolledDeadline
<1>3. CASE ~ Due(Obs)
  BY <1>1, <1>3 DEF TypeOK, PolledDev, PolledStat, PolledClock, PolledDeadline
<1> QED
  BY <1>2, <1>3

LEMMA InitInv == Init => LazyInv
<1> SUFFICES ASSUME Init PROVE LazyInv
  OBVIOUS
<1>1. 0 \in Span
  BY BoundsAssumption DEF Span
<1>2. TypeOK
  BY <1>1, DeviceTypes DEF Init, TypeOK
<1>3. DevicesFollow
  BY DEF Init, DevicesFollow
<1>4. ASSUME NEW n \in Span PROVE Due(deviceClock + n)
  BY BoundsAssumption DEF Init, Due, Span
<1> QED
  BY <1>2, <1>3, <1>4 DEF LazyInv, NoMissedEvent

(***************************************************************************)
(* One lemma per step of the machine.                                      *)
(***************************************************************************)
LEMMA ScheduledStepInv ==
  ASSUME LazyInv,
         \/ ScheduledInterrupt
         \/ \E extra \in Extras : ScheduledPlain(extra)
         \/ \E a \in IoAccess, extra \in Extras : ScheduledIo(a, extra)
  PROVE  LazyInv'
<1>1. ASSUME NEW extra \in Extras \cup {0}, cycles' = cycles + 1 + extra, cycles' <= Horizon,
             ie' \in BOOLEAN, seen' = {}, dev' = PolledDev, iStat' = PolledStat,
             deviceClock' = PolledClock, nextDeadline' = PolledDeadline,
             schedulerEnabled, UNCHANGED <<iMask, hostVars, schedulerEnabled>>
      PROVE  LazyInv'
  <2>1. extra \in Nat /\ cycles + 1 <= Horizon /\ cycles' \in Span /\ Obs <= cycles'
    BY <1>1, BoundsAssumption DEF LazyInv, TypeOK, Extras, Span, Obs
  <2>2. TypeOK'
    BY <1>1, <2>1, PollTypes DEF LazyInv, TypeOK, hostVars
  <2>3. DevicesFollow'
    BY <1>1, <2>1, PollTypes, BoundsAssumption DEF LazyInv, TypeOK, DevicesFollow, Span, Obs
  <2>4. NoMissedEvent'
    <3>1. CASE Due(Obs)
      <4>1. /\ dev' = CaughtUpDev(Obs) /\ deviceClock' = CaughtUpClock(Obs)
            /\ nextDeadline' = DeadlineOf(CaughtUpDev(Obs), CaughtUpClock(Obs))
        BY <1>1, <3>1 DEF PolledDev, PolledClock, PolledDeadline
      <4>2. Obs \in Span /\ CaughtUpDev(Obs) \in DevState /\ CaughtUpClock(Obs) \in Span
        BY <2>1, PollTypes, CatchUpTypes DEF LazyInv
      <4> QED
        BY <4>1, <4>2, DeadlineSound DEF NoMissedEvent, Due
    <3>2. CASE ~ Due(Obs)
      BY <1>1, <3>2 DEF LazyInv, NoMissedEvent, Due, PolledDev, PolledClock, PolledDeadline
    <3> QED
      BY <3>1, <3>2
  <2> QED
    BY <2>2, <2>3, <2>4 DEF LazyInv
<1>2. CASE ScheduledInterrupt
  <2>1. cycles' = cycles + 1 + 0
    BY <1>2 DEF ScheduledInterrupt, LazyInv, TypeOK, Span
  <2> QED
    BY <1>1, <1>2, <2>1 DEF ScheduledInterrupt
<1>3. ASSUME NEW extra \in Extras, ScheduledPlain(extra) PROVE LazyInv'
  BY <1>1, <1>3 DEF ScheduledPlain
<1>4. ASSUME NEW a \in IoAccess, NEW extra \in Extras, ScheduledIo(a, extra) PROVE LazyInv'
  <2>1. extra \in Nat /\ cycles + 1 <= Horizon /\ cycles' \in Span /\ Obs <= cycles' /\ Obs \in Span
    BY <1>4, BoundsAssumption DEF LazyInv, TypeOK, Extras, Span, Obs, ScheduledIo
  <2>2. /\ CaughtUpDev(Obs) \in DevState /\ CaughtUpStat(Obs) \in SUBSET Lines
        /\ CaughtUpClock(Obs) \in Span /\ CaughtUpClock(Obs) <= Obs
    BY <2>1, CatchUpTypes, BoundsAssumption DEF LazyInv, TypeOK, DevicesFollow, Span, Obs
  <2>3. /\ IoDev(a, CaughtUpDev(Obs)) \in DevState
        /\ IoStat(a, CaughtUpDev(Obs), CaughtUpStat(Obs)) \in SUBSET Lines
        /\ IoMask(a, iMask) \in SUBSET Lines
        /\ IoSeen(a, CaughtUpDev(Obs), CaughtUpStat(Obs)) \in SUBSET Int
    BY <2>2, AccessTypes DEF LazyInv, TypeOK
  <2>4. nextDeadline' \in Nat \cup {Never}
    BY <1>4, <2>2, <2>3, DeadlineSound DEF ScheduledIo
  <2>5. TypeOK'
    BY <1>4, <2>1, <2>2, <2>3, <2>4 DEF LazyInv, TypeOK, ScheduledIo, hostVars
  <2>6. DevicesFollow'
    BY <1>4, <2>1, <2>2, BoundsAssumption DEF ScheduledIo, DevicesFollow, Span
  <2>7. NoMissedEvent'
    BY <1>4, <2>2, <2>3, DeadlineSound DEF ScheduledIo, NoMissedEvent, Due
  <2> QED
    BY <2>5, <2>6, <2>7 DEF LazyInv
<1> QED
  BY <1>2, <1>3, <1>4

LEMMA NaiveStepInv ==
  ASSUME LazyInv,
         \/ NaiveInterrupt
         \/ \E a \in IoAccess \cup {NoIo}, extra \in Extras : NaiveExecute(a, extra)
  PROVE  LazyInv'
<1>1. ASSUME cycles + 1 <= Horizon
      PROVE  NaiveDev \in DevState /\ NaiveStat \in SUBSET Lines
  <2>1. 1 \in Span
    BY <1>1, BoundsAssumption DEF LazyInv, TypeOK, Span
  <2> QED
    BY <2>1, DeviceTypes DEF LazyInv, TypeOK, NaiveDev, NaiveStat
<1>2. CASE NaiveInterrupt
  <2>1. cycles' \in Span /\ cycles' = cycles + 1 /\ deviceClock' = cycles'
    BY <1>2, BoundsAssumption DEF NaiveInterrupt, LazyInv, TypeOK, Span
  <2>2. TypeOK'
    <3>1. NaiveDev \in DevState /\ NaiveStat \in SUBSET Lines
      BY <1>1, <1>2 DEF NaiveInterrupt
    <3> QED
      BY <1>2, <2>1, <3>1 DEF NaiveInterrupt, LazyInv, TypeOK, hostVars
  <2>3. deviceClock' <= cycles' /\ ~ schedulerEnabled'
    BY <1>2, <2>1, BoundsAssumption DEF NaiveInterrupt, Span
  <2> QED
    BY <2>1, <2>2, <2>3 DEF LazyInv, DevicesFollow, NoMissedEvent
<1>3. ASSUME NEW a \in IoAccess \cup {NoIo}, NEW extra \in Extras, NaiveExecute(a, extra)
      PROVE  LazyInv'
  <2>1. /\ extra \in Span /\ cycles + 1 <= Horizon /\ cycles' \in Span
        /\ deviceClock' = cycles' /\ ~ schedulerEnabled'
    BY <1>3, BoundsAssumption DEF NaiveExecute, LazyInv, TypeOK, Extras, Span
  <2>2. NaiveDev \in DevState /\ NaiveStat \in SUBSET Lines
    BY <1>1, <2>1
  <2>3. /\ IoDev(a, NaiveDev) \in DevState
        /\ IoStat(a, NaiveDev, NaiveStat) \in SUBSET Lines
        /\ IoMask(a, iMask) \in SUBSET Lines
        /\ IoSeen(a, NaiveDev, NaiveStat) \in SUBSET Int
    BY <2>2, AccessTypes DEF LazyInv, TypeOK
  <2>4. dev' \in DevState /\ iStat' \in SUBSET Lines
    BY <1>3, <2>1, <2>3, DeviceTypes DEF NaiveExecute
  <2>5. TypeOK'
    BY <1>3, <2>1, <2>3, <2>4 DEF LazyInv, TypeOK, NaiveExecute, hostVars
  <2> QED
    BY <2>1, <2>5, BoundsAssumption DEF LazyInv, DevicesFollow, NoMissedEvent, Span
<1> QED
  BY <1>2, <1>3

LEMMA HostInv ==
  ASSUME LazyInv,
         \/ BeginFrame \/ EndFrame \/ SyncDevices \/ SaveState \/ LoadState
         \/ \E a \in IoAccess : OneOff(a)
         \/ \E c \in Pokes : HostPoke(c)
         \/ \E b \in BOOLEAN : SetSchedulerEnabled(b)
  PROVE  LazyInv'
<1>1. TypeOK /\ cycles \in Span /\ cycles \in Nat /\ deviceClock <= cycles
  BY BoundsAssumption DEF LazyInv, TypeOK, DevicesFollow, Span
<1>2. /\ CaughtUpDev(cycles) \in DevState /\ CaughtUpStat(cycles) \in SUBSET Lines
      /\ CaughtUpClock(cycles) = cycles
  BY <1>1, CatchUpTypes, BoundsAssumption DEF TypeOK, Span
<1>3. CASE BeginFrame
  <2>1. frameEnd' \in Span
    BY <1>1, <1>3, BoundsAssumption DEF BeginFrame, Span
  <2> QED
    BY <1>1, <1>3, <2>1
       DEF BeginFrame, LazyInv, TypeOK, DevicesFollow, NoMissedEvent, Due, cpuVars, clockVars
<1>4. CASE EndFrame
  BY <1>4, BoundsAssumption
     DEF EndFrame, LazyInv, TypeOK, DevicesFollow, NoMissedEvent, Due, cpuVars, clockVars
<1>5. ASSUME CatchUpAll, UNCHANGED <<cpuVars, iMask, frameEnd, schedulerEnabled>>,
             seen' \in SUBSET Int,
             snap' \in {snap, Snapshot(CaughtUpDev(cycles), CaughtUpStat(cycles))}
      PROVE  LazyInv'
  <2>1. nextDeadline' \in Nat \cup {Never}
    BY <1>1, <1>2, <1>5, DeadlineSound DEF CatchUpAll
  <2>2. snap' \in [cycles : Span, ie : BOOLEAN, dev : DevState,
                   iStat : SUBSET Lines, iMask : SUBSET Lines] \cup {None}
    BY <1>1, <1>2, <1>5 DEF TypeOK, Snapshot
  <2>3. TypeOK'
    BY <1>1, <1>2, <1>5, <2>1, <2>2 DEF TypeOK, CatchUpAll, cpuVars
  <2>4. DevicesFollow'
    BY <1>1, <1>2, <1>5 DEF DevicesFollow, CatchUpAll, cpuVars
  <2>5. NoMissedEvent'
    BY <1>1, <1>2, <1>5, DeadlineSound DEF NoMissedEvent, Due, CatchUpAll
  <2> QED
    BY <2>3, <2>4, <2>5 DEF LazyInv
<1>6. CASE SyncDevices
  BY <1>1, <1>5, <1>6 DEF SyncDevices, hostVars, TypeOK
<1>7. CASE SaveState
  BY <1>5, <1>7 DEF SaveState
<1>8. ASSUME nextDeadline' = 0, TypeOK', DevicesFollow' PROVE LazyInv'
  <2>1. deviceClock' \in Nat
    BY <1>8, BoundsAssumption DEF TypeOK, Span
  <2>2. 0 # Never
    BY BoundsAssumption
  <2>3. \A d \in Nat, n \in Span : d + n >= 0
    BY BoundsAssumption DEF Span
  <2>4. \A n \in Span : deviceClock' + n >= nextDeadline'
    BY <1>8, <2>1, <2>3, Zenon
  <2> QED
    BY <1>8, <2>2, <2>4 DEF LazyInv, NoMissedEvent, Due
<1>9. CASE LoadState
  <2>1. snap \in [cycles : Span, ie : BOOLEAN, dev : DevState,
                  iStat : SUBSET Lines, iMask : SUBSET Lines]
    BY <1>1, <1>9 DEF LoadState, TypeOK
  <2>2. TypeOK' /\ DevicesFollow'
    BY <1>1, <1>9, <2>1, BoundsAssumption DEF LoadState, TypeOK, DevicesFollow, Span
  <2> QED
    BY <1>8, <1>9, <2>2 DEF LoadState
<1>10. ASSUME NEW b \in BOOLEAN, SetSchedulerEnabled(b) PROVE LazyInv'
  <2>1. TypeOK' /\ DevicesFollow' /\ nextDeadline' = 0
    BY <1>1, <1>2, <1>10 DEF SetSchedulerEnabled, TypeOK, DevicesFollow, cpuVars, hostVars
  <2> QED
    BY <1>8, <2>1
<1>11. ASSUME NEW c \in Pokes, HostPoke(c) PROVE LazyInv'
  <2>1. Poke(c, dev) \in DevState
    BY <1>1, DeviceTypes DEF TypeOK
  <2>2. TypeOK' /\ DevicesFollow'
    BY <1>1, <1>11, <2>1
       DEF LazyInv, HostPoke, TypeOK, DevicesFollow, cpuVars, hostVars, clockVars
  <2>3. \A n \in Span : Raised(dev', n) = Raised(dev, n)
    BY <1>1, <1>11, PokesCommute DEF HostPoke, TypeOK
  <2>4. NoMissedEvent'
    BY <1>11, <2>3 DEF LazyInv, HostPoke, NoMissedEvent, Due, clockVars
  <2> QED
    BY <2>2, <2>4 DEF LazyInv
<1>12. ASSUME NEW a \in IoAccess, OneOff(a) PROVE LazyInv'
  <2>1. OneOffDev \in DevState /\ OneOffStat \in SUBSET Lines
    BY <1>1, <1>2 DEF TypeOK, OneOffDev, OneOffStat
  <2>2. /\ dev' \in DevState /\ iStat' \in SUBSET Lines /\ iMask' \in SUBSET Lines
        /\ seen' \in SUBSET Int
    BY <1>1, <1>12, <2>1, AccessTypes DEF OneOff, TypeOK
  <2>3. CASE schedulerEnabled
    <3>1. deviceClock' = cycles /\ nextDeadline' = DeadlineOf(dev', cycles)
      BY <1>2, <1>12, <2>3 DEF OneOff
    <3>2. nextDeadline' \in Nat \cup {Never} /\ NoMissedEvent'
      BY <1>1, <2>2, <3>1, DeadlineSound DEF NoMissedEvent, Due
    <3> QED
      BY <1>1, <1>12, <2>2, <2>3, <3>1, <3>2
         DEF OneOff, LazyInv, TypeOK, DevicesFollow, hostVars
  <2>4. CASE ~ schedulerEnabled
    BY <1>1, <1>12, <2>2, <2>4
       DEF OneOff, LazyInv, TypeOK, DevicesFollow, NoMissedEvent, hostVars, clockVars
  <2> QED
    BY <2>3, <2>4
<1> QED
  BY <1>3, <1>4, <1>6, <1>7, <1>9, <1>10, <1>11, <1>12

LEMMA NextInv == LazyInv /\ [Next]_vars => LazyInv'
<1> SUFFICES ASSUME LazyInv, [Next]_vars PROVE LazyInv'
  OBVIOUS
<1>1. CASE Step
  BY <1>1, ScheduledStepInv, NaiveStepInv DEF Step
<1>2. CASE UNCHANGED vars
  BY <1>2 DEF vars, cpuVars, hostVars, clockVars, LazyInv, TypeOK, DevicesFollow,
              NoMissedEvent, Due
<1> QED
  BY <1>1, <1>2, HostInv DEF Next, StepCpu, FrameRuns

\* The inductive invariant holds throughout.
THEOREM LazyInvariant == Spec => []LazyInv
  BY InitInv, NextInv, PTL DEF Spec

\* Every variable keeps its type, whatever the devices and the bounds.
THEOREM TypesHold == Spec => []TypeOK
<1>1. LazyInv => TypeOK
  BY DEF LazyInv
<1> QED
  BY <1>1, LazyInvariant, PTL

\* The devices never overtake the CPU (catch_up_devices, step_cpu_*).
THEOREM DevicesNeverAhead == Spec => []DevicesFollow
<1>1. LazyInv => DevicesFollow
  BY DEF LazyInv
<1> QED
  BY <1>1, LazyInvariant, PTL

\* Below the cached deadline no device bit of I_STAT is outstanding, so the
\* poll of step_cpu_scheduled that skips the catch-up misses none.
THEOREM NoEventIsMissed == Spec => []NoMissedEvent
<1>1. LazyInv => NoMissedEvent
  BY DEF LazyInv
<1> QED
  BY <1>1, LazyInvariant, PTL

\* One step moves the clock on by an instruction and its wait states at most.
LEMMA StepIsShort ==
  ASSUME TypeOK, Step
  PROVE  cycles' <= cycles + 1 + MaxExtra /\ UNCHANGED frameEnd
<1>1. cycles \in Nat /\ MaxExtra \in Nat /\ Extras = 0..MaxExtra
  BY BoundsAssumption DEF TypeOK, Span, Extras
<1>2. CASE ScheduledInterrupt
  BY <1>1, <1>2 DEF ScheduledInterrupt, hostVars
<1>3. ASSUME NEW extra \in Extras, ScheduledPlain(extra)
      PROVE  cycles' <= cycles + 1 + MaxExtra /\ UNCHANGED frameEnd
  BY <1>1, <1>3 DEF ScheduledPlain, hostVars
<1>4. ASSUME NEW a \in IoAccess, NEW extra \in Extras, ScheduledIo(a, extra)
      PROVE  cycles' <= cycles + 1 + MaxExtra /\ UNCHANGED frameEnd
  <2>1. cycles' = cycles + 1 + extra /\ UNCHANGED frameEnd
    BY <1>4 DEF ScheduledIo, hostVars
  <2> QED BY <1>1, <2>1
<1>5. CASE NaiveInterrupt
  BY <1>1, <1>5 DEF NaiveInterrupt, hostVars
<1>6. ASSUME NEW a \in IoAccess \cup {NoIo}, NEW extra \in Extras, NaiveExecute(a, extra)
      PROVE  cycles' <= cycles + 1 + MaxExtra /\ UNCHANGED frameEnd
  <2>1. cycles' = cycles + 1 + extra /\ UNCHANGED frameEnd
    BY <1>6 DEF NaiveExecute, hostVars
  <2> QED BY <1>1, <2>1
<1> QED
  BY <1>2, <1>3, <1>4, <1>5, <1>6 DEF Step

LEMMA OverrunStaysBounded ==
  ASSUME TypeOK, FrameOverrunBounded, [Next]_vars
  PROVE  FrameOverrunBounded'
<1>0. cycles \in Nat /\ MaxExtra \in Nat /\ FrameCycles \in Nat /\ Horizon \in Nat
  BY BoundsAssumption DEF TypeOK, Span
<1>1. CASE StepCpu
  <2>1. UNCHANGED frameEnd
    BY <1>1, StepIsShort DEF StepCpu
  <2> QED BY <1>1, <2>1 DEF StepCpu, AtRest, FrameOverrunBounded
<1>2. CASE FrameRuns
  <2>1. cycles' <= cycles + 1 + MaxExtra /\ UNCHANGED frameEnd
    BY <1>2, StepIsShort DEF FrameRuns
  <2>2. frameEnd \in Nat /\ cycles < frameEnd
    BY <1>0, <1>2 DEF FrameRuns, TypeOK, Span
  <2>3. cycles' \in Int
    BY <1>2, <1>0, BoundsAssumption
       DEF FrameRuns, Step, ScheduledInterrupt, ScheduledPlain, ScheduledIo,
           NaiveInterrupt, NaiveExecute, Extras
  <2> QED BY <1>0, <2>1, <2>2, <2>3 DEF FrameOverrunBounded
<1>3. CASE EndFrame
  BY <1>3 DEF EndFrame, FrameOverrunBounded
<1>4. CASE BeginFrame
  BY <1>0, <1>4 DEF BeginFrame, cpuVars, FrameOverrunBounded
<1>5. CASE LoadState
  BY <1>5 DEF LoadState, AtRest, FrameOverrunBounded
<1>6. CASE \/ \E a \in IoAccess : OneOff(a)
           \/ \E c \in Pokes : HostPoke(c)
           \/ \E b \in BOOLEAN : SetSchedulerEnabled(b)
           \/ SyncDevices \/ SaveState \/ UNCHANGED vars
  <2>1. UNCHANGED <<cycles, frameEnd>>
    BY <1>6 DEF OneOff, HostPoke, SetSchedulerEnabled, SyncDevices, SaveState,
                cpuVars, hostVars, vars
  <2> QED BY <2>1 DEF FrameOverrunBounded
<1> QED
  BY <1>1, <1>2, <1>3, <1>4, <1>5, <1>6 DEF Next

\* However devices, wait states and interrupts fall, advance_frame stops
\* within an instruction of its budget (its wait states at most past it).
THEOREM FramesKeepTheirBudget == Spec => []FrameOverrunBounded
<1>1. Init => FrameOverrunBounded
  BY DEF Init, FrameOverrunBounded
<1> QED
  BY <1>1, OverrunStaysBounded, TypesHold, PTL DEF Spec

(***************************************************************************)
(* Refinement: the lazy machine implements the reference loop.             *)
(***************************************************************************)
\* The bus is the same on both sides of the mapping.
LEMMA SameBus ==
  /\ Reference!IoAccess = IoAccess /\ Reference!NoIo = NoIo /\ Reference!Extras = Extras
  /\ \A a, d : Reference!IoDev(a, d) = IoDev(a, d)
  /\ \A a, d, stat : Reference!IoStat(a, d, stat) = IoStat(a, d, stat)
  /\ \A a, d, stat : Reference!IoSeen(a, d, stat) = IoSeen(a, d, stat)
  /\ \A a, mask : Reference!IoMask(a, mask) = IoMask(a, mask)
  /\ \A stat, mask, e : Reference!TakesInterrupt(stat, mask, e) = TakesInterrupt(stat, mask, e)
  BY DEF Reference!IoAccess, Reference!NoIo, Reference!Extras, Reference!IoDev,
         Reference!IoStat, Reference!IoSeen, Reference!IoMask, Reference!TakesInterrupt,
         Reference!DeviceIo, Reference!IrqIo,
         IoAccess, NoIo, Extras, IoDev, IoStat, IoSeen, IoMask, TakesInterrupt, DeviceIo, IrqIo

\* The lag is what a catch-up to the CPU's cycle, or to the observation cycle,
\* makes up for.
LEMMA LagIsGap ==
  ASSUME LazyInv
  PROVE  /\ Lag \in Span /\ Lag = cycles - deviceClock /\ Gap(cycles) = Lag
         /\ cycles + 1 <= Horizon => Gap(Obs) = Lag + 1 /\ Lag + 1 \in Span
  BY BoundsAssumption DEF LazyInv, TypeOK, DevicesFollow, Lag, Gap, Obs, Span

\* The reference loop's tick of one is the catch-up to the observation cycle.
LEMMA TickIsCatchUp ==
  ASSUME LazyInv, cycles + 1 <= Horizon
  PROVE  /\ Reference!TickedDev = CaughtUpDev(Obs)
         /\ Reference!TickedStat = CaughtUpStat(Obs)
<1>1. Lag \in Span /\ 1 \in Span /\ Lag + 1 <= Horizon /\ Gap(Obs) = Lag + 1 /\ dev \in DevState
  BY LagIsGap, BoundsAssumption DEF LazyInv, TypeOK, Span
<1>2. /\ Advance(dev, Lag + 1) = Advance(Advance(dev, Lag), 1)
      /\ Raised(dev, Lag + 1) = Raised(dev, Lag) \cup Raised(Advance(dev, Lag), 1)
  BY <1>1, BatchedTick
<1> QED
  BY <1>1, <1>2 DEF Reference!TickedDev, Reference!TickedStat, TrueDev, TrueStat,
                    CaughtUpDev, CaughtUpStat

\* A poll made below the deadline, without a catch-up, sees the true I_STAT.
LEMMA PollIsTrue ==
  ASSUME LazyInv, schedulerEnabled, cycles + 1 <= Horizon
  PROVE  PolledStat = CaughtUpStat(Obs)
<1>1. CASE Due(Obs)
  BY <1>1 DEF PolledStat
<1>2. CASE ~ Due(Obs)
  <2>1. Gap(Obs) \in Span /\ deviceClock + Gap(Obs) = Obs
    BY LagIsGap, BoundsAssumption DEF LazyInv, TypeOK, Obs, Span
  <2>2. Raised(dev, Gap(Obs)) = {}
    BY <1>2, <2>1 DEF LazyInv, NoMissedEvent
  <2> QED
    BY <1>2, <2>2 DEF PolledStat, CaughtUpStat
<1> QED
  BY <1>1, <1>2

LEMMA SplitTick ==
  ASSUME NEW d \in DevState, NEW m \in Span, NEW n \in Span, m + n <= Horizon
  PROVE  /\ Advance(d, m + n) = Advance(Advance(d, m), n)
         /\ Raised(d, m + n) = Raised(d, m) \cup Raised(Advance(d, m), n)
  BY BatchedTick

\* From the poll to the end of the instruction the devices may wait: ticking
\* them later, in one batch, gives what the reference ticks gave.
LEMMA LateTick ==
  ASSUME LazyInv, NEW extra \in Nat, cycles + 1 + extra <= Horizon
  PROVE  LET k == cycles + 1 + extra - PolledClock
         IN  /\ k \in Nat
             /\ Advance(PolledDev, k) = Advance(CaughtUpDev(Obs), extra)
             /\ PolledStat \cup Raised(PolledDev, k)
                  = CaughtUpStat(Obs) \cup Raised(CaughtUpDev(Obs), extra)
<1> DEFINE k == cycles + 1 + extra - PolledClock
<1>1. /\ cycles + 1 <= Horizon /\ Obs \in Span /\ extra \in Span /\ dev \in DevState
      /\ deviceClock <= Obs /\ Obs = cycles + 1 /\ cycles \in Nat /\ deviceClock \in Nat
  BY BoundsAssumption DEF LazyInv, TypeOK, DevicesFollow, Obs, Span
<1>2. CASE Due(Obs)
  <2>1. PolledClock = Obs
    BY <1>1, <1>2, CatchUpTypes DEF LazyInv, PolledClock, Span
  <2>2. k = extra
    BY <1>1, <2>1
  <2> QED
    BY <1>2, <2>2 DEF PolledDev, PolledStat
<1>3. CASE ~ Due(Obs)
  <2>1. PolledClock = deviceClock /\ PolledDev = dev /\ PolledStat = iStat
    BY <1>3 DEF PolledClock, PolledDev, PolledStat
  <2>2. /\ Gap(Obs) \in Span /\ k = Gap(Obs) + extra /\ Gap(Obs) + extra <= Horizon
        /\ k \in Nat
    BY <1>1, <2>1, LagIsGap, BoundsAssumption DEF Span
  <2> HIDE DEF k
  <2>3. /\ Advance(dev, Gap(Obs) + extra) = Advance(Advance(dev, Gap(Obs)), extra)
        /\ Raised(dev, Gap(Obs) + extra)
             = Raised(dev, Gap(Obs)) \cup Raised(Advance(dev, Gap(Obs)), extra)
    <3>1. dev \in DevState /\ extra \in Span
      BY <1>1
    <3>2. Gap(Obs) \in Span /\ Gap(Obs) + extra <= Horizon
      BY <2>2
    <3> QED
      BY <3>1, <3>2, SplitTick
  <2>4. Advance(PolledDev, k) = Advance(CaughtUpDev(Obs), extra)
    BY <2>1, <2>2, <2>3 DEF CaughtUpDev
  <2>5. PolledStat \cup Raised(PolledDev, k)
          = CaughtUpStat(Obs) \cup Raised(CaughtUpDev(Obs), extra)
    BY <2>1, <2>2, <2>3 DEF CaughtUpDev, CaughtUpStat
  <2> QED
    BY <2>2, <2>4, <2>5 DEF k
<1> QED
  BY <1>2, <1>3

\* The instruction steps, naive or scheduled, map to the reference loop's.
LEMMA ScheduledRefines ==
  ASSUME LazyInv,
         \/ ScheduledInterrupt
         \/ \E extra \in Extras : ScheduledPlain(extra)
         \/ \E a \in IoAccess, extra \in Extras : ScheduledIo(a, extra)
  PROVE  Reference!Step
<1>1. /\ cycles \in Nat /\ Extras \subseteq Nat
      /\ cycles + 1 <= Horizon => PolledClock <= Obs /\ PolledClock \in Nat
  BY PollTypes, BoundsAssumption DEF LazyInv, TypeOK, Span, Extras
<1>2. ASSUME NEW extra \in Nat, cycles' = cycles + 1 + extra, cycles + 1 + extra <= Horizon,
             dev' = PolledDev, iStat' = PolledStat, deviceClock' = PolledClock
      PROVE  /\ TrueDev' = Advance(CaughtUpDev(Obs), extra)
             /\ TrueStat' = CaughtUpStat(Obs) \cup Raised(CaughtUpDev(Obs), extra)
  <2>1. PolledClock \in Nat /\ PolledClock <= cycles + 1
    BY <1>1, <1>2, BoundsAssumption DEF Obs
  <2>2. Lag' = IF cycles + 1 + extra <= PolledClock THEN 0 ELSE cycles + 1 + extra - PolledClock
    BY <1>1, <1>2, <2>1 DEF Lag
  <2>3. Lag' = cycles + 1 + extra - PolledClock
    BY <1>1, <2>1, <2>2
  <2> QED
    BY <1>2, <2>3, LateTick DEF TrueDev, TrueStat
<1>3. CASE ScheduledInterrupt
  <2>1. cycles' = cycles + 1 + 0 /\ cycles + 1 + 0 <= Horizon /\ 0 \in Nat
    BY <1>1, <1>3 DEF ScheduledInterrupt
  <2>2. CaughtUpDev(Obs) \in DevState
    BY <1>1, <1>3, CatchUpTypes, PollTypes DEF LazyInv, ScheduledInterrupt
  <2>3. /\ TrueDev' = Reference!TickedDev /\ TrueStat' = Reference!TickedStat
        /\ PolledStat = Reference!TickedStat
    <3>1. /\ TrueDev' = Advance(CaughtUpDev(Obs), 0)
          /\ TrueStat' = CaughtUpStat(Obs) \cup Raised(CaughtUpDev(Obs), 0)
      BY <1>2, <1>3, <2>1 DEF ScheduledInterrupt
    <3> QED
      BY <1>3, <2>2, <3>1, EmptyTick, TickIsCatchUp, PollIsTrue DEF ScheduledInterrupt
  <2>4. Reference!TakeInterrupt
    BY <1>3, <2>3, SameBus
       DEF ScheduledInterrupt, Reference!TakeInterrupt, Reference!hostVars, hostVars
  <2> QED
    BY <2>4 DEF Reference!Step
<1>4. ASSUME NEW extra \in Extras, ScheduledPlain(extra) PROVE Reference!Step
  <2>1. extra \in Nat /\ cycles + 1 <= Horizon /\ cycles + 1 + extra <= Horizon
    BY <1>1, <1>4, BoundsAssumption DEF ScheduledPlain
  <2>2. /\ TrueDev' = Advance(CaughtUpDev(Obs), extra)
        /\ TrueStat' = CaughtUpStat(Obs) \cup Raised(CaughtUpDev(Obs), extra)
    BY <1>2, <1>4, <2>1 DEF ScheduledPlain
  <2>3. PolledStat = Reference!TickedStat /\ CaughtUpStat(Obs) = Reference!TickedStat
        /\ CaughtUpDev(Obs) = Reference!TickedDev
    BY <1>4, <2>1, PollIsTrue, TickIsCatchUp DEF ScheduledPlain
  <2>4. /\ \A d : IoDev(NoIo, d) = d
        /\ \A d, stat : IoStat(NoIo, d, stat) = stat
        /\ \A d, stat : IoSeen(NoIo, d, stat) = {}
        /\ IoMask(NoIo, iMask) = iMask
        /\ NoIo.reg = "none"
    BY DEF NoIo, IoDev, IoStat, IoSeen, IoMask
  <2>5. Reference!Execute(Reference!NoIo, extra)
    BY <1>4, <2>2, <2>3, <2>4, SameBus
       DEF ScheduledPlain, Reference!Execute, Reference!hostVars, hostVars
  <2> QED
    BY <1>4, <2>5, SameBus DEF Reference!Step
<1>5. ASSUME NEW a \in IoAccess, NEW extra \in Extras, ScheduledIo(a, extra)
      PROVE  Reference!Step
  <2>1. extra \in Nat /\ cycles + 1 <= Horizon /\ cycles + 1 + extra <= Horizon
    BY <1>1, <1>5, BoundsAssumption DEF ScheduledIo
  <2>2. CaughtUpClock(Obs) = Obs /\ Obs = cycles + 1
    BY <1>1, <2>1, CatchUpTypes, PollTypes, BoundsAssumption
       DEF LazyInv, TypeOK, DevicesFollow, Obs, Span
  <2>3. Lag' = extra
    BY <1>1, <1>5, <2>1, <2>2 DEF Lag, ScheduledIo
  <2>4. PolledStat = Reference!TickedStat /\ CaughtUpStat(Obs) = Reference!TickedStat
        /\ CaughtUpDev(Obs) = Reference!TickedDev
    BY <1>5, <2>1, PollIsTrue, TickIsCatchUp DEF ScheduledIo
  <2>5. /\ TrueDev' = Advance(IoDev(a, Reference!TickedDev), extra)
        /\ TrueStat' = IoStat(a, Reference!TickedDev, Reference!TickedStat)
                         \cup Raised(IoDev(a, Reference!TickedDev), extra)
    BY <1>5, <2>3, <2>4 DEF TrueDev, TrueStat, ScheduledIo
  <2>6. Reference!Execute(a, extra)
    BY <1>5, <2>4, <2>5, SameBus
       DEF ScheduledIo, LazyInv, TypeOK, Reference!Execute, Reference!hostVars, hostVars
  <2> QED
    BY <1>5, <2>6, SameBus DEF Reference!Step
<1> QED
  BY <1>3, <1>4, <1>5

LEMMA NaiveRefines ==
  ASSUME LazyInv,
         \/ NaiveInterrupt
         \/ \E a \in IoAccess \cup {NoIo}, extra \in Extras : NaiveExecute(a, extra)
  PROVE  Reference!Step
<1>1. /\ cycles \in Nat /\ Extras \subseteq Nat /\ ~ schedulerEnabled
      /\ dev \in DevState /\ Lag = 0
  BY LagIsGap, BoundsAssumption
     DEF LazyInv, TypeOK, DevicesFollow, Span, Extras, NaiveInterrupt, NaiveExecute
<1>2. Reference!TickedDev = NaiveDev /\ Reference!TickedStat = NaiveStat
  BY <1>1, EmptyTick DEF Reference!TickedDev, Reference!TickedStat, TrueDev, TrueStat,
                         NaiveDev, NaiveStat
<1>3. LazyInv'
  BY NaiveStepInv
<1>4. deviceClock' = cycles'
  BY <1>3, <1>1 DEF LazyInv, DevicesFollow, NaiveInterrupt, NaiveExecute
<1>5. TrueDev' = dev' /\ TrueStat' = iStat'
  <2>0. cycles' \in Nat /\ dev' \in DevState
    BY <1>3, BoundsAssumption DEF LazyInv, TypeOK, Span
  <2>1. \A c \in Nat : c <= c
    OBVIOUS
  <2>2. Lag' = 0 /\ dev' \in DevState
    BY <1>4, <2>0, <2>1, Zenon DEF Lag
  <2> QED
    BY <2>2, EmptyTick DEF TrueDev, TrueStat
<1>6. CASE NaiveInterrupt
  <2>1. Reference!TakeInterrupt
    BY <1>2, <1>5, <1>6, SameBus
       DEF NaiveInterrupt, Reference!TakeInterrupt, Reference!hostVars, hostVars
  <2> QED
    BY <2>1 DEF Reference!Step
<1>7. ASSUME NEW a \in IoAccess \cup {NoIo}, NEW extra \in Extras, NaiveExecute(a, extra)
      PROVE  Reference!Step
  <2>1. Reference!Execute(a, extra)
    BY <1>2, <1>5, <1>7, SameBus
       DEF NaiveExecute, Reference!Execute, Reference!hostVars, hostVars
  <2> QED
    BY <1>7, <2>1, SameBus DEF Reference!Step
<1> QED
  BY <1>6, <1>7

\* The host's calls: a catch-up is invisible, the rest map one to one.
LEMMA HostRefines ==
  ASSUME LazyInv,
         \/ BeginFrame \/ EndFrame \/ SyncDevices \/ SaveState \/ LoadState
         \/ \E a \in IoAccess : OneOff(a)
         \/ \E c \in Pokes : HostPoke(c)
         \/ \E b \in BOOLEAN : SetSchedulerEnabled(b)
  PROVE  Reference!Next \/ UNCHANGED Reference!vars
<1>1. LazyInv' /\ cycles \in Nat /\ deviceClock \in Nat /\ dev \in DevState /\ Lag \in Span
  BY HostInv, LagIsGap, BoundsAssumption DEF LazyInv, TypeOK, Span
<1>2. /\ CaughtUpDev(cycles) = TrueDev /\ CaughtUpStat(cycles) = TrueStat
      /\ CaughtUpClock(cycles) = cycles /\ TrueDev \in DevState
  <2>1. cycles \in Span /\ deviceClock <= cycles /\ Gap(cycles) = Lag
    BY LagIsGap DEF LazyInv, TypeOK, DevicesFollow
  <2>2. CaughtUpClock(cycles) = cycles
    BY <1>1, <2>1, CatchUpTypes DEF LazyInv
  <2>3. CaughtUpDev(cycles) = TrueDev /\ CaughtUpStat(cycles) = TrueStat
    BY <2>1 DEF TrueDev, TrueStat, CaughtUpDev, CaughtUpStat
  <2> QED
    BY <1>1, <2>2, <2>3, DeviceTypes DEF TrueDev
\* Once the devices have caught up there is no lag to map away.
<1>3. ASSUME deviceClock' = cycles' PROVE TrueDev' = dev' /\ TrueStat' = iStat'
  <2>1. cycles' \in Nat /\ dev' \in DevState
    BY <1>1, BoundsAssumption DEF LazyInv, TypeOK, Span
  <2>2. \A c \in Nat : c <= c
    OBVIOUS
  <2>3. Lag' = 0
    BY <1>3, <2>1, <2>2, Zenon DEF Lag
  <2> QED
    BY <2>1, <2>3, EmptyTick DEF TrueDev, TrueStat
<1>4. ASSUME UNCHANGED <<cycles, deviceClock>> PROVE Lag' = Lag
  BY <1>4 DEF Lag
<1>5. CASE BeginFrame
  <2>1. TrueDev' = TrueDev /\ TrueStat' = TrueStat
    BY <1>4, <1>5 DEF BeginFrame, cpuVars, clockVars, TrueDev, TrueStat
  <2>2. Reference!BeginFrame
    BY <1>5, <2>1 DEF BeginFrame, cpuVars, AtRest, Reference!BeginFrame, Reference!AtRest
  <2> QED
    BY <2>2 DEF Reference!Next
<1>6. CASE EndFrame
  <2>1. TrueDev' = TrueDev /\ TrueStat' = TrueStat \cup {VBlank}
    BY <1>4, <1>6 DEF EndFrame, cpuVars, clockVars, TrueDev, TrueStat
  <2>2. Reference!EndFrame
    BY <1>6, <2>1 DEF EndFrame, cpuVars, Reference!EndFrame
  <2> QED
    BY <2>2 DEF Reference!Next
<1>7. CASE SyncDevices
  <2>1. TrueDev' = TrueDev /\ TrueStat' = TrueStat
    BY <1>2, <1>3, <1>7 DEF SyncDevices, CatchUpAll, cpuVars
  <2> QED
    BY <1>7, <2>1 DEF SyncDevices, cpuVars, hostVars, Reference!vars
<1>8. CASE SaveState
  <2>1. TrueDev' = TrueDev /\ TrueStat' = TrueStat
    BY <1>2, <1>3, <1>8 DEF SaveState, CatchUpAll, cpuVars
  <2>2. Reference!SaveState
    BY <1>2, <1>8, <2>1 DEF SaveState, cpuVars, AtRest, Snapshot,
                            Reference!SaveState, Reference!AtRest, Reference!Snapshot
  <2> QED
    BY <2>2 DEF Reference!Next
<1>9. CASE LoadState
  <2>1. TrueDev' = snap.dev /\ TrueStat' = snap.iStat
    BY <1>3, <1>9 DEF LoadState
  <2>2. Reference!LoadState
    BY <1>9, <2>1 DEF LoadState, AtRest, Reference!LoadState, Reference!AtRest
  <2> QED
    BY <2>2 DEF Reference!Next
<1>10. ASSUME NEW a \in IoAccess, OneOff(a) PROVE Reference!Next
  <2>1. OneOffDev = TrueDev /\ OneOffStat = TrueStat /\ deviceClock' = cycles'
    <3>1. CASE schedulerEnabled
      BY <1>2, <1>10, <3>1 DEF OneOff, OneOffDev, OneOffStat
    <3>2. CASE ~ schedulerEnabled
      <4>1. deviceClock = cycles /\ deviceClock' = cycles'
        BY <1>10, <3>2 DEF OneOff, LazyInv, DevicesFollow, clockVars
      <4>2. Lag = 0
        BY <1>1, <4>1 DEF Lag
      <4> QED
        BY <1>1, <3>2, <4>1, <4>2, EmptyTick DEF OneOffDev, OneOffStat, TrueDev, TrueStat
    <3> QED
      BY <3>1, <3>2
  <2>2. Reference!OneOff(a)
    BY <1>3, <1>10, <2>1, SameBus
       DEF OneOff, AtRest, hostVars, Reference!OneOff, Reference!AtRest, Reference!hostVars
  <2> QED
    BY <1>10, <2>2, SameBus DEF Reference!Next
<1>11. ASSUME NEW c \in Pokes, HostPoke(c) PROVE Reference!Next
  <2>1. TrueDev' = Poke(c, TrueDev) /\ TrueStat' = TrueStat
    BY <1>1, <1>4, <1>11, PokesCommute DEF HostPoke, cpuVars, clockVars, TrueDev, TrueStat
  <2>2. Reference!HostPoke(c)
    BY <1>11, <2>1 DEF HostPoke, AtRest, cpuVars, hostVars,
                       Reference!HostPoke, Reference!AtRest, Reference!hostVars
  <2> QED
    BY <1>11, <2>2 DEF Reference!Next
<1>12. ASSUME NEW b \in BOOLEAN, SetSchedulerEnabled(b) PROVE UNCHANGED Reference!vars
  <2>1. TrueDev' = TrueDev /\ TrueStat' = TrueStat
    BY <1>2, <1>3, <1>12 DEF SetSchedulerEnabled, cpuVars
  <2> QED
    BY <1>12, <2>1 DEF SetSchedulerEnabled, cpuVars, hostVars, Reference!vars
<1> QED
  BY <1>5, <1>6, <1>7, <1>8, <1>9, <1>10, <1>11, <1>12

LEMMA NextRefines == LazyInv /\ [Next]_vars => [Reference!Next]_(Reference!vars)
<1> SUFFICES ASSUME LazyInv, [Next]_vars
             PROVE  Reference!Next \/ UNCHANGED Reference!vars
  OBVIOUS
<1>1. Step => Reference!Step
  BY ScheduledRefines, NaiveRefines DEF Step
<1>2. CASE StepCpu
  BY <1>1, <1>2 DEF StepCpu, AtRest, Reference!Next, Reference!StepCpu, Reference!AtRest
<1>3. CASE FrameRuns
  BY <1>1, <1>3 DEF FrameRuns, Reference!Next, Reference!FrameRuns
<1>4. CASE UNCHANGED vars
  BY <1>4 DEF vars, cpuVars, hostVars, clockVars, Reference!vars, TrueDev, TrueStat, Lag
<1> QED
  BY <1>2, <1>3, <1>4, HostRefines DEF Next

LEMMA InitRefines == Init => Reference!Init
<1> SUFFICES ASSUME Init PROVE Reference!Init
  OBVIOUS
<1>1. Lag = 0
  BY DEF Init, Lag
<1>2. TrueDev = InitDev /\ TrueStat = {}
  BY <1>1, DeviceTypes, EmptyTick DEF Init, TrueDev, TrueStat
<1> QED
  BY <1>2 DEF Init, Reference!Init

\* The lazy scheduler implements the reference loop for every device that
\* honours the contract: same cycles, interrupts, reads and save states.
THEOREM LazyImplementsReference == Spec => RefinesReference
<1>1. Init => Reference!Init
  BY InitRefines
<1>2. LazyInv /\ [Next]_vars => [Reference!Next]_(Reference!vars)
  BY NextRefines
<1> QED
  BY <1>1, <1>2, LazyInvariant, PTL DEF Spec, RefinesReference, Reference!Spec
=============================================================================
