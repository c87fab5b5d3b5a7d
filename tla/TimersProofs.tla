---------------------------- MODULE TimersProofs ----------------------------
(***************************************************************************)
(* The estimate that a root counter gives the lazy scheduler is never too  *)
(* late, for every counter width, divisor, control word, value and target. *)
(***************************************************************************)
EXTENDS Timers, WellFoundedInduction, TLAPS

(***************************************************************************)
(* Lemmas on one counter.                                                  *)
(***************************************************************************)
\* A counter whose divider holds back less than one timer tick.
WellFormed(c) == c \in CounterState /\ c.accumulator < ClockSource(c)

LEMMA ClockSourceType ==
  ASSUME NEW c \in CounterState
  PROVE  ClockSource(c) \in Nat \ {0}
<1>1. c.div \in Nat \ {0}
  BY CounterAssumption DEF CounterState
<1> QED
  BY <1>1 DEF ClockSource

LEMMA NextValueType ==
  ASSUME NEW c \in CounterState
  PROVE  /\ NextValue(c) \in CounterValue
         /\ c.value \in Nat /\ c.target \in Nat /\ c.value < Wrap /\ c.target < Wrap
         /\ c.accumulator \in Nat
  BY CounterAssumption DEF CounterState, CounterValue, NextValue

\* What one cycle changes, field by field.
LEMMA TickCycleFields ==
  ASSUME NEW c \in CounterState
  PROVE  /\ TickCycle(c) \in CounterState
         /\ TickCycle(c).ctl = c.ctl /\ TickCycle(c).div = c.div
         /\ TickCycle(c).target = c.target
         /\ TickCycle(c).accumulator = IF Divides(c) THEN 0 ELSE c.accumulator + 1
         /\ TickCycle(c).value = IF ~ Divides(c) THEN c.value
                                 ELSE IF ResetsAt(c) THEN 0 ELSE NextValue(c)
         /\ TickCycle(c).irqFired = (c.irqFired \/ (CycleRaises(c) /\ ~ c.ctl.irqRepeat))
<1>1. StepOne(c) \in CounterState
  <2>1. 0 \in CounterValue /\ NextValue(c) \in CounterValue
    BY NextValueType, CounterAssumption DEF CounterValue
  <2> QED
    BY <2>1 DEF StepOne, CounterState, HitTarget, Overflows, Raises
<1>2. CASE Divides(c)
  <2> DEFINE s == StepOne(c)
  <2>1. TickCycle(c) = [s EXCEPT !.accumulator = 0]
    BY <1>2 DEF TickCycle
  <2>2. /\ s.ctl = c.ctl /\ s.div = c.div /\ s.target = c.target
        /\ s.value = IF ResetsAt(c) THEN 0 ELSE NextValue(c)
        /\ s.irqFired = (c.irqFired \/ (Raises(c) /\ ~ c.ctl.irqRepeat))
    BY DEF StepOne, CounterState
  <2> HIDE DEF s
  <2>3. s \in CounterState
    BY <1>1 DEF s
  <2>4. TickCycle(c) \in CounterState
    BY <2>1, <2>3 DEF CounterState
  <2>5. /\ TickCycle(c).ctl = s.ctl /\ TickCycle(c).div = s.div
        /\ TickCycle(c).target = s.target /\ TickCycle(c).value = s.value
        /\ TickCycle(c).irqFired = s.irqFired /\ TickCycle(c).accumulator = 0
    BY <2>1, <2>3 DEF CounterState
  <2>6. CycleRaises(c) = Raises(c)
    BY <1>2 DEF CycleRaises, Raises
  <2> QED
    BY <1>2, <2>2, <2>4, <2>5, <2>6
<1>3. CASE ~ Divides(c)
  BY <1>3, NextValueType DEF TickCycle, CounterState, CycleRaises
<1> QED
  BY <1>2, <1>3

LEMMA TickCycleWellFormed ==
  ASSUME NEW c, WellFormed(c)
  PROVE  WellFormed(TickCycle(c))
<1>1. c \in CounterState /\ c.accumulator < ClockSource(c)
  BY DEF WellFormed
<1>2. ClockSource(TickCycle(c)) = ClockSource(c) /\ TickCycle(c) \in CounterState
  BY <1>1, TickCycleFields DEF ClockSource
<1>3. TickCycle(c).accumulator < ClockSource(c)
  BY <1>1, TickCycleFields, ClockSourceType, NextValueType DEF Divides
<1> QED
  BY <1>2, <1>3 DEF WellFormed

LEMMA StepsTypes ==
  ASSUME NEW c \in CounterState
  PROVE  /\ StepsToTarget(c) \in Nat \ {0} /\ StepsToOverflow(c) \in Nat \ {0}
         /\ StepsToEvent(c) \in Nat \ {0}
  BY NextValueType, CounterAssumption DEF StepsToTarget, StepsToOverflow, StepsToEvent

LEMMA EstimateType ==
  ASSUME NEW c, WellFormed(c)
  PROVE  CyclesOf(c) \in Nat \ {0}
         /\ CyclesToNextEvent(c) = IF IrqPossible(c) THEN CyclesOf(c) ELSE NoEvent
<1> DEFINE s == StepsToEvent(c)
           d == ClockSource(c)
<1>1. s \in Nat \ {0} /\ d \in Nat \ {0} /\ c.accumulator \in Nat /\ c.accumulator < d
  BY StepsTypes, ClockSourceType, NextValueType DEF WellFormed
<1>2. \A m, n \in Nat \ {0} : m * n \in Nat /\ m * n >= n
  OBVIOUS
<1>3. s * d \in Nat /\ s * d >= d
  BY <1>1, <1>2
<1>4. CyclesOf(c) \in Nat \ {0}
  BY <1>1, <1>3 DEF CyclesOf
<1> QED
  BY <1>4 DEF CyclesToNextEvent

\* A raise is one step away, and a step that raises nothing is one step of
\* the way to the next raise at most.
LEMMA StepsRunDown ==
  ASSUME NEW c \in CounterState, IrqPossible(c), Divides(c)
  PROVE  /\ Raises(c) => StepsToEvent(c) = 1
         /\ ~ Raises(c) => StepsToEvent(TickCycle(c)) >= StepsToEvent(c) - 1
<1> DEFINE e == TickCycle(c)
<1>1. /\ c.value \in Nat /\ c.target \in Nat /\ c.value < Wrap /\ c.target < Wrap
      /\ Wrap \in Nat \ {0}
  BY NextValueType, CounterAssumption
<1>2. CASE Raises(c)
  <2>1. CASE HitTarget(c) /\ c.ctl.irqOnTarget
    <3>1. StepsToTarget(c) = 1
      BY <1>1, <2>1 DEF HitTarget, NextValue, StepsToTarget
    <3> QED
      BY <1>2, <2>1, <3>1, StepsTypes DEF StepsToEvent
  <2>2. CASE Overflows(c) /\ c.ctl.irqOnOverflow
    <3>1. StepsToOverflow(c) = 1
      BY <1>1, <2>2 DEF Overflows, StepsToOverflow
    <3> QED
      BY <1>2, <2>2, <3>1, StepsTypes DEF StepsToEvent
  <2> QED
    BY <1>2, <2>1, <2>2 DEF Raises, WantsIrq
<1>3. CASE ~ Raises(c)
  <2>1. ~ WantsIrq(c)
    BY <1>3 DEF Raises, IrqPossible
  <2>2. /\ e \in CounterState /\ e.ctl = c.ctl /\ e.target = c.target
        /\ e.value = IF ResetsAt(c) THEN 0 ELSE NextValue(c)
    BY TickCycleFields
  <2> HIDE DEF e
  <2>3. c.ctl.irqOnTarget => StepsToTarget(e) = StepsToTarget(c) - 1
    BY <1>1, <2>1, <2>2 DEF WantsIrq, HitTarget, ResetsAt, NextValue, StepsToTarget
  <2>4. c.ctl.irqOnOverflow => StepsToOverflow(e) >= StepsToOverflow(c) - 1
    BY <1>1, <2>1, <2>2 DEF WantsIrq, Overflows, HitTarget, ResetsAt, NextValue, StepsToOverflow
  <2>5. c.ctl.irqOnTarget \/ c.ctl.irqOnOverflow
    BY DEF IrqPossible
  <2>6. StepsToEvent(e) >= StepsToEvent(c) - 1
    <3>1. /\ StepsToTarget(c) \in Nat /\ StepsToOverflow(c) \in Nat
          /\ StepsToTarget(e) \in Nat /\ StepsToOverflow(e) \in Nat
      BY <2>2, StepsTypes
    <3> QED
      BY <2>2, <2>3, <2>4, <2>5, <3>1 DEF StepsToEvent
  <2> QED
    BY <1>3, <2>6 DEF e
<1> QED
  BY <1>2, <1>3

\* A cycle uses up at most one cycle of the estimate, and an interrupt comes
\* at its end only.
LEMMA EstimateRunsDown ==
  ASSUME NEW c, WellFormed(c), IrqPossible(c)
  PROVE  /\ CycleRaises(c) => CyclesToNextEvent(c) = 1
         /\ ~ CycleRaises(c) => /\ IrqPossible(TickCycle(c))
                                /\ CyclesToNextEvent(TickCycle(c)) >= CyclesToNextEvent(c) - 1
<1> DEFINE e == TickCycle(c)
           d == ClockSource(c)
           s == StepsToEvent(c)
<1>1. /\ c \in CounterState /\ c.accumulator < d /\ c.accumulator \in Nat
      /\ d \in Nat \ {0} /\ s \in Nat \ {0} /\ WellFormed(e)
  BY ClockSourceType, StepsTypes, NextValueType, TickCycleWellFormed DEF WellFormed
<1>2. CyclesToNextEvent(c) = s * d - c.accumulator
  BY EstimateType DEF CyclesOf
<1>3. Divides(c) <=> c.accumulator = d - 1
  BY <1>1 DEF Divides
<1>4. CASE CycleRaises(c)
  <2>1. s = 1 /\ Divides(c)
    BY <1>1, <1>4, StepsRunDown DEF CycleRaises
  <2> QED
    BY <1>1, <1>2, <1>3, <1>4, <2>1
<1>5. CASE ~ CycleRaises(c)
  <2>1. /\ e.ctl = c.ctl /\ e.irqFired = c.irqFired /\ ClockSource(e) = d
        /\ e \in CounterState
    BY <1>1, <1>5, TickCycleFields DEF ClockSource, CounterState
  <2>2. IrqPossible(e)
    BY <2>1 DEF IrqPossible
  <2>3. CyclesToNextEvent(e) = StepsToEvent(e) * d - e.accumulator
    BY <1>1, <2>1, <2>2, EstimateType DEF CyclesOf
  <2>4. StepsToEvent(e) \in Nat
    BY <2>1, StepsTypes
  <2>5. CASE Divides(c)
    <3>1. e.accumulator = 0 /\ StepsToEvent(e) >= s - 1
      BY <1>1, <1>5, <2>5, TickCycleFields, StepsRunDown DEF CycleRaises
    <3>2. \A m, n, k \in Nat : m >= n - 1 => m * k >= n * k - k
      <4>1. TAKE m, n, k \in Nat
      <4>2. HAVE m >= n - 1
      <4>3. (m - (n - 1)) * k >= 0
        BY <4>2
      <4> QED
        BY <4>3
    <3>3. StepsToEvent(e) * d >= s * d - d
      BY <1>1, <2>4, <3>1, <3>2
    <3>4. \A m, n \in Nat : m * n \in Nat
      OBVIOUS
    <3>5. StepsToEvent(e) * d \in Nat /\ s * d \in Nat
      BY <1>1, <2>4, <3>4
    <3> HIDE DEF e, d, s
    <3>6. StepsToEvent(e) * d - 0 >= s * d - c.accumulator - 1
      BY <1>1, <1>3, <2>5, <3>3, <3>5
    <3> QED
      BY <1>2, <1>5, <2>2, <2>3, <3>1, <3>6 DEF e
  <2>6. CASE ~ Divides(c)
    <3>1. e.accumulator = c.accumulator + 1 /\ e.value = c.value /\ e.target = c.target
      BY <1>1, <2>6, TickCycleFields
    <3>2. StepsToEvent(e) = s
      BY <2>1, <3>1 DEF StepsToEvent, StepsToTarget, StepsToOverflow
    <3>3. \A m, n \in Nat : m * n \in Nat
      OBVIOUS
    <3>4. s * d \in Nat
      BY <1>1, <3>3
    <3> HIDE DEF e, d, s
    <3>5. s * d - (c.accumulator + 1) >= s * d - c.accumulator - 1
      BY <1>1, <3>4
    <3> QED
      BY <1>2, <1>5, <2>2, <2>3, <3>1, <3>2, <3>5 DEF e
  <2> QED
    BY <2>5, <2>6
<1> QED
  BY <1>4, <1>5

\* A counter that cannot interrupt stays that way until software writes it.
LEMMA SilentStaysSilent ==
  ASSUME NEW c \in CounterState, ~ IrqPossible(c)
  PROVE  ~ CycleRaises(c) /\ ~ IrqPossible(TickCycle(c))
<1>1. ~ Raises(c)
  BY DEF IrqPossible, Raises, WantsIrq
<1> QED
  BY <1>1, TickCycleFields DEF IrqPossible, CycleRaises

(***************************************************************************)
(* The inductive invariant: the promise standing for a counter is never    *)
(* later than a fresh estimate would be.                                   *)
(***************************************************************************)
PromiseKept ==
  \A i \in Indices :
    IF promise[i] = NoEvent THEN ~ IrqPossible(counters[i])
    ELSE IrqPossible(counters[i]) /\ promise[i] <= CyclesToNextEvent(counters[i])

\* A one-shot that rang has its latch set.
LatchHolds ==
  \A i \in Indices :
    ~ counters[i].ctl.irqRepeat => rung[i] <= 1 /\ (rung[i] > 0 => counters[i].irqFired)

TimersInv == TypeOK /\ PromiseKept /\ LatchHolds

LEMMA FreshPromise ==
  ASSUME NEW c, WellFormed(c)
  PROVE  /\ CyclesToNextEvent(c) \in (Nat \ {0}) \cup {NoEvent}
         /\ CyclesToNextEvent(c) = NoEvent <=> ~ IrqPossible(c)
  BY EstimateType DEF NoEvent

LEMMA TypeIsWellFormed ==
  ASSUME TypeOK, NEW i \in Indices
  PROVE  WellFormed(counters[i])
  BY DEF TypeOK, WellFormed

LEMMA NewCounterWellFormed ==
  ASSUME NEW i \in Indices
  PROVE  WellFormed(NewCounter(DivOf[i])) /\ ~ IrqPossible(NewCounter(DivOf[i]))
<1> DEFINE c == NewCounter(DivOf[i])
<1>1. 0 \in CounterValue /\ DivOf[i] \in Divs
  BY CounterAssumption, TimersAssumption DEF CounterValue
<1>2. c \in CounterState
  BY <1>1 DEF NewCounter, CounterState, NoControl, Control
<1>3. c.accumulator = 0 /\ ~ c.ctl.irqOnTarget /\ ~ c.ctl.irqOnOverflow
  BY DEF NewCounter, NoControl
<1> QED
  BY <1>2, <1>3, ClockSourceType DEF WellFormed, IrqPossible

LEMMA TimersInit == Init => TimersInv
<1> SUFFICES ASSUME Init PROVE TimersInv
  OBVIOUS
<1>1. \A i \in Indices : WellFormed(counters[i]) /\ ~ IrqPossible(counters[i])
  BY NewCounterWellFormed DEF Init
<1>2. TypeOK
  BY <1>1 DEF Init, TypeOK, WellFormed
<1> QED
  BY <1>1, <1>2 DEF Init, TimersInv, PromiseKept, LatchHolds

\* Any register access that leaves the counter well formed.
LEMMA AccessInv ==
  ASSUME TimersInv, NEW i \in Indices, NEW c, WellFormed(c), Access(i, c),
         rung' \in [Indices -> 0..2],
         \A j \in Indices \ {i} : rung'[j] = rung[j],
         ~ c.ctl.irqRepeat => rung'[i] <= 1 /\ (rung'[i] > 0 => c.irqFired)
  PROVE  TimersInv'
<1>1. \A j \in Indices : counters'[j] = IF j = i THEN c ELSE counters[j]
  BY DEF Access, TimersInv, TypeOK
<1>2. counters' \in [Indices -> CounterState]
  BY DEF Access, TimersInv, TypeOK, WellFormed
<1>3. \A j \in Indices : WellFormed(counters'[j])
  BY <1>1, TypeIsWellFormed DEF TimersInv
<1>4. \A j \in Indices : promise'[j] = CyclesToNextEvent(counters'[j])
  BY DEF Access, Estimates
<1>5. promise' \in [Indices -> (Nat \ {0}) \cup {NoEvent}]
  BY <1>3, <1>4, FreshPromise DEF Access, Estimates
<1>6. TypeOK'
  BY <1>2, <1>3, <1>5 DEF TimersInv, TypeOK, WellFormed, Access
<1>7. PromiseKept'
  <2>1. ASSUME NEW j \in Indices
        PROVE  IF promise'[j] = NoEvent THEN ~ IrqPossible(counters'[j])
               ELSE IrqPossible(counters'[j]) /\ promise'[j] <= CyclesToNextEvent(counters'[j])
    <3> DEFINE e == counters'[j]
    <3>1. WellFormed(e) /\ promise'[j] = CyclesToNextEvent(e)
      BY <1>3, <1>4
    <3> HIDE DEF e
    <3>2. CASE IrqPossible(e)
      <4>1. CyclesToNextEvent(e) \in Nat /\ CyclesToNextEvent(e) # NoEvent
        BY <3>1, <3>2, FreshPromise
      <4> QED
        BY <3>1, <3>2, <4>1 DEF e
    <3>3. CASE ~ IrqPossible(e)
      BY <3>1, <3>3, FreshPromise DEF e
    <3> QED
      BY <3>2, <3>3
  <2> QED
    BY <2>1 DEF PromiseKept
<1>8. LatchHolds'
  BY <1>1 DEF TimersInv, LatchHolds
<1> QED
  BY <1>6, <1>7, <1>8 DEF TimersInv

LEMMA TickInv == TimersInv /\ Tick1 => TimersInv'
<1> SUFFICES ASSUME TimersInv, Tick1 PROVE TimersInv'
  OBVIOUS
<1>1. \A i \in Indices : WellFormed(counters[i]) /\ WellFormed(TickCycle(counters[i]))
  BY TypeIsWellFormed, TickCycleWellFormed DEF TimersInv
<1>2. \A i \in Indices : counters'[i] = TickCycle(counters[i]) /\ promise'[i] = KeptPromise(i)
  BY DEF Tick1
<1>3. ASSUME NEW i \in Indices
      PROVE  /\ promise'[i] \in (Nat \ {0}) \cup {NoEvent}
             /\ IF promise'[i] = NoEvent THEN ~ IrqPossible(counters'[i])
                ELSE IrqPossible(counters'[i]) /\ promise'[i] <= CyclesToNextEvent(counters'[i])
  <2> DEFINE c == counters[i]
             e == TickCycle(c)
             p == promise[i]
  <2>1. /\ WellFormed(c) /\ WellFormed(e) /\ counters'[i] = e /\ promise'[i] = KeptPromise(i)
        /\ c \in CounterState /\ p \in (Nat \ {0}) \cup {NoEvent}
    BY <1>1, <1>2 DEF TimersInv, TypeOK, WellFormed
  <2>2. IF p = NoEvent THEN ~ IrqPossible(c)
        ELSE IrqPossible(c) /\ p <= CyclesToNextEvent(c)
    BY DEF TimersInv, PromiseKept
  <2>3. CASE p = NoEvent
    <3>1. KeptPromise(i) = NoEvent /\ ~ IrqPossible(e)
      BY <2>1, <2>2, <2>3, SilentStaysSilent DEF KeptPromise
    <3> QED
      BY <2>1, <3>1
  <2>4. CASE p # NoEvent /\ p > 1
    <3>1. IrqPossible(c) /\ p <= CyclesToNextEvent(c) /\ p \in Nat /\ CyclesToNextEvent(c) \in Nat
      BY <2>1, <2>2, <2>4, EstimateType
    <3>2. ~ CycleRaises(c)
      BY <2>1, <2>4, <3>1, EstimateRunsDown
    <3>3. IrqPossible(e) /\ CyclesToNextEvent(e) >= CyclesToNextEvent(c) - 1
      BY <2>1, <3>1, <3>2, EstimateRunsDown
    <3>4. KeptPromise(i) = p - 1
      BY <2>4 DEF KeptPromise
    <3>5. CyclesToNextEvent(e) \in Nat
      BY <2>1, <3>3, EstimateType
    <3> HIDE DEF c, e, p
    <3>6. p - 1 \in Nat \ {0} /\ p - 1 # NoEvent /\ p - 1 <= CyclesToNextEvent(e)
      BY <2>4, <3>1, <3>3, <3>5 DEF NoEvent
    <3> QED
      BY <2>1, <3>3, <3>4, <3>6
  <2>5. CASE p # NoEvent /\ ~ p > 1
    <3>1. KeptPromise(i) = CyclesToNextEvent(e)
      BY <2>5 DEF KeptPromise
    <3> HIDE DEF c, e, p
    <3>2. CASE IrqPossible(e)
      <4>1. CyclesToNextEvent(e) \in Nat \ {0} /\ CyclesToNextEvent(e) # NoEvent
        BY <2>1, <3>2, FreshPromise
      <4>2. CyclesToNextEvent(e) <= CyclesToNextEvent(e)
        BY <4>1
      <4> QED
        BY <2>1, <3>1, <3>2, <4>1, <4>2
    <3>3. CASE ~ IrqPossible(e)
      BY <2>1, <3>1, <3>3, FreshPromise
    <3> QED
      BY <3>2, <3>3
  <2> QED
    BY <2>3, <2>4, <2>5
<1>4. ASSUME NEW i \in Indices
      PROVE  /\ rung'[i] \in 0..2
             /\ ~ counters'[i].ctl.irqRepeat
                  => rung'[i] <= 1 /\ (rung'[i] > 0 => counters'[i].irqFired)
  <2> DEFINE c == counters[i]
             e == TickCycle(c)
  <2>1. /\ rung[i] \in 0..2 /\ c \in CounterState /\ counters'[i] = e
        /\ rung'[i] = IF i \in Ringing /\ rung[i] < 2 THEN rung[i] + 1 ELSE rung[i]
        /\ i \in Ringing <=> CycleRaises(c)
    BY <1>2 DEF TimersInv, TypeOK, Tick1, Ringing
  <2>2. e.ctl = c.ctl /\ e.irqFired = (c.irqFired \/ (CycleRaises(c) /\ ~ c.ctl.irqRepeat))
    BY <2>1, TickCycleFields
  <2>3. ~ c.ctl.irqRepeat => rung[i] <= 1 /\ (rung[i] > 0 => c.irqFired)
    BY DEF TimersInv, LatchHolds
  <2>4. CycleRaises(c) /\ ~ c.ctl.irqRepeat => ~ c.irqFired
    BY DEF CycleRaises, Raises
  <2> HIDE DEF c, e
  <2>5. CASE CycleRaises(c)
    <3>1. rung'[i] = IF rung[i] < 2 THEN rung[i] + 1 ELSE rung[i]
      BY <2>1, <2>5
    <3>2. rung'[i] \in 0..2
      BY <2>1, <3>1
    <3>3. CASE ~ c.ctl.irqRepeat
      <4>1. ~ (rung[i] > 0)
        BY <2>3, <2>4, <2>5, <3>3
      <4>2. rung'[i] = 1
        BY <2>1, <3>1, <4>1
      <4>3. e.irqFired
        BY <2>2, <2>5, <3>3
      <4> QED
        BY <2>1, <3>2, <4>2, <4>3
    <3> QED
      BY <2>1, <2>2, <3>2, <3>3
  <2>6. CASE ~ CycleRaises(c)
    BY <2>1, <2>2, <2>3, <2>6
  <2> QED
    BY <2>5, <2>6
<1>5. TypeOK'
  <2>1. counters' \in [Indices -> CounterState]
    BY <1>1 DEF Tick1, WellFormed
  <2>2. promise' \in [Indices -> (Nat \ {0}) \cup {NoEvent}]
    BY <1>2, <1>3 DEF Tick1
  <2>3. rung' \in [Indices -> 0..2]
    BY <1>4 DEF Tick1
  <2>4. iStat' \in SUBSET Indices
    BY DEF Tick1, Ringing, TimersInv, TypeOK
  <2> QED
    BY <1>1, <1>2, <2>1, <2>2, <2>3, <2>4 DEF TypeOK, WellFormed
<1> QED
  BY <1>3, <1>4, <1>5 DEF TimersInv, PromiseKept, LatchHolds

LEMMA TimersNext == TimersInv /\ [Next]_vars => TimersInv'
<1> SUFFICES ASSUME TimersInv, [Next]_vars PROVE TimersInv'
  OBVIOUS
<1>1. ASSUME NEW i \in Indices
      PROVE  /\ counters[i] \in CounterState /\ WellFormed(counters[i])
             /\ rung \in [Indices -> 0..2]
             /\ ~ counters[i].ctl.irqRepeat
                  => rung[i] <= 1 /\ (rung[i] > 0 => counters[i].irqFired)
  BY TypeIsWellFormed DEF TimersInv, TypeOK, LatchHolds
<1>2. ASSUME NEW i \in Indices, NEW ctl \in ModeWrites, WriteCounterMode(i, ctl)
      PROVE  TimersInv'
  <2> DEFINE c == WriteMode(counters[i], ctl)
  <2>1. ctl \in Control /\ 0 \in CounterValue
    BY TimersAssumption, CounterAssumption DEF CounterValue
  <2>2. c \in CounterState /\ c.accumulator = 0
    BY <1>1, <2>1 DEF WriteMode, CounterState
  <2>3. WellFormed(c)
    BY <2>2, ClockSourceType DEF WellFormed
  <2>4. rung' = [rung EXCEPT ![i] = 0] /\ Access(i, c)
    BY <1>2 DEF WriteCounterMode
  <2>5. /\ rung' \in [Indices -> 0..2] /\ rung'[i] = 0
        /\ \A j \in Indices \ {i} : rung'[j] = rung[j]
    BY <1>1, <2>4
  <2> HIDE DEF c
  <2>6. rung'[i] <= 1 /\ ~ (rung'[i] > 0)
    BY <2>5
  <2> QED
    BY <2>3, <2>4, <2>5, <2>6, AccessInv
<1>3. ASSUME NEW i \in Indices, NEW c, WellFormed(c), Access(i, c), UNCHANGED rung,
             c.ctl = counters[i].ctl, c.irqFired = counters[i].irqFired
      PROVE  TimersInv'
  BY <1>1, <1>3, AccessInv
<1>4. ASSUME NEW i \in Indices, ReadCounterMode(i) PROVE TimersInv'
  <2> DEFINE c == ReadMode(counters[i])
  <2>1. /\ c \in CounterState /\ c.ctl = counters[i].ctl /\ c.irqFired = counters[i].irqFired
        /\ c.accumulator = counters[i].accumulator /\ c.div = counters[i].div
    BY <1>1 DEF ReadMode, CounterState
  <2>2. WellFormed(c)
    BY <1>1, <2>1 DEF WellFormed, ClockSource
  <2> QED
    BY <1>3, <1>4, <2>1, <2>2 DEF ReadCounterMode
<1>5. ASSUME NEW i \in Indices, NEW v \in ValueWrites, WriteValue(i, v) PROVE TimersInv'
  <2> DEFINE c == [counters[i] EXCEPT !.value = v]
  <2>1. v \in CounterValue
    BY TimersAssumption
  <2>2. /\ c \in CounterState /\ c.ctl = counters[i].ctl /\ c.irqFired = counters[i].irqFired
        /\ c.accumulator = counters[i].accumulator /\ c.div = counters[i].div
    BY <1>1, <2>1 DEF CounterState
  <2>3. WellFormed(c)
    BY <1>1, <2>2 DEF WellFormed, ClockSource
  <2> QED
    BY <1>3, <1>5, <2>2, <2>3 DEF WriteValue
<1>6. ASSUME NEW i \in Indices, NEW t \in TargetWrites, WriteTarget(i, t) PROVE TimersInv'
  <2> DEFINE c == [counters[i] EXCEPT !.target = t]
  <2>1. t \in CounterValue
    BY TimersAssumption
  <2>2. /\ c \in CounterState /\ c.ctl = counters[i].ctl /\ c.irqFired = counters[i].irqFired
        /\ c.accumulator = counters[i].accumulator /\ c.div = counters[i].div
    BY <1>1, <2>1 DEF CounterState
  <2>3. WellFormed(c)
    BY <1>1, <2>2 DEF WellFormed, ClockSource
  <2> QED
    BY <1>3, <1>6, <2>2, <2>3 DEF WriteTarget
<1>7. ASSUME NEW i \in Indices, Acknowledge(i) PROVE TimersInv'
  BY <1>7 DEF Acknowledge, TimersInv, TypeOK, PromiseKept, LatchHolds
<1>8. CASE UNCHANGED vars
  BY <1>8 DEF vars, TimersInv, TypeOK, PromiseKept, LatchHolds
<1> QED
  BY <1>2, <1>4, <1>5, <1>6, <1>7, <1>8, TickInv DEF Next

LEMMA TimersInvariant == Spec => []TimersInv
  BY TimersInit, TimersNext, PTL DEF Spec

\* Types and the bound on the divider's remainder.
THEOREM TimersTypes == Spec => []TypeOK
<1>1. TimersInv => TypeOK
  BY DEF TimersInv
<1> QED
  BY <1>1, TimersInvariant, PTL

\* cycles_to_next_event is conservative: no interrupt comes before the end of
\* the estimate the scheduler holds, however long ago it was given.
THEOREM EstimatesAreConservative == Spec => []NoEarlyIrq
<1>1. TimersInv => NoEarlyIrq
  <2> SUFFICES ASSUME TimersInv, NEW i \in Indices, CycleRaises(counters[i])
               PROVE  promise[i] = 1
    BY DEF NoEarlyIrq
  <2>1. /\ WellFormed(counters[i]) /\ counters[i] \in CounterState
        /\ promise[i] \in (Nat \ {0}) \cup {NoEvent}
    BY TypeIsWellFormed DEF TimersInv, TypeOK
  <2>2. IrqPossible(counters[i])
    BY <2>1, SilentStaysSilent
  <2>3. CyclesToNextEvent(counters[i]) = 1
    BY <2>1, <2>2, EstimateRunsDown
  <2>4. promise[i] # NoEvent /\ promise[i] <= 1
    BY <2>2, <2>3 DEF TimersInv, PromiseKept
  <2> QED
    BY <2>1, <2>4
<1> QED
  BY <1>1, TimersInvariant, PTL

\* raise(): one interrupt per mode write in one-shot mode.
THEOREM OneShotsRingOnce == Spec => []OneShotRingsOnce
<1>1. TimersInv => OneShotRingsOnce
  BY DEF TimersInv, LatchHolds, OneShotRingsOnce
<1> QED
  BY <1>1, TimersInvariant, PTL

(***************************************************************************)
(* The batched tick.  Iteration is reasoned about with functions on a set: *)
(* the provers cannot instantiate an induction principle that takes a      *)
(* predicate, but they can take the least element of a set.                *)
(***************************************************************************)
LEMMA LeastNatural ==
  ASSUME NEW T \in SUBSET Nat, T # {}
  PROVE  \E m \in T : \A n \in T : m <= n
<1>1. PICK m \in T : \A n \in T : ~ (<<n, m>> \in OpToRel(<, Nat))
  BY WFMin, NatLessThanWellFounded
<1>2. \A n \in T : ~ (n < m)
  BY <1>1 DEF OpToRel
<1> QED BY <1>2

\* A set of naturals with 0 and, with each number, the next one.
LEMMA Induction ==
  ASSUME NEW T \in SUBSET Nat, 0 \in T, \A n \in T : n + 1 \in T
  PROVE  T = Nat
<1> SUFFICES ASSUME Nat \ T # {} PROVE FALSE
  OBVIOUS
<1>1. PICK m \in Nat \ T : \A n \in Nat \ T : m <= n
  BY LeastNatural
<1>2. m # 0 /\ m - 1 \in Nat /\ m - 1 < m
  BY <1>1
<1>3. m - 1 \in T
  BY <1>1, <1>2
<1> QED BY <1>1, <1>2, <1>3

\* A chain of k applications of F from a.
Chain(F, a, k, h) ==
  /\ DOMAIN h = 0..k
  /\ h = [i \in 0..k |-> IF i = 0 THEN a ELSE F[h[i - 1]]]

LEMMA ChainExists ==
  ASSUME NEW S, NEW F \in [S -> S], NEW a \in S
  PROVE  \A k \in Nat : \E h \in [0..k -> S] : Chain(F, a, k, h)
<1> DEFINE T == {k \in Nat : \E h \in [0..k -> S] : Chain(F, a, k, h)}
<1>1. 0 \in T
  <2> DEFINE g == [i \in 0..0 |-> a]
  <2>1. g \in [0..0 -> S] /\ Chain(F, a, 0, g)
    BY DEF Chain
  <2> QED BY <2>1
<1>2. ASSUME NEW k \in T PROVE k + 1 \in T
  <2>1. PICK h \in [0..k -> S] : Chain(F, a, k, h)
    BY <1>2
  <2> DEFINE g == [i \in 0..(k + 1) |-> IF i <= k THEN h[i] ELSE F[h[k]]]
  <2>2. g \in [0..(k + 1) -> S]
    OBVIOUS
  <2>3. \A i \in 0..(k + 1) : g[i] = IF i = 0 THEN a ELSE F[g[i - 1]]
    BY <2>1 DEF Chain
  <2>4. g = [i \in 0..(k + 1) |-> IF i = 0 THEN a ELSE F[g[i - 1]]]
    BY <2>3
  <2>5. Chain(F, a, k + 1, g)
    BY <2>2, <2>4 DEF Chain
  <2> HIDE DEF g
  <2>6. \E e \in [0..(k + 1) -> S] : Chain(F, a, k + 1, e)
    BY <2>2, <2>5, Zenon
  <2>7. k + 1 \in Nat
    OBVIOUS
  <2> QED BY <2>6, <2>7, Zenon
<1> HIDE DEF T
<1>3. T = Nat
  <2>1. T \in SUBSET Nat
    BY DEF T
  <2> QED BY <1>1, <1>2, <2>1, Induction
<1> QED BY <1>3 DEF T

\* Two chains from the same start agree as far as both go.
LEMMA ChainsAgree ==
  ASSUME NEW F, NEW a, NEW k \in Nat, NEW l \in Nat, k <= l, NEW g, NEW h,
         Chain(F, a, k, g), Chain(F, a, l, h)
  PROVE  g[k] = h[k]
<1> DEFINE T == {i \in Nat : i <= k => g[i] = h[i]}
<1>1. 0 \in T
  BY DEF Chain
<1>2. ASSUME NEW i \in T PROVE i + 1 \in T
  <2>1. CASE i + 1 <= k
    <3>1. g[i] = h[i] /\ i \in 0..k /\ i + 1 \in 0..k /\ i + 1 \in 0..l /\ i + 1 # 0
      BY <2>1
    <3>2. g[i + 1] = F[g[(i + 1) - 1]] /\ h[i + 1] = F[h[(i + 1) - 1]]
      BY <3>1 DEF Chain
    <3> QED BY <3>1, <3>2
  <2>2. CASE ~ (i + 1 <= k)
    BY <2>2
  <2> QED BY <2>1, <2>2
<1> HIDE DEF T
<1>3. T = Nat
  <2>1. T \in SUBSET Nat
    BY DEF T
  <2> QED BY <1>1, <1>2, <2>1, Induction
<1> QED BY <1>3 DEF T

\* The end of a chain of k applications.
Iterated(F, a, k) == (CHOOSE h : Chain(F, a, k, h))[k]

LEMMA ChainEnds ==
  ASSUME NEW F, NEW a, NEW k \in Nat, NEW h, Chain(F, a, k, h)
  PROVE  Iterated(F, a, k) = h[k]
<1>1. Chain(F, a, k, CHOOSE e : Chain(F, a, k, e))
  OBVIOUS
<1>2. (CHOOSE e : Chain(F, a, k, e))[k] = h[k]
  BY <1>1, ChainsAgree
<1> QED BY <1>2 DEF Iterated

LEMMA Iteration ==
  ASSUME NEW S, NEW F \in [S -> S], NEW a \in S, NEW k \in Nat
  PROVE  /\ Iterated(F, a, k) \in S
         /\ Iterated(F, a, 0) = a
         /\ Iterated(F, a, k + 1) = F[Iterated(F, a, k)]
<1>1. PICK h \in [0..k -> S] : Chain(F, a, k, h)
  BY ChainExists
<1>2. PICK g \in [0..(k + 1) -> S] : Chain(F, a, k + 1, g)
  <2>1. k + 1 \in Nat
    OBVIOUS
  <2> QED BY <2>1, ChainExists, Zenon
<1>3. PICK z \in [0..0 -> S] : Chain(F, a, 0, z)
  BY ChainExists
<1>4. \A m \in Nat : \A f : Chain(F, a, m, f) => Iterated(F, a, m) = f[m]
  BY ChainEnds
<1>5. Iterated(F, a, k) = h[k] /\ h[k] \in S
  BY <1>1, <1>4
<1>6. Iterated(F, a, 0) = a
  <2>1. z[0] = a
    BY <1>3 DEF Chain
  <2> QED BY <1>3, <1>4, <2>1
<1>7. Iterated(F, a, k + 1) = g[k + 1] /\ g[k + 1] = F[g[k]]
  <2>1. k + 1 \in Nat /\ k + 1 \in 0..(k + 1) /\ k + 1 # 0 /\ (k + 1) - 1 = k
    OBVIOUS
  <2> QED BY <1>2, <1>4, <2>1 DEF Chain
<1>8. g[k] = h[k]
  BY <1>1, <1>2, ChainsAgree
<1> QED BY <1>5, <1>6, <1>7, <1>8
\* A counter and whether it has raised its interrupt on the way.
Progress == [counter : CounterState, raised : BOOLEAN]
Start(c) == [counter |-> c, raised |-> FALSE]

TimerTick == [s \in Progress |->
  [counter |-> StepOne(s.counter), raised |-> s.raised \/ Raises(s.counter)]]
Cycle == [s \in Progress |->
  [counter |-> TickCycle(s.counter), raised |-> s.raised \/ CycleRaises(s.counter)]]

LEMMA StepOneFields ==
  ASSUME NEW c \in CounterState
  PROVE  /\ StepOne(c) \in CounterState /\ Raises(c) \in BOOLEAN /\ CycleRaises(c) \in BOOLEAN
         /\ StepOne(c).ctl = c.ctl /\ StepOne(c).div = c.div
         /\ StepOne(c).accumulator = c.accumulator
<1>1. 0 \in CounterValue /\ NextValue(c) \in CounterValue
  BY NextValueType, CounterAssumption DEF CounterValue
<1>2. Raises(c) \in BOOLEAN /\ CycleRaises(c) \in BOOLEAN
  BY Zenon DEF Raises, CycleRaises
<1>3. /\ StepOne(c) \in CounterState /\ StepOne(c).ctl = c.ctl /\ StepOne(c).div = c.div
      /\ StepOne(c).accumulator = c.accumulator
  BY <1>1 DEF StepOne, CounterState, HitTarget, Overflows, Raises
<1> QED
  BY <1>2, <1>3

LEMMA ProgressType ==
  /\ TimerTick \in [Progress -> Progress] /\ Cycle \in [Progress -> Progress]
  /\ \A c \in CounterState : Start(c) \in Progress
<1>1. \A s \in Progress : TimerTick[s] \in Progress
  BY StepOneFields DEF TimerTick, Progress
<1>2. \A s \in Progress : Cycle[s] \in Progress
  BY StepOneFields, TickCycleFields DEF Cycle, Progress
<1> QED BY <1>1, <1>2 DEF TimerTick, Cycle, Start, Progress

LEMMA RunOfTicks ==
  ASSUME NEW c \in CounterState, NEW k \in Nat
  PROVE  Run(StepOne, Raises, c, k) = Iterated(TimerTick, Start(c), k)
<1> DEFINE G(r) == [i \in 0..k |->
                      IF i = 0 THEN [counter |-> c, raised |-> FALSE]
                      ELSE [counter |-> StepOne(r[i - 1].counter),
                            raised |-> r[i - 1].raised \/ Raises(r[i - 1].counter)]]
           run == CHOOSE r : r = G(r)
<1>1. Run(StepOne, Raises, c, k) = run[k]
  BY DEF Run
<1>2. run = G(run)
  <2>1. PICK h \in [0..k -> Progress] : Chain(TimerTick, Start(c), k, h)
    BY ProgressType, ChainExists
  <2>2. ASSUME NEW i \in 0..k, i # 0
        PROVE  TimerTick[h[i - 1]] = [counter |-> StepOne(h[i - 1].counter),
                                 raised |-> h[i - 1].raised \/ Raises(h[i - 1].counter)]
    <3>1. h[i - 1] \in Progress
      BY <2>2
    <3> QED BY <3>1 DEF TimerTick
  <2>3. h = G(h)
    <3>1. h = [i \in 0..k |-> IF i = 0 THEN Start(c) ELSE TimerTick[h[i - 1]]]
      BY <2>1 DEF Chain
    <3>2. \A i \in 0..k : (IF i = 0 THEN Start(c) ELSE TimerTick[h[i - 1]]) = G(h)[i]
      BY <2>2 DEF Start
    <3> QED BY <3>1, <3>2
  <2> HIDE DEF G
  <2> QED BY <2>3
<1>3. \A i \in 0..k : run[i] \in Progress
  <2> DEFINE T == {i \in Nat : i <= k => run[i] \in Progress}
  <2> HIDE DEF run
  <2>1. 0 \in T
    BY <1>2 DEF Progress
  <2>2. ASSUME NEW i \in T PROVE i + 1 \in T
    <3>1. CASE i + 1 <= k
      <4>1. i + 1 \in 0..k /\ i + 1 # 0 /\ (i + 1) - 1 = i /\ run[i] \in Progress
        BY <3>1
      <4>2. run[i + 1] = [counter |-> StepOne(run[i].counter),
                          raised |-> run[i].raised \/ Raises(run[i].counter)]
        BY <1>2, <4>1
      <4>3. TimerTick[run[i]] = run[i + 1]
        BY <4>1, <4>2 DEF TimerTick
      <4> QED BY <4>1, <4>3, ProgressType
    <3> QED BY <3>1
  <2> HIDE DEF T
  <2>3. T = Nat
    <3>1. T \in SUBSET Nat
      BY DEF T
    <3> QED BY <2>1, <2>2, <3>1, Induction
  <2> QED BY <2>3 DEF T
<1> HIDE DEF run
<1>4. Chain(TimerTick, Start(c), k, run)
  <2>1. ASSUME NEW i \in 0..k, i # 0
        PROVE  TimerTick[run[i - 1]] = [counter |-> StepOne(run[i - 1].counter),
                                   raised |-> run[i - 1].raised \/ Raises(run[i - 1].counter)]
    <3>1. run[i - 1] \in Progress
      BY <1>3, <2>1
    <3> QED BY <3>1 DEF TimerTick
  <2>2. \A i \in 0..k : G(run)[i] = IF i = 0 THEN Start(c) ELSE TimerTick[run[i - 1]]
    BY <2>1 DEF Start
  <2>3. G(run) = [i \in 0..k |-> IF i = 0 THEN Start(c) ELSE TimerTick[run[i - 1]]]
    BY <2>2
  <2>4. DOMAIN run = 0..k
    BY <1>2
  <2> HIDE DEF G
  <2> QED BY <1>2, <2>3, <2>4 DEF Chain
<1> QED BY <1>1, <1>4, ChainEnds

LEMMA RunOfCycles ==
  ASSUME NEW c \in CounterState, NEW k \in Nat
  PROVE  Run(TickCycle, CycleRaises, c, k) = Iterated(Cycle, Start(c), k)
<1> DEFINE G(r) == [i \in 0..k |->
                      IF i = 0 THEN [counter |-> c, raised |-> FALSE]
                      ELSE [counter |-> TickCycle(r[i - 1].counter),
                            raised |-> r[i - 1].raised \/ CycleRaises(r[i - 1].counter)]]
           run == CHOOSE r : r = G(r)
<1>1. Run(TickCycle, CycleRaises, c, k) = run[k]
  BY DEF Run
<1>2. run = G(run)
  <2>1. PICK h \in [0..k -> Progress] : Chain(Cycle, Start(c), k, h)
    BY ProgressType, ChainExists
  <2>2. ASSUME NEW i \in 0..k, i # 0
        PROVE  Cycle[h[i - 1]] = [counter |-> TickCycle(h[i - 1].counter),
                                 raised |-> h[i - 1].raised \/ CycleRaises(h[i - 1].counter)]
    <3>1. h[i - 1] \in Progress
      BY <2>2
    <3> QED BY <3>1 DEF Cycle
  <2>3. h = G(h)
    <3>1. h = [i \in 0..k |-> IF i = 0 THEN Start(c) ELSE Cycle[h[i - 1]]]
      BY <2>1 DEF Chain
    <3>2. \A i \in 0..k : (IF i = 0 THEN Start(c) ELSE Cycle[h[i - 1]]) = G(h)[i]
      BY <2>2 DEF Start
    <3> QED BY <3>1, <3>2
  <2> HIDE DEF G
  <2> QED BY <2>3
<1>3. \A i \in 0..k : run[i] \in Progress
  <2> DEFINE T == {i \in Nat : i <= k => run[i] \in Progress}
  <2> HIDE DEF run
  <2>1. 0 \in T
    BY <1>2 DEF Progress
  <2>2. ASSUME NEW i \in T PROVE i + 1 \in T
    <3>1. CASE i + 1 <= k
      <4>1. i + 1 \in 0..k /\ i + 1 # 0 /\ (i + 1) - 1 = i /\ run[i] \in Progress
        BY <3>1
      <4>2. run[i + 1] = [counter |-> TickCycle(run[i].counter),
                          raised |-> run[i].raised \/ CycleRaises(run[i].counter)]
        BY <1>2, <4>1
      <4>3. Cycle[run[i]] = run[i + 1]
        BY <4>1, <4>2 DEF Cycle
      <4> QED BY <4>1, <4>3, ProgressType
    <3> QED BY <3>1
  <2> HIDE DEF T
  <2>3. T = Nat
    <3>1. T \in SUBSET Nat
      BY DEF T
    <3> QED BY <2>1, <2>2, <3>1, Induction
  <2> QED BY <2>3 DEF T
<1> HIDE DEF run
<1>4. Chain(Cycle, Start(c), k, run)
  <2>1. ASSUME NEW i \in 0..k, i # 0
        PROVE  Cycle[run[i - 1]] = [counter |-> TickCycle(run[i - 1].counter),
                                   raised |-> run[i - 1].raised \/ CycleRaises(run[i - 1].counter)]
    <3>1. run[i - 1] \in Progress
      BY <1>3, <2>1
    <3> QED BY <3>1 DEF Cycle
  <2>2. \A i \in 0..k : G(run)[i] = IF i = 0 THEN Start(c) ELSE Cycle[run[i - 1]]
    BY <2>1 DEF Start
  <2>3. G(run) = [i \in 0..k |-> IF i = 0 THEN Start(c) ELSE Cycle[run[i - 1]]]
    BY <2>2
  <2>4. DOMAIN run = 0..k
    BY <1>2
  <2> HIDE DEF G
  <2> QED BY <1>2, <2>3, <2>4 DEF Chain
<1> QED BY <1>1, <1>4, ChainEnds

\* What one more cycle does to the quotient and the remainder.
LEMMA DivisionOfSuccessor ==
  ASSUME NEW d \in Nat \ {0}, NEW n \in Nat
  PROVE  /\ n \div d \in Nat /\ n % d \in 0..(d - 1)
         /\ (n % d) + 1 < d => (n + 1) \div d = n \div d /\ (n + 1) % d = (n % d) + 1
         /\ (n % d) + 1 = d => (n + 1) \div d = n \div d + 1 /\ (n + 1) % d = 0
<1>1. n \div d \in Nat /\ n % d \in 0..(d - 1)
  OBVIOUS
<1>2. \A m \in Nat : m % d = m - d * (m \div d)
  OBVIOUS
<1>3. (n % d) + 1 < d => (n + 1) \div d = n \div d
  OBVIOUS
<1>4. (n % d) + 1 = d => (n + 1) \div d = n \div d + 1
  OBVIOUS
<1>5. n % d = n - d * (n \div d) /\ (n + 1) % d = (n + 1) - d * ((n + 1) \div d)
  <2>1. n \in Nat /\ n + 1 \in Nat
    OBVIOUS
  <2> QED BY <1>2, <2>1, Zenon
<1>6. \A q \in Nat : d * (q + 1) = d * q + d /\ d * q \in Nat
  OBVIOUS
<1>7. (n % d) + 1 < d => (n + 1) % d = (n % d) + 1
  BY <1>1, <1>3, <1>5, <1>6
<1>8. (n % d) + 1 = d => (n + 1) % d = 0
  BY <1>1, <1>4, <1>5, <1>6
<1> QED BY <1>1, <1>3, <1>4, <1>7, <1>8

LEMMA DivisionOfSmall ==
  ASSUME NEW d \in Nat \ {0}, NEW r \in 0..(d - 1)
  PROVE  r \div d = 0 /\ r % d = r
  OBVIOUS

\* The same progress with another remainder in the divider.
WithRemainder(s, r) == [s EXCEPT !.counter.accumulator = r]

LEMMA WithRemainderIs ==
  ASSUME NEW s \in Progress, NEW r
  PROVE  WithRemainder(s, r) = [counter |-> [s.counter EXCEPT !.accumulator = r],
                                raised |-> s.raised]
  BY DEF WithRemainder, Progress

LEMMA WithRemainderFields ==
  ASSUME NEW s \in Progress, NEW r \in Nat
  PROVE  /\ WithRemainder(s, r) \in Progress
         /\ WithRemainder(s, r).counter = [s.counter EXCEPT !.accumulator = r]
         /\ WithRemainder(s, r).raised = s.raised
  BY DEF WithRemainder, Progress, CounterState

\* What a timer tick does, and what it looks at, is not the remainder.
LEMMA TickIgnoresRemainder ==
  ASSUME NEW c \in CounterState, NEW e \in CounterState,
         e.ctl = c.ctl, e.div = c.div, e.value = c.value, e.target = c.target,
         e.armed = c.armed, e.reachedTarget = c.reachedTarget,
         e.reachedMax = c.reachedMax, e.irqFired = c.irqFired
  PROVE  /\ ClockSource(e) = ClockSource(c) /\ Raises(e) = Raises(c)
         /\ [StepOne(e) EXCEPT !.accumulator = 0] = [StepOne(c) EXCEPT !.accumulator = 0]
<1>1. /\ ClockSource(e) = ClockSource(c) /\ NextValue(e) = NextValue(c)
      /\ HitTarget(e) = HitTarget(c) /\ ResetsAt(e) = ResetsAt(c)
      /\ Overflows(e) = Overflows(c) /\ WantsIrq(e) = WantsIrq(c) /\ Raises(e) = Raises(c)
  BY Zenon DEF ClockSource, NextValue, HitTarget, ResetsAt, Overflows, WantsIrq, Raises
<1>2. [StepOne(e) EXCEPT !.accumulator = 0] = [StepOne(c) EXCEPT !.accumulator = 0]
  BY <1>1 DEF StepOne, CounterState
<1> QED BY <1>1, <1>2

\* A cycle on top of some timer ticks: one more held back, or one more tick.
LEMMA CycleOfRemainder ==
  ASSUME NEW s \in Progress, NEW r \in Nat, r < ClockSource(s.counter)
  PROVE  Cycle[WithRemainder(s, r)] = IF r + 1 < ClockSource(s.counter)
                                      THEN WithRemainder(s, r + 1)
                                      ELSE WithRemainder(TimerTick[s], 0)
<1> DEFINE c == s.counter
           e == [c EXCEPT !.accumulator = r]
           w == WithRemainder(s, r)
<1>1. c \in CounterState /\ s.raised \in BOOLEAN /\ ClockSource(c) \in Nat
  BY ClockSourceType DEF Progress
<1>2. w \in Progress /\ w.counter = e /\ w.raised = s.raised
  BY WithRemainderFields
<1>3. /\ e \in CounterState /\ e.accumulator = r
      /\ ClockSource(e) = ClockSource(c) /\ Raises(e) = Raises(c)
      /\ [StepOne(e) EXCEPT !.accumulator = 0] = [StepOne(c) EXCEPT !.accumulator = 0]
  <2>1. /\ e \in CounterState /\ e.accumulator = r
        /\ e.ctl = c.ctl /\ e.div = c.div /\ e.value = c.value /\ e.target = c.target
        /\ e.armed = c.armed /\ e.reachedTarget = c.reachedTarget
        /\ e.reachedMax = c.reachedMax /\ e.irqFired = c.irqFired
    BY <1>1 DEF CounterState
  <2> HIDE DEF e
  <2> QED BY <1>1, <2>1, TickIgnoresRemainder
<1>4. [e EXCEPT !.accumulator = @ + 1] = [c EXCEPT !.accumulator = r + 1]
  BY <1>1 DEF CounterState
<1> HIDE DEF e, w
<1>5. Cycle[w] = [counter |-> TickCycle(e), raised |-> s.raised \/ CycleRaises(e)]
  BY <1>2 DEF Cycle
<1>6. CASE r + 1 < ClockSource(c)
  <2>1. ~ Divides(e)
    BY <1>1, <1>3, <1>6 DEF Divides
  <2>2. TickCycle(e) = [c EXCEPT !.accumulator = r + 1] /\ ~ CycleRaises(e)
    BY <1>4, <2>1 DEF TickCycle, CycleRaises
  <2>3. Cycle[w] = [counter |-> [c EXCEPT !.accumulator = r + 1], raised |-> s.raised]
    BY <1>1, <1>5, <2>2
  <2>4. WithRemainder(s, r + 1) = [counter |-> [c EXCEPT !.accumulator = r + 1],
                                   raised |-> s.raised]
    BY WithRemainderIs
  <2> QED BY <1>6, <2>3, <2>4 DEF w
<1>7. CASE ~ (r + 1 < ClockSource(c))
  <2>1. Divides(e)
    BY <1>1, <1>3, <1>7 DEF Divides
  <2>2. /\ TickCycle(e) = [StepOne(c) EXCEPT !.accumulator = 0]
        /\ CycleRaises(e) = Raises(c)
    BY <1>3, <2>1, Zenon DEF TickCycle, CycleRaises, Raises
  <2>3. Cycle[w] = [counter |-> [StepOne(c) EXCEPT !.accumulator = 0],
                    raised |-> s.raised \/ Raises(c)]
    BY <1>5, <2>2
  <2>4. TimerTick[s] = [counter |-> StepOne(c), raised |-> s.raised \/ Raises(c)]
    BY DEF TimerTick
  <2>5. WithRemainder(TimerTick[s], 0) = [counter |-> [StepOne(c) EXCEPT !.accumulator = 0],
                                          raised |-> s.raised \/ Raises(c)]
    BY <2>4 DEF WithRemainder
  <2> QED BY <1>7, <2>3, <2>5 DEF w
<1> QED BY <1>6, <1>7

\* Timer ticks leave the divider and its setting alone.
LEMMA TicksKeepTheDivider ==
  ASSUME NEW c \in CounterState
  PROVE  \A k \in Nat :
           /\ Iterated(TimerTick, Start(c), k) \in Progress
           /\ ClockSource(Iterated(TimerTick, Start(c), k).counter) = ClockSource(c)
<1> DEFINE M(k) == Iterated(TimerTick, Start(c), k)
           T == {k \in Nat : M(k).counter.ctl = c.ctl /\ M(k).counter.div = c.div}
<1>1. \A k \in Nat : M(k) \in Progress /\ M(k + 1) = TimerTick[M(k)] /\ M(0) = Start(c)
  BY ProgressType, Iteration
<1> HIDE DEF M
<1>2. 0 \in T
  BY <1>1 DEF Start
<1>3. ASSUME NEW k \in T PROVE k + 1 \in T
  <2>1. /\ k \in Nat /\ M(k) \in Progress /\ M(k).counter \in CounterState
        /\ M(k).counter.ctl = c.ctl /\ M(k).counter.div = c.div
    BY <1>1, <1>3 DEF Progress
  <2>2. M(k + 1).counter = StepOne(M(k).counter)
    <3>1. TimerTick[M(k)].counter = StepOne(M(k).counter)
      BY <2>1 DEF TimerTick
    <3> QED BY <1>1, <2>1, <3>1, Zenon
  <2> QED BY <2>1, <2>2, StepOneFields
<1> HIDE DEF T
<1>4. T = Nat
  <2>1. T \in SUBSET Nat
    BY DEF T
  <2> QED BY <1>2, <1>3, <2>1, Induction
<1> QED BY <1>1, <1>4 DEF T, M, ClockSource

\* Some cycles are as many timer ticks as the divider makes of them.
LEMMA CyclesAreTicks ==
  ASSUME NEW c, WellFormed(c)
  PROVE  \A n \in Nat :
           LET N == c.accumulator + n
               d == ClockSource(c)
           IN Iterated(Cycle, Start(c), n)
                = WithRemainder(Iterated(TimerTick, Start(c), N \div d), N % d)
<1> DEFINE d == ClockSource(c)
           N(n) == c.accumulator + n
           M(k) == Iterated(TimerTick, Start(c), k)
           C(n) == Iterated(Cycle, Start(c), n)
           T == {n \in Nat : C(n) = WithRemainder(M(N(n) \div d), N(n) % d)}
<1>1. /\ c \in CounterState /\ c.accumulator \in 0..(d - 1) /\ d \in Nat \ {0}
      /\ Start(c) \in Progress
  BY ClockSourceType, NextValueType, ProgressType DEF WellFormed
<1>2. \A k \in Nat : /\ M(k) \in Progress /\ ClockSource(M(k).counter) = d
                     /\ M(k + 1) = TimerTick[M(k)] /\ M(0) = Start(c)
  <2>1. \A k \in Nat : M(k) \in Progress /\ ClockSource(M(k).counter) = d
    BY <1>1, TicksKeepTheDivider
  <2>2. \A k \in Nat : M(k + 1) = TimerTick[M(k)] /\ M(0) = Start(c)
    <3>1. TimerTick \in [Progress -> Progress]
      BY ProgressType
    <3> QED BY <1>1, <3>1, Iteration
  <2> QED BY <2>1, <2>2, Zenon
<1>3. \A n \in Nat : C(n + 1) = Cycle[C(n)] /\ C(0) = Start(c)
  BY <1>1, ProgressType, Iteration
<1> HIDE DEF d, M, C
<1>4. 0 \in T
  <2>1. N(0) \div d = 0 /\ N(0) % d = c.accumulator
    BY <1>1, DivisionOfSmall
  <2>2. WithRemainder(Start(c), c.accumulator) = Start(c)
    <3>1. [c EXCEPT !.accumulator = c.accumulator] = c
      BY <1>1 DEF CounterState
    <3>2. WithRemainder(Start(c), c.accumulator)
            = [counter |-> [c EXCEPT !.accumulator = c.accumulator], raised |-> FALSE]
      <4>1. Start(c).counter = c /\ Start(c).raised = FALSE
        BY DEF Start
      <4> QED BY <1>1, <4>1, WithRemainderIs
    <3> QED BY <3>1, <3>2 DEF Start
  <2> QED BY <1>2, <1>3, <2>1, <2>2
<1>5. ASSUME NEW n \in T PROVE n + 1 \in T
  <2> DEFINE q == N(n) \div d
             r == N(n) % d
  <2>1. n \in Nat /\ C(n) = WithRemainder(M(q), r) /\ N(n) \in Nat /\ N(n + 1) = N(n) + 1
    <3>1. n \in Nat /\ C(n) = WithRemainder(M(q), r)
      BY <1>5
    <3>2. c.accumulator \in Nat
      BY <1>1
    <3>3. N(n) \in Nat /\ N(n + 1) = N(n) + 1
      BY <3>1, <3>2
    <3> HIDE DEF N, q, r
    <3> QED BY <3>1, <3>3
  <2> HIDE DEF N
  <2>2. q \in Nat /\ r \in 0..(d - 1)
    BY <1>1, <2>1, DivisionOfSuccessor
  <2>3. C(n + 1) = IF r + 1 < d THEN WithRemainder(M(q), r + 1)
                   ELSE WithRemainder(M(q + 1), 0)
    <3>1. M(q) \in Progress /\ r \in Nat /\ ClockSource(M(q).counter) = d /\ r < d
      BY <1>1, <1>2, <2>2
    <3> HIDE DEF q, r
    <3>2. Cycle[WithRemainder(M(q), r)] = IF r + 1 < d THEN WithRemainder(M(q), r + 1)
                                          ELSE WithRemainder(TimerTick[M(q)], 0)
      BY <3>1, CycleOfRemainder
    <3> QED BY <1>2, <1>3, <2>1, <2>2, <3>2
  <2>4. CASE r + 1 < d
    <3>1. N(n + 1) \div d = q /\ N(n + 1) % d = r + 1
      BY <1>1, <2>1, <2>4, DivisionOfSuccessor
    <3> QED BY <2>1, <2>3, <2>4, <3>1
  <2>5. CASE ~ (r + 1 < d)
    <3>1. r + 1 = d
      BY <1>1, <2>2, <2>5
    <3>2. N(n + 1) \div d = q + 1 /\ N(n + 1) % d = 0
      BY <1>1, <2>1, <3>1, DivisionOfSuccessor
    <3> QED BY <2>1, <2>3, <2>5, <3>2
  <2> QED BY <2>4, <2>5
<1> HIDE DEF T
<1>6. T = Nat
  <2>1. T \in SUBSET Nat
    BY DEF T
  <2> QED BY <1>4, <1>5, <2>1, Induction
<1> QED BY <1>6 DEF T, d, M, C

\* Counter::tick, for a batch of any length: the counter and the interrupt
\* are those of ticking cycle by cycle, as step_cpu_naive does.
THEOREM BatchedTicks ==
  ASSUME NEW c, WellFormed(c), NEW n \in Nat
  PROVE  Tick(c, n) = TickOneByOne(c, n)
<1> DEFINE N == c.accumulator + n
           d == ClockSource(c)
<1>1. c \in CounterState /\ N \in Nat /\ d \in Nat \ {0}
  BY ClockSourceType, NextValueType DEF WellFormed
<1>2. N \div d \in Nat
  BY <1>1, DivisionOfSuccessor
<1>3. Tick(c, n) = WithRemainder(Iterated(TimerTick, Start(c), N \div d), N % d)
  BY <1>1, <1>2, RunOfTicks DEF Tick, WithRemainder
<1>4. TickOneByOne(c, n) = Iterated(Cycle, Start(c), n)
  BY <1>1, RunOfCycles DEF TickOneByOne
<1> QED BY <1>3, <1>4, CyclesAreTicks

\* In every reachable state, for batches up to any bound: catch_up_devices may
\* batch the cycles that step_cpu_naive ticks one by one.
THEOREM BatchingIsInvisible == Spec => []BatchedTickIsPerCycle
<1>1. TimersInv => BatchedTickIsPerCycle
  BY TypeIsWellFormed, TimersAssumption, BatchedTicks DEF TimersInv, BatchedTickIsPerCycle
<1> QED
  BY <1>1, TimersInvariant, PTL

=============================================================================
