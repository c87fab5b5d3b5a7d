------------------------------ MODULE Counter ------------------------------
(***************************************************************************)
(* One root counter (timers.rs, struct Counter) as a value and the         *)
(* functions on it.  The 16-bit value and target wrap at Wrap (2^16 in the *)
(* code), the mode register is a record of its bits, the bits without an   *)
(* effect on counting (0-2 sync, 7 toggle) left out.                       *)
(***************************************************************************)
EXTENDS Integers

CONSTANTS
  Wrap,   \* 2^16: the counter value is a number modulo Wrap
  Divs    \* CPU cycles per tick of the slow clock sources: {6, 2172, 8}

ASSUME CounterAssumption == Wrap \in Nat \ {0} /\ Divs \in SUBSET (Nat \ {0})

CounterValue == 0..(Wrap - 1)

\* The control bits of a mode write: 3, 4, 5, 6 and the clock source (8-9).
Control == [resetOnTarget : BOOLEAN, irqOnTarget : BOOLEAN,
            irqOnOverflow : BOOLEAN, irqRepeat : BOOLEAN, slow : BOOLEAN]

CounterState ==
  [div : Divs,                \* slow divisor, fixed by the counter's index
   value : CounterValue, target : CounterValue, ctl : Control,
   armed : BOOLEAN,           \* bit 10
   reachedTarget : BOOLEAN,   \* bit 11
   reachedMax : BOOLEAN,      \* bit 12
   accumulator : Nat,
   irqFired : BOOLEAN]

NoControl == [resetOnTarget |-> FALSE, irqOnTarget |-> FALSE,
              irqOnOverflow |-> FALSE, irqRepeat |-> FALSE, slow |-> FALSE]

NewCounter(div) ==
  [div |-> div, value |-> 0, target |-> 0, ctl |-> NoControl, armed |-> FALSE,
   reachedTarget |-> FALSE, reachedMax |-> FALSE, accumulator |-> 0, irqFired |-> FALSE]

\* Counter::clock_source.
ClockSource(c) == IF c.ctl.slow THEN c.div ELSE 1

ReadMode(c) == [c EXCEPT !.reachedTarget = FALSE, !.reachedMax = FALSE]

\* Mutant: the fractional cycles survive the mode write.
WriteMode_KeepsAccumulator(c, ctl) ==
  [c EXCEPT !.ctl = ctl, !.armed = TRUE, !.reachedTarget = FALSE, !.reachedMax = FALSE,
            !.value = 0, !.irqFired = FALSE]

WriteMode(c, ctl) ==
  [c EXCEPT !.ctl = ctl, !.armed = TRUE, !.reachedTarget = FALSE, !.reachedMax = FALSE,
            !.value = 0, !.accumulator = 0, !.irqFired = FALSE]

(***************************************************************************)
(* step_one: one timer tick.  The conditions look at the counter before    *)
(* its value moves.                                                        *)
(***************************************************************************)
NextValue(c)  == IF c.value + 1 = Wrap THEN 0 ELSE c.value + 1
HitTarget(c)  == NextValue(c) = c.target
ResetsAt(c)   == HitTarget(c) /\ c.ctl.resetOnTarget
Overflows(c)  == c.value + 1 = Wrap /\ ~ ResetsAt(c)

\* raise() is called at the target, at the overflow, or at both.
WantsIrq(c) ==
  \/ HitTarget(c) /\ c.ctl.irqOnTarget
  \/ Overflows(c) /\ c.ctl.irqOnOverflow

\* Mutant: the one-shot latch is not consulted.
Raises_IgnoresLatch(c) == WantsIrq(c)

\* raise(): a spent one-shot stays silent.
Raises(c) == WantsIrq(c) /\ (c.ctl.irqRepeat \/ ~ c.irqFired)

StepOne(c) ==
  [c EXCEPT !.value = IF ResetsAt(c) THEN 0 ELSE NextValue(c),
            !.reachedTarget = @ \/ HitTarget(c),
            !.reachedMax = @ \/ Overflows(c),
            !.armed = @ /\ ~ Raises(c),
            !.irqFired = @ \/ (Raises(c) /\ ~ c.ctl.irqRepeat)]

(***************************************************************************)
(* tick(1): the divider turns CPU cycles into timer ticks.                 *)
(***************************************************************************)
Divides(c) == c.accumulator + 1 >= ClockSource(c)

TickCycle(c) ==
  IF Divides(c) THEN [StepOne(c) EXCEPT !.accumulator = 0]
                ELSE [c EXCEPT !.accumulator = @ + 1]

CycleRaises(c) == Divides(c) /\ Raises(c)

(***************************************************************************)
(* tick(cycles), the batch of catch_up_devices: one division, then the     *)
(* timer ticks it yields.                                                  *)
(***************************************************************************)
\* Run(step, raises, c, k): c after k steps, and whether one of them raised.
Run(step(_), raises(_), c, k) ==
  LET run[i \in 0..k] ==
        IF i = 0 THEN [counter |-> c, raised |-> FALSE]
        ELSE LET prev == run[i - 1]
             IN [counter |-> step(prev.counter),
                 raised  |-> prev.raised \/ raises(prev.counter)]
  IN run[k]

\* Mutant: the remainder of the division is dropped.
Tick_DropsRemainder(c, cycles) ==
  LET after == Run(StepOne, Raises, c, (c.accumulator + cycles) \div ClockSource(c))
  IN [after EXCEPT !.counter.accumulator = 0]

Tick(c, cycles) ==
  LET after == Run(StepOne, Raises, c, (c.accumulator + cycles) \div ClockSource(c))
  IN [after EXCEPT !.counter.accumulator = (c.accumulator + cycles) % ClockSource(c)]

\* The same cycles, ticked one at a time as step_cpu_naive does.
TickOneByOne(c, cycles) == Run(TickCycle, CycleRaises, c, cycles)

(***************************************************************************)
(* cycles_to_next_event.                                                   *)
(***************************************************************************)
NoEvent == -1     \* None

StepsToTarget(c)   == IF c.target > c.value THEN c.target - c.value
                                            ELSE Wrap + c.target - c.value

StepsToOverflow(c) == Wrap - c.value

IrqPossible(c) ==
  /\ c.ctl.irqOnTarget \/ c.ctl.irqOnOverflow
  /\ c.ctl.irqRepeat \/ ~ c.irqFired

\* Mutant: the target alone decides whenever it is enabled.
StepsToEvent_TargetFirst(c) ==
  IF c.ctl.irqOnTarget THEN StepsToTarget(c) ELSE StepsToOverflow(c)

StepsToEvent(c) ==
  IF ~ c.ctl.irqOnOverflow \/ (c.ctl.irqOnTarget /\ StepsToTarget(c) <= StepsToOverflow(c))
  THEN StepsToTarget(c) ELSE StepsToOverflow(c)

CyclesOf(c) == StepsToEvent(c) * ClockSource(c) - c.accumulator

\* Mutant: the cycles already in the accumulator are counted twice.
CyclesToNextEvent_Early(c) ==
  IF ~ IrqPossible(c) THEN NoEvent
  ELSE IF CyclesOf(c) - c.accumulator > 1 THEN CyclesOf(c) - c.accumulator ELSE 1

CyclesToNextEvent(c) ==
  IF ~ IrqPossible(c) THEN NoEvent
  ELSE IF CyclesOf(c) > 1 THEN CyclesOf(c) ELSE 1
=============================================================================
