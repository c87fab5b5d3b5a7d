------------------------------- MODULE Timers -------------------------------
(***************************************************************************)
(* The three root counters (timers.rs, struct Timers) with the I_STAT bits *)
(* they set, cycle by cycle.  Two history variables record what the rest   *)
(* of the machine was told: `promise', the next-event estimate last given  *)
(* to the lazy scheduler, and `rung', the interrupts since the last mode   *)
(* write.                                                                  *)
(***************************************************************************)
EXTENDS Counter

CONSTANTS
  Indices,        \* the counters modelled, {0, 1, 2}
  DivOf,          \* DivOf[i]: divisor of counter i's slow source
  ModeWrites,     \* the control words software writes
  TargetWrites,   \* the targets it writes
  ValueWrites,    \* the values it writes
  MaxBatch        \* bound: the largest batched tick compared

ASSUME TimersAssumption ==
  /\ DivOf \in [Indices -> Divs]
  /\ ModeWrites \in SUBSET Control
  /\ TargetWrites \in SUBSET CounterValue
  /\ ValueWrites \in SUBSET CounterValue
  /\ MaxBatch \in Nat

VARIABLES
  counters,   \* Timers.counters
  iStat,      \* I_STAT, the lines of the timers (named by their index)
  promise,    \* promise[i]: cycles left of the last estimate, or NoEvent
  rung        \* rung[i]: interrupts since the last mode write, at most 2

vars == <<counters, iStat, promise, rung>>

Init ==
  /\ counters = [i \in Indices |-> NewCounter(DivOf[i])]
  /\ iStat = {}
  /\ promise = [i \in Indices |-> NoEvent]
  /\ rung = [i \in Indices |-> 0]

\* recompute_deadline asks every counter anew.
Estimates(cs) == [i \in Indices |-> CyclesToNextEvent(cs[i])]

Ringing == {i \in Indices : CycleRaises(counters[i])}

\* A promise runs down; the scheduler catches up and asks again at its end.
KeptPromise(i) ==
  IF promise[i] = NoEvent THEN NoEvent
  ELSE IF promise[i] > 1 THEN promise[i] - 1
  ELSE CyclesToNextEvent(TickCycle(counters[i]))

\* Timers::tick(1).
Tick1 ==
  /\ counters' = [i \in Indices |-> TickCycle(counters[i])]
  /\ iStat' = iStat \cup Ringing
  /\ promise' = [i \in Indices |-> KeptPromise(i)]
  /\ rung' = [i \in Indices |-> IF i \in Ringing /\ rung[i] < 2 THEN rung[i] + 1 ELSE rung[i]]

\* write16 and read16: the access, then the new estimates (step_cpu_scheduled
\* recomputes its deadline after an instruction that touched a register).
Access(i, c) ==
  /\ counters' = [counters EXCEPT ![i] = c]
  /\ promise' = Estimates([counters EXCEPT ![i] = c])
  /\ UNCHANGED iStat

WriteCounterMode(i, ctl) ==
  /\ Access(i, WriteMode(counters[i], ctl))
  /\ rung' = [rung EXCEPT ![i] = 0]

ReadCounterMode(i) == Access(i, ReadMode(counters[i])) /\ UNCHANGED rung

WriteValue(i, v) == Access(i, [counters[i] EXCEPT !.value = v]) /\ UNCHANGED rung

WriteTarget(i, t) == Access(i, [counters[i] EXCEPT !.target = t]) /\ UNCHANGED rung

\* Irq::write_stat.
Acknowledge(i) ==
  /\ iStat' = iStat \ {i}
  /\ UNCHANGED <<counters, promise, rung>>

Next ==
  \/ Tick1
  \/ \E i \in Indices :
       \/ \E ctl \in ModeWrites : WriteCounterMode(i, ctl)
       \/ ReadCounterMode(i)
       \/ \E v \in ValueWrites : WriteValue(i, v)
       \/ \E t \in TargetWrites : WriteTarget(i, t)
       \/ Acknowledge(i)

Spec == Init /\ [][Next]_vars

----------------------------------------------------------------------------
\* Types; the divider never holds a whole timer tick back ("the accumulator
\* is invariantly 0 on entry" of tick for the undivided source).
TypeOK ==
  /\ counters \in [Indices -> CounterState]
  /\ \A i \in Indices : counters[i].accumulator < ClockSource(counters[i])
  /\ iStat \in SUBSET Indices
  /\ promise \in [Indices -> (Nat \ {0}) \cup {NoEvent}]
  /\ rung \in [Indices -> 0..2]

\* "Conservative: it may return a value less than or equal to the true
\* next-event cycle, never larger" (cycles_to_next_event): no counter raises
\* its interrupt before the estimate the scheduler was last given has run out.
NoEarlyIrq ==
  \A i \in Indices : CycleRaises(counters[i]) => promise[i] = 1

\* The estimate is exact unless a target reset can put the overflow off: then
\* and only then the scheduler may wake up for nothing.
EstimateIsTight ==
  \A i \in Indices :
    LET c == counters[i]
    IN IrqPossible(c) /\ ~ (c.ctl.irqOnOverflow /\ c.ctl.resetOnTarget)
         => TickOneByOne(c, CyclesToNextEvent(c)).raised

\* A batched tick is bit for bit the same cycles ticked one by one: same
\* counter, same interrupt ("their batched tick is proven equivalent to
\* per-cycle stepping").
BatchedTickIsPerCycle ==
  \A i \in Indices : \A n \in 0..MaxBatch :
    Tick(counters[i], n) = TickOneByOne(counters[i], n)

\* A one-shot interrupts at most once per mode write.
OneShotRingsOnce ==
  \A i \in Indices : ~ counters[i].ctl.irqRepeat => rung[i] <= 1

\* The module comment of timers.rs, bit 10: "0 = an IRQ is currently being requested".
Bit10IsTheRequest ==
  \A i \in Indices : rung[i] > 0 /\ ~ counters[i].armed => i \in iStat
=============================================================================
