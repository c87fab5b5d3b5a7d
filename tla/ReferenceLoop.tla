--------------------------- MODULE ReferenceLoop ---------------------------
(***************************************************************************)
(* The machine as its reference loop runs it (PsxCore::step_cpu_naive):    *)
(* every device is ticked with every instruction, so the devices and the   *)
(* CPU always agree on the time.  This is the abstract specification the   *)
(* lazy scheduler has to implement.                                        *)
(*                                                                         *)
(* Host commands run between steps (`frameEnd = None'); a frame is a run   *)
(* of steps no command interrupts, closed by the VBlank.                   *)
(***************************************************************************)
EXTENDS Devices

CONSTANT None       \* no frame in progress, no snapshot taken

VARIABLES
  cycles,           \* Cpu.cycles
  ie,               \* SR.IEc
  seen,             \* what the I/O access of the last step returned, if any
  dev,              \* the devices
  iStat, iMask,     \* Irq
  frameEnd,         \* the local `target' of advance_frame
  snap              \* the last CoreSnapshot

vars == <<cycles, ie, seen, dev, iStat, iMask, frameEnd, snap>>
hostVars == <<frameEnd, snap>>

AtRest == frameEnd = None

Init ==
  /\ cycles = 0 /\ ie = FALSE /\ seen = {}
  /\ dev = InitDev /\ iStat = {} /\ iMask = {}
  /\ frameEnd = None /\ snap = None

(***************************************************************************)
(* One instruction.  The devices tick first, then the interrupt is polled, *)
(* then the instruction runs and its wait states are charged.              *)
(***************************************************************************)
TickedDev  == Advance(dev, 1)
TickedStat == iStat \cup Raised(dev, 1)

TakeInterrupt ==
  /\ cycles + 1 <= Horizon
  /\ cycles' = cycles + 1
  /\ TakesInterrupt(TickedStat, iMask, ie)
  /\ dev' = TickedDev /\ iStat' = TickedStat
  /\ ie' = FALSE /\ seen' = {}
  /\ UNCHANGED <<iMask, hostVars>>

Execute(a, extra) ==
  /\ cycles + 1 + extra <= Horizon
  /\ cycles' = cycles + 1 + extra
  /\ iMask' = IoMask(a, iMask)
  /\ ~ TakesInterrupt(TickedStat, iMask, ie)
  /\ dev' = Advance(IoDev(a, TickedDev), extra)
  /\ iStat' = IoStat(a, TickedDev, TickedStat) \cup Raised(IoDev(a, TickedDev), extra)
  /\ seen' = IoSeen(a, TickedDev, TickedStat)
  /\ ie' \in BOOLEAN /\ (a.reg # "none" => ie' = ie)
  /\ UNCHANGED hostVars

Step == TakeInterrupt \/ \E a \in IoAccess \cup {NoIo}, extra \in Extras : Execute(a, extra)

StepCpu == AtRest /\ Step

FrameRuns == frameEnd # None /\ cycles < frameEnd /\ Step

\* Command::FrameStep, and Command::StepFrame unless paused.
BeginFrame ==
  /\ AtRest
  /\ cycles + FrameCycles + MaxExtra <= Horizon
  /\ frameEnd' = cycles + FrameCycles /\ seen' = {}
  /\ UNCHANGED <<cycles, ie, dev, iStat, iMask, snap>>

EndFrame ==
  /\ frameEnd # None /\ cycles >= frameEnd
  /\ iStat' = iStat \cup {VBlank}
  /\ frameEnd' = None /\ seen' = {}
  /\ UNCHANGED <<cycles, ie, dev, iMask, snap>>

(***************************************************************************)
(* Host commands and calls.                                                *)
(***************************************************************************)
\* store8 .. load32: a bus access outside any instruction.
OneOff(a) ==
  /\ AtRest
  /\ dev' = IoDev(a, dev) /\ iStat' = IoStat(a, dev, iStat)
  /\ iMask' = IoMask(a, iMask) /\ seen' = IoSeen(a, dev, iStat)
  /\ UNCHANGED <<cycles, ie, hostVars>>

HostPoke(c) ==
  /\ AtRest
  /\ dev' = Poke(c, dev) /\ seen' = {}
  /\ UNCHANGED <<cycles, ie, iStat, iMask, hostVars>>

Snapshot(d, stat) ==
  [cycles |-> cycles, ie |-> ie, dev |-> d,
   iStat |-> stat, iMask |-> iMask]

SaveState ==
  /\ AtRest /\ cycles \in SavePoints
  /\ snap' = Snapshot(dev, iStat) /\ seen' = {}
  /\ UNCHANGED <<cycles, ie, dev, iStat, iMask, frameEnd>>

LoadState ==
  /\ AtRest /\ snap # None
  /\ cycles' = snap.cycles /\ ie' = snap.ie /\ seen' = {}
  /\ dev' = snap.dev /\ iStat' = snap.iStat /\ iMask' = snap.iMask
  /\ UNCHANGED <<frameEnd, snap>>

\* Command::Reset and Command::LoadBios: cpu.reset(), the devices keep running.
Reset ==
  /\ AtRest
  /\ cycles' = 0 /\ ie' = FALSE /\ seen' = {}
  /\ UNCHANGED <<dev, iStat, iMask, hostVars>>

Next ==
  \/ StepCpu \/ FrameRuns \/ EndFrame
  \/ BeginFrame
  \/ \E a \in IoAccess : OneOff(a)
  \/ \E c \in Pokes : HostPoke(c)
  \/ SaveState \/ LoadState \/ Reset

Spec == Init /\ [][Next]_vars
=============================================================================
