------------------------------ MODULE Devices ------------------------------
(***************************************************************************)
(* What the two step loops of psoxide-core (api.rs) know of the machine's  *)
(* per-cycle devices: timers, CD-ROM, SPU and SIO0, taken together as one  *)
(* composite state that is ticked, that raises I_STAT bits, that estimates *)
(* its next event and that a bus access or a host command changes.         *)
(*                                                                         *)
(* The devices themselves are parameters.  The contract below states what  *)
(* the scheduler needs of them; Timers, Cdrom, Sio0 and Spu model them.    *)
(***************************************************************************)
EXTENDS Integers

CONSTANTS
  DevState,         \* the states of the composite device
  InitDev,          \* its power-on state
  Advance(_, _),    \* Advance(d, n): d after a tick of n cycles
  Raised(_, _),     \* Raised(d, n): the I_STAT bits those n cycles set
  NextEvent(_),     \* cycles_to_next_event(), or Never for None
  Ops,              \* device-register accesses
  Apply(_, _),      \* Apply(op, d): the device state after the access
  Value(_, _),      \* Value(op, d): the value a read returns
  Sets(_, _),       \* Sets(op, d): I_STAT bits the access itself sets (DMA)
  Pokes,            \* host commands that change a device without a sync
  Poke(_, _),       \* Poke(c, d): the device state after the command
  IrqWrites,        \* the values software writes to I_STAT and I_MASK
  Lines,            \* interrupt lines, as bit indices of I_STAT
  Never             \* "no event pending" (None, u64::MAX)

CONSTANTS
  VBlank,           \* the line advance_frame raises
  MaxExtra,         \* most wait states one instruction is charged
  FrameCycles,      \* CYCLES_PER_FRAME
  SavePoints,       \* bound: the cycles at which the host takes a save state
  Horizon           \* bound: no clock of the model passes this cycle

ASSUME BoundsAssumption ==
  /\ Horizon \in Nat
  /\ MaxExtra \in Nat
  /\ FrameCycles \in Nat \ {0}
  /\ VBlank \in Lines
  /\ IrqWrites \in SUBSET SUBSET Lines
  /\ Never \notin Int

Span   == 0..Horizon
Extras == 0..MaxExtra

(***************************************************************************)
(* The contract between the devices and the lazy scheduler: what           *)
(* catch_up_devices and recompute_deadline rely on.  The comment of        *)
(* catch_up_devices claims BatchedTick ("their batched tick is proven      *)
(* equivalent to per-cycle stepping"), the comments of                     *)
(* cycles_to_next_event claim ConservativeDeadline.                        *)
(***************************************************************************)
ASSUME DeviceTypes ==
  /\ InitDev \in DevState
  /\ \A d \in DevState :
       /\ \A n \in Span : Advance(d, n) \in DevState /\ Raised(d, n) \in SUBSET Lines
       /\ NextEvent(d) \in (Nat \ {0}) \cup {Never}
       /\ \A op \in Ops : Apply(op, d) \in DevState
                          /\ Value(op, d) \in SUBSET Int
                          /\ Sets(op, d) \in SUBSET Lines
       /\ \A c \in Pokes : Poke(c, d) \in DevState

ASSUME LinesAreBits == Lines \in SUBSET Int

\* Ticking no cycles changes nothing.
ASSUME EmptyTick == \A d \in DevState : Advance(d, 0) = d /\ Raised(d, 0) = {}

\* A tick of m + n cycles is a tick of m followed by a tick of n.
ASSUME BatchedTick ==
  \A d \in DevState : \A m, n \in Span :
    m + n <= Horizon =>
      /\ Advance(d, m + n) = Advance(Advance(d, m), n)
      /\ Raised(d, m + n) = Raised(d, m) \cup Raised(Advance(d, m), n)

\* No I_STAT bit is set before the announced next event.
ASSUME ConservativeDeadline ==
  \A d \in DevState : \A n \in Span :
    (NextEvent(d) = Never \/ n < NextEvent(d)) => Raised(d, n) = {}

\* The host commands that api.rs applies without a sync commute with time.
ASSUME PokesCommute ==
  \A c \in Pokes : \A d \in DevState : \A n \in Span :
    /\ Poke(c, Advance(d, n)) = Advance(Poke(c, d), n)
    /\ Raised(Poke(c, d), n) = Raised(d, n)

(***************************************************************************)
(* What an instruction does on the bus.  Only accesses of the I/O window   *)
(* reach a device or the interrupt controller; NoIo is every instruction   *)
(* that does not.                                                          *)
(***************************************************************************)
NoIo == [reg |-> "none", op |-> "none"]
DeviceIo == [reg : {"device"}, op : Ops]
IrqIo == [reg : {"ackStat", "mask"}, op : IrqWrites]
           \cup [reg : {"readStat"}, op : {{}}]
IoAccess == DeviceIo \cup IrqIo

IoDev(a, d) == IF a.reg = "device" THEN Apply(a.op, d) ELSE d

\* Irq::write_stat keeps the bits written as 1; Irq::set ORs a line in.
IoStat(a, d, stat) ==
  CASE a.reg = "device"  -> stat \cup Sets(a.op, d)
    [] a.reg = "ackStat" -> stat \cap a.op
    [] OTHER             -> stat

IoMask(a, mask) == IF a.reg = "mask" THEN a.op ELSE mask

IoSeen(a, d, stat) ==
  CASE a.reg = "device"   -> Value(a.op, d)
    [] a.reg = "readStat" -> stat
    [] OTHER              -> {}

\* Irq::pending and the IEc test of poll_interrupt.
TakesInterrupt(stat, mask, ie) == ie /\ stat \cap mask # {}
=============================================================================
