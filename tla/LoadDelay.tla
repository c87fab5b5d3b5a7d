----------------------------- MODULE LoadDelay ------------------------------
(***************************************************************************)
(* The load delay slot (cpu/execute.rs, cpu/engine.rs): two register banks *)
(* and one pending load, with interrupts and faults anywhere and a handler *)
(* that saves, uses and restores a register.                               *)
(*                                                                         *)
(* The program executes any instructions; addresses are an aligned word    *)
(* and an offset into it.  pending is NoLoad for the code's register 0.    *)
(***************************************************************************)
EXTENDS Bytes

CONSTANTS
  Regs,             \* the registers, register 0 apart
  Kept,             \* the one the handler saves and restores
  Aligned,          \* addresses of aligned words
  Start,            \* the value every register has at reset
  NoLoad, None,
  MaxProgram, MaxTraps   \* bounds: instructions executed, traps taken

ASSUME LoadAssumption ==
  /\ Kept \in Regs /\ Start \in Word
  /\ NoLoad \notin [reg : Regs, value : Word]

VARIABLES
  regs, outRegs,    \* Cpu.regs and out_regs
  pending,          \* Cpu.pending_load
  memory, cop,      \* main memory; a coprocessor's register
  mode,             \* where the CPU is: in the program or in the handler
  saved,            \* the handler's copy of Kept
  half, whole,      \* history: the last instruction was half of, or
                    \* completed, an unaligned load
  executed, trapped

cpu    == <<regs, outRegs, pending>>
ghosts == <<half, whole>>
vars   == <<cpu, memory, cop, mode, saved, ghosts, executed, trapped>>

Modes == {"program", "entry", "save", "use", "restore", "return", "rfe"}

Init ==
  /\ regs = [r \in Regs |-> Start] /\ outRegs = regs /\ pending = NoLoad
  /\ memory \in [Aligned -> Word] /\ cop = Start
  /\ mode = "program" /\ saved = Start
  /\ half = None /\ whole = None
  /\ executed = 0 /\ trapped = 0

-----------------------------------------------------------------------------
(* step: the pending load goes into the output bank, the instruction reads *)
(* the input bank and writes the output bank, and the output bank becomes  *)
(* the input bank.                                                         *)

Committed ==
  IF pending = NoLoad THEN outRegs ELSE [outRegs EXCEPT ![pending.reg] = pending.value]

Publish(bank) == outRegs' = bank /\ regs' = bank

\* An instruction that writes no register, or r.
NoWrite == Publish(Committed) /\ pending' = NoLoad
Write(r, value) == Publish([Committed EXCEPT ![r] = value]) /\ pending' = NoLoad

\* Mutant: the load that has just been committed is not squashed.
QueueLoad_Leaks(r, value) ==
  /\ Publish(Committed)
  /\ pending' = [reg |-> r, value |-> value]

QueueLoad(r, value) ==
  /\ Publish([Committed EXCEPT ![r] = regs[r]])
  /\ pending' = [reg |-> r, value |-> value]

\* Mutant: LWL and LWR merge with the register as the instruction reads it.
Current_Read(r) == regs[r]

\* LWL and LWR merge with the output bank.
Current(r) == Committed[r]

-----------------------------------------------------------------------------
(* The program's instructions. *)

InProgram ==
  /\ mode = "program" /\ executed < MaxProgram
  /\ executed' = executed + 1
  /\ UNCHANGED <<mode, saved, trapped>>

Other == half' = None /\ whole' = None

\* r holds half of the word at a + k, whose other half is the next instruction's
\* or was the last one's.
Half(side, r, a, k) ==
  LET this == [side |-> side, reg |-> r, at |-> a, offset |-> k]
  IN /\ half' = this
     /\ whole' = IF half # None /\ half.side # side /\ [half EXCEPT !.side = side] = this
                 THEN [reg |-> r, at |-> a, offset |-> k] ELSE None

LoadWord ==
  \E r \in Regs, a \in Aligned :
    InProgram /\ QueueLoad(r, memory[a]) /\ Other /\ UNCHANGED <<memory, cop>>

\* The unaligned word at a + k, k in 1..3: LWL takes its high bytes from the next
\* aligned word, LWR its low bytes from this one.
LoadHalf ==
  \E r \in Regs, a \in Aligned, k \in 1..3 :
    /\ InProgram /\ UNCHANGED <<memory, cop>>
    /\ \/ /\ a + 4 \in Aligned
          /\ QueueLoad(r, LoadLeft(Current(r), memory[a + 4], k - 1))
          /\ Half("left", r, a, k)
       \/ QueueLoad(r, LoadRight(Current(r), memory[a], k)) /\ Half("right", r, a, k)

\* MFC0, MFC2, CFC2.
MoveFrom ==
  \E r \in Regs : InProgram /\ QueueLoad(r, cop) /\ Other /\ UNCHANGED <<memory, cop>>

\* Any instruction that computes a register from another.
Move ==
  \E r, s \in Regs : InProgram /\ Write(r, regs[s]) /\ Other /\ UNCHANGED <<memory, cop>>

\* SW, SWL, SWR.
Store ==
  \E s \in Regs, a \in Aligned, k \in 0..3 :
    /\ InProgram /\ NoWrite /\ Other /\ UNCHANGED cop
    /\ \/ memory' = [memory EXCEPT ![a] = regs[s]]
       \/ memory' = [memory EXCEPT ![a] = StoreLeft(@, regs[s], k)]
       \/ memory' = [memory EXCEPT ![a] = StoreRight(@, regs[s], k)]

\* MTC0, MTC2, CTC2.
MoveTo ==
  \E s \in Regs : InProgram /\ NoWrite /\ cop' = regs[s] /\ Other /\ UNCHANGED memory

\* LWC2 and SWC2: between memory and the coprocessor at once, with no delay.
CoprocessorLoad ==
  \E a \in Aligned : InProgram /\ NoWrite /\ cop' = memory[a] /\ Other /\ UNCHANGED memory

CoprocessorStore ==
  \E a \in Aligned :
    /\ InProgram /\ NoWrite /\ Other /\ UNCHANGED cop
    /\ memory' = [memory EXCEPT ![a] = cop]

\* RFE, a coprocessor instruction that does nothing, a store with the cache isolated:
\* the load before it lands, and that is all.
Command == InProgram /\ NoWrite /\ Other /\ UNCHANGED <<memory, cop>>

-----------------------------------------------------------------------------
(* Exceptions, and a handler whose first instruction saves nothing yet. *)

\* An interrupt, or a fetch that faults: nothing is committed.
TakeInterrupt ==
  /\ mode = "program" /\ trapped < MaxTraps
  /\ mode' = "entry" /\ trapped' = trapped + 1
  /\ UNCHANGED <<cpu, memory, cop, saved, ghosts, executed>>

\* An instruction that faults or traps in its execution.
Fault ==
  /\ mode = "program" /\ trapped < MaxTraps
  /\ NoWrite
  /\ mode' = "entry" /\ trapped' = trapped + 1
  /\ UNCHANGED <<memory, cop, saved, ghosts, executed>>

HandlerStep(from, to) ==
  /\ mode = from /\ mode' = to
  /\ UNCHANGED <<memory, cop, ghosts, executed, trapped>>

HandlerEnters  == HandlerStep("entry", "save") /\ NoWrite /\ UNCHANGED saved
HandlerSaves   == HandlerStep("save", "use") /\ NoWrite /\ saved' = regs[Kept]
HandlerUses    == HandlerStep("use", "restore") /\ Write(Kept, Start) /\ UNCHANGED saved
HandlerReloads == HandlerStep("restore", "return") /\ QueueLoad(Kept, saved) /\ UNCHANGED saved
HandlerJumps   == HandlerStep("return", "rfe") /\ NoWrite /\ UNCHANGED saved
HandlerReturns == HandlerStep("rfe", "program") /\ NoWrite /\ UNCHANGED saved

Handler ==
  HandlerEnters \/ HandlerSaves \/ HandlerUses \/ HandlerReloads \/ HandlerJumps \/ HandlerReturns

\* A state saved and loaded: the snapshot has one bank, and the load in flight.
RoundTrip ==
  /\ outRegs' = regs
  /\ UNCHANGED <<regs, pending, memory, cop, mode, saved, ghosts, executed, trapped>>

Next ==
  \/ LoadWord \/ LoadHalf \/ MoveFrom \/ Move \/ Store \/ MoveTo
  \/ CoprocessorLoad \/ CoprocessorStore \/ Command
  \/ TakeInterrupt \/ Fault \/ Handler \/ RoundTrip

Spec == Init /\ [][Next]_vars

-----------------------------------------------------------------------------
\* Registers and words are what they should be, and the banks agree between
\* instructions.
TypeOK ==
  /\ regs \in [Regs -> Word] /\ outRegs = regs
  /\ pending \in [reg : Regs, value : Word] \cup {NoLoad}
  /\ memory \in [Aligned -> Word] /\ cop \in Word /\ saved \in Word
  /\ mode \in Modes

\* The word at a + k, and the value a register has or is about to have.
WordAt(a, k) == [i \in 0..3 |-> IF i + k < 4 THEN memory[a][i + k] ELSE memory[a + 4][i + k - 4]]
Arriving(r)  == IF pending # NoLoad /\ pending.reg = r THEN pending.value ELSE regs[r]

\* An LWL and an LWR of the same word, in either order and with nothing of the
\* program between them, leave that word, though the first has not reached the
\* register when the second merges with it, and wherever an interrupt falls.
UnalignedLoadsCompose ==
  mode = "program" /\ whole # None => Arriving(whole.reg) = WordAt(whole.at, whole.offset)

\* The program sees the handler neither in its registers nor in its loads: what
\* the handler holds in Kept is hidden until it has been restored.
Inside == mode \in {"use", "restore", "return", "rfe"}
Order == INSTANCE LoadOrder WITH
  file    <- IF Inside THEN [regs EXCEPT ![Kept] = saved] ELSE regs,
  landing <- IF Inside THEN NoLoad ELSE pending

RefinesLoadOrder == Order!Spec
=============================================================================
