------------------------------ MODULE Pipeline ------------------------------
(***************************************************************************)
(* The control flow of the CPU (cpu/execute.rs and cpu/engine.rs): program *)
(* counters, branch delay slots, exceptions and interrupts, with a handler *)
(* that returns the way every handler does (jr to the address it worked    *)
(* out from EPC, rfe in the delay slot).                                   *)
(*                                                                         *)
(* Instructions and addresses are those of Code.  Whether the interrupt    *)
(* line is up and unmasked is the environment's choice at every poll.      *)
(***************************************************************************)
EXTENDS Code

CONSTANTS
  Handler,      \* the exception vector; the handler is three words long
  None

HandlerBody == Handler..(Handler + 2)

\* Only an exception leads into the handler.
ASSUME HandlerAssumption ==
  /\ Handler \in Int /\ None \notin Int
  /\ HandlerBody \cap (DOMAIN Program \cup Misaligned) = {}
  /\ \A a \in DOMAIN Program :
       a + 1 \notin HandlerBody /\ Program[a].targets \cap HandlerBody = {}

VARIABLES
  pc, nextPc,   \* Cpu.pc and next_pc
  branch,       \* the last instruction was a taken branch
  delaySlot,    \* Cpu.delay_slot
  sr,           \* the IE bits of the three-deep stack in SR
  epc, bd,      \* EPC, and the BD bit of CAUSE
  cause,        \* its ExcCode
  retired,      \* history: parity of the effects so far
  slotOf,       \* history: the taken branch whose delay slot is next, or None
  wanted,       \* history: the program has enabled interrupts
  snap          \* a CpuSnapshot, or None

flow   == <<pc, nextPc, branch, delaySlot>>
trap   == <<epc, bd, cause>>
ghosts == <<retired, slotOf, wanted>>
vars   == <<flow, sr, trap, ghosts, snap>>

InHandler == pc \in HandlerBody

Causes == {"interrupt", "trap", "fault", "address", "bus"}

Init ==
  /\ pc = Entry /\ nextPc = Entry + 1
  /\ branch = FALSE /\ delaySlot = FALSE
  /\ sr = [c |-> FALSE, p |-> FALSE, o |-> FALSE]
  /\ epc = 0 /\ bd = FALSE /\ cause = "interrupt"
  /\ retired = 0 /\ slotOf = None /\ wanted = FALSE
  /\ snap = None

(***************************************************************************)
(* enter_exception, with the delay_slot flag as its callers leave it.      *)
(***************************************************************************)
Pushed(s) == [c |-> FALSE, p |-> s.c, o |-> s.p]

EnterException(why, inSlot) ==
  /\ sr' = Pushed(sr)
  /\ bd' = inSlot
  /\ epc' = IF inSlot THEN pc - 1 ELSE pc
  /\ cause' = why
  /\ pc' = Handler /\ nextPc' = Handler + 1
  /\ branch' = FALSE /\ delaySlot' = FALSE
  /\ slotOf' = None
  /\ UNCHANGED <<retired, wanted, snap>>

\* Mutant: delay_slot is not brought up to date.
TakeInterrupt_StaleSlot == sr.c /\ EnterException("interrupt", delaySlot)

\* poll_interrupt, with the line up and unmasked.
TakeInterrupt == sr.c /\ EnterException("interrupt", branch)

(***************************************************************************)
(* step: the fetch.                                                        *)
(***************************************************************************)
\* The misaligned case leaves delay_slot as the last instruction set it.
FetchMisaligned == pc \in Misaligned /\ EnterException("address", delaySlot)

FetchBad == pc \notin DOMAIN Program \cup Misaligned \cup HandlerBody

\* Mutant: the bus-error case leaves it too.
FetchBusError_StaleSlot == FetchBad /\ EnterException("bus", delaySlot)

FetchBusError == FetchBad /\ EnterException("bus", branch)

(***************************************************************************)
(* step: the instruction.                                                  *)
(***************************************************************************)
Advance ==
  /\ pc' = nextPc /\ nextPc' = nextPc + 1
  /\ delaySlot' = branch /\ branch' = FALSE
  /\ slotOf' = None
  /\ UNCHANGED <<trap, snap>>

Plain ==
  /\ Holds(pc, {"plain", "flaky"})
  /\ Advance
  /\ retired' = 1 - retired
  /\ UNCHANGED <<sr, wanted>>

Fault == Holds(pc, {"flaky"}) /\ EnterException("fault", branch)

Trap == Holds(pc, {"trap"}) /\ EnterException("trap", branch)

Enable ==
  /\ Holds(pc, {"enable"})
  /\ Advance
  /\ sr' = [sr EXCEPT !.c = TRUE]
  /\ wanted' = TRUE
  /\ UNCHANGED retired

NotTaken ==
  /\ Holds(pc, {"branch"})
  /\ Advance
  /\ UNCHANGED <<sr, retired, wanted>>

\* Mutant: a taken branch is not remembered.
JumpTo_NoFlag(target) ==
  /\ pc' = nextPc /\ nextPc' = target
  /\ delaySlot' = branch /\ branch' = FALSE
  /\ slotOf' = pc
  /\ UNCHANGED <<sr, trap, retired, wanted, snap>>

JumpTo(target) ==
  /\ pc' = nextPc /\ nextPc' = target
  /\ delaySlot' = branch /\ branch' = TRUE
  /\ slotOf' = pc
  /\ UNCHANGED <<sr, trap, retired, wanted, snap>>

Taken ==
  /\ Holds(pc, {"branch", "jump"})
  /\ \E target \in Program[pc].targets : JumpTo(target)

(***************************************************************************)
(* The handler resumes behind a trap, at the faulting instruction (or the  *)
(* branch before it), or at the program's entry when it went astray.       *)
(***************************************************************************)
Resume ==
  CASE cause \in {"interrupt", "fault"} -> epc
    [] cause = "trap"                   -> epc + 1
    [] cause \in {"address", "bus"}     -> Entry

HandlerBegins ==
  /\ pc = Handler
  /\ Advance
  /\ UNCHANGED <<sr, retired, wanted>>

HandlerReturns == pc = Handler + 1 /\ JumpTo(Resume)

\* Mutant: the popped stack loses its previous pair too.
Popped_Twice(s) == [c |-> s.o, p |-> s.o, o |-> s.o]

\* rfe keeps the old pair.
Popped(s) == [c |-> s.p, p |-> s.o, o |-> s.o]

Rfe ==
  /\ pc = Handler + 2
  /\ Advance
  /\ sr' = Popped(sr)
  /\ UNCHANGED <<retired, wanted>>

(***************************************************************************)
(* Cpu::reset, snapshot and restore.                                       *)
(***************************************************************************)
Reset ==
  /\ pc' = Entry /\ nextPc' = Entry + 1
  /\ branch' = FALSE /\ delaySlot' = FALSE
  /\ sr' = [c |-> FALSE, p |-> FALSE, o |-> FALSE]
  /\ epc' = 0 /\ bd' = FALSE /\ cause' = "interrupt"
  /\ slotOf' = None /\ wanted' = FALSE
  /\ UNCHANGED <<retired, snap>>

Saved ==
  [pc |-> pc, nextPc |-> nextPc, sr |-> sr, epc |-> epc, bd |-> bd, cause |-> cause,
   retired |-> retired, slotOf |-> slotOf, wanted |-> wanted]

SaveState == snap' = Saved /\ UNCHANGED <<flow, sr, trap, ghosts>>

\* Neither flag is part of CpuSnapshot.
LoadState ==
  /\ snap # None
  /\ pc' = snap.pc /\ nextPc' = snap.nextPc
  /\ branch' = FALSE /\ delaySlot' = FALSE
  /\ sr' = snap.sr /\ epc' = snap.epc /\ bd' = snap.bd /\ cause' = snap.cause
  /\ retired' = snap.retired /\ slotOf' = snap.slotOf /\ wanted' = snap.wanted
  /\ UNCHANGED snap

Exception == TakeInterrupt \/ FetchMisaligned \/ FetchBusError \/ Fault \/ Trap

Next ==
  \/ TakeInterrupt \/ FetchMisaligned \/ FetchBusError \/ Fault \/ Trap
  \/ Plain \/ Enable \/ NotTaken \/ Taken
  \/ HandlerBegins \/ HandlerReturns \/ Rfe
  \/ Reset

Spec == Init /\ [][Next]_vars

\* The same CPU in a machine whose state is saved and restored.
SnapshotSpec == Init /\ [][Next \/ SaveState \/ LoadState]_vars

----------------------------------------------------------------------------
(***************************************************************************)
(* The program as its author sees it.  A taken branch has not taken effect *)
(* while its delay slot is to come, and a handler stands where it will     *)
(* resume.                                                                 *)
(***************************************************************************)
Point == IF InHandler THEN Resume ELSE IF branch THEN pc - 1 ELSE pc

Order == INSTANCE ProgramOrder WITH point <- Point

\* Whatever interrupts, faults and traps come in between, the program runs
\* in program order: no instruction is lost, repeated or skipped, and no
\* taken branch forgotten because its delay slot was interrupted.
RefinesProgramOrder == Order!Spec

\* Types; in particular a CPU not in a delay slot has straight code ahead.
TypeOK ==
  /\ pc \in Int /\ nextPc \in Int /\ branch \in BOOLEAN /\ delaySlot \in BOOLEAN
  /\ sr \in [c : BOOLEAN, p : BOOLEAN, o : BOOLEAN]
  /\ epc \in Int /\ bd \in BOOLEAN /\ cause \in Causes
  /\ retired \in {0, 1} /\ slotOf \in Int \cup {None} /\ wanted \in BOOLEAN
  /\ ~ branch => nextPc = pc + 1

\* Exceptions and rfe nest: outside the handler interrupts are enabled
\* exactly when the program enabled them, inside it never.
EnabledOutsideHandler == sr.c = (wanted /\ ~ InHandler)

\* BD and EPC name the place to resume at: the instruction that did not
\* complete, or the taken branch whose delay slot it sits in.
Precise ==
  /\ bd' = (slotOf # None)
  /\ epc' = IF slotOf = None THEN pc ELSE slotOf

\* They do so for every exception but the misaligned fetch.
PreciseResumption == [][Exception /\ cause' # "address" => Precise]_vars

\* Cpu.delay_slot: "Set when the current instruction sits in a branch delay
\* slot", for enter_exception to record BD and EPC correctly.
PreciseExceptions == [][Exception => Precise]_vars
=============================================================================
