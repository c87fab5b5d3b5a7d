-------------------------- MODULE LoadDelayProofs --------------------------
(***************************************************************************)
(* The load delay implements LoadOrder, for every program, set of          *)
(* registers and memory, and wherever interrupts and faults fall.          *)
(***************************************************************************)
EXTENDS LoadDelay, TLAPS

LEMMA LoadLeftIsWord ==
  ASSUME NEW c \in Word, NEW a \in Word, NEW k \in 0..3
  PROVE  LoadLeft(c, a, k) \in Word
<1>1. ASSUME NEW i \in 0..3, i >= 3 - k PROVE i - (3 - k) \in 0..3
  BY <1>1
<1> QED BY <1>1 DEF LoadLeft, Word

LEMMA LoadRightIsWord ==
  ASSUME NEW c \in Word, NEW a \in Word, NEW k \in 0..3
  PROVE  LoadRight(c, a, k) \in Word
<1>1. ASSUME NEW i \in 0..3, i <= 3 - k PROVE i + k \in 0..3
  BY <1>1
<1> QED BY <1>1 DEF LoadRight, Word

LEMMA StoreLeftIsWord ==
  ASSUME NEW a \in Word, NEW v \in Word, NEW k \in 0..3
  PROVE  StoreLeft(a, v, k) \in Word
<1>1. ASSUME NEW i \in 0..3, i <= k PROVE i + (3 - k) \in 0..3
  BY <1>1
<1> QED BY <1>1 DEF StoreLeft, Word

LEMMA StoreRightIsWord ==
  ASSUME NEW a \in Word, NEW v \in Word, NEW k \in 0..3
  PROVE  StoreRight(a, v, k) \in Word
<1>1. ASSUME NEW i \in 0..3, i >= k PROVE i - k \in 0..3
  BY <1>1
<1> QED BY <1>1 DEF StoreRight, Word

-----------------------------------------------------------------------------
\* What the handler has done with Kept and with the load in flight, so far.
HandlerInv ==
  /\ mode \in {"save", "use", "restore", "rfe"} => pending = NoLoad
  /\ mode = "return" => pending = [reg |-> Kept, value |-> saved]
  /\ mode = "rfe" => regs[Kept] = saved

IInv == TypeOK /\ HandlerInv

Registers == [Regs -> Word]
Loads     == [reg : Regs, value : Word]

\* The output bank with the pending load in it, for each thing an instruction may
\* do with it.
LEMMA CommittedIsTyped == TypeOK => Committed \in Registers
  BY DEF TypeOK, Committed, Registers

LEMMA NoWriteIsTyped ==
  ASSUME TypeOK, NoWrite
  PROVE  /\ regs' \in Registers /\ outRegs' = regs' /\ pending' = NoLoad
         /\ regs' = Committed
  BY CommittedIsTyped DEF NoWrite, Publish

LEMMA WriteIsTyped ==
  ASSUME TypeOK, NEW r \in Regs, NEW v \in Word, Write(r, v)
  PROVE  regs' \in Registers /\ outRegs' = regs' /\ pending' = NoLoad
  BY CommittedIsTyped DEF Write, Publish, Registers

LEMMA QueueLoadIsTyped ==
  ASSUME TypeOK, NEW r \in Regs, NEW v \in Word, QueueLoad(r, v)
  PROVE  regs' \in Registers /\ outRegs' = regs' /\ pending' \in Loads
<1>1. regs[r] \in Word
  BY DEF TypeOK
<1> QED BY <1>1, CommittedIsTyped DEF QueueLoad, Publish, Registers, Loads

\* What an instruction of the program does to the registers and to pending,
\* whichever it is.
Instruction ==
  \/ NoWrite
  \/ \E r, s \in Regs : Write(r, regs[s])
  \/ \E r \in Regs : QueueLoad(r, cop)
  \/ \E r \in Regs, a \in Aligned : QueueLoad(r, memory[a])
  \/ \E r \in Regs, a \in Aligned, k \in 0..3 :
       \/ QueueLoad(r, LoadLeft(Current(r), memory[a], k))
       \/ QueueLoad(r, LoadRight(Current(r), memory[a], k))

LEMMA InstructionIsTyped ==
  ASSUME TypeOK, Instruction
  PROVE  /\ regs' \in Registers /\ outRegs' = regs'
         /\ pending' \in Loads \cup {NoLoad}
<1>1. CASE NoWrite
  BY <1>1, NoWriteIsTyped
<1>2. ASSUME NEW r \in Regs, NEW s \in Regs, Write(r, regs[s])
      PROVE  regs' \in Registers /\ outRegs' = regs' /\ pending' = NoLoad
  <2>1. regs[s] \in Word
    BY DEF TypeOK
  <2> QED BY <1>2, <2>1, WriteIsTyped
<1>3. ASSUME NEW r \in Regs, QueueLoad(r, cop)
      PROVE  regs' \in Registers /\ outRegs' = regs' /\ pending' \in Loads
  <2>1. cop \in Word
    BY DEF TypeOK
  <2> QED BY <1>3, <2>1, QueueLoadIsTyped
<1>4. ASSUME NEW r \in Regs, NEW a \in Aligned, QueueLoad(r, memory[a])
      PROVE  regs' \in Registers /\ outRegs' = regs' /\ pending' \in Loads
  <2>1. memory[a] \in Word
    BY DEF TypeOK
  <2> QED BY <1>4, <2>1, QueueLoadIsTyped
<1>5. ASSUME NEW r \in Regs, NEW a \in Aligned, NEW k \in 0..3,
             \/ QueueLoad(r, LoadLeft(Current(r), memory[a], k))
             \/ QueueLoad(r, LoadRight(Current(r), memory[a], k))
      PROVE  regs' \in Registers /\ outRegs' = regs' /\ pending' \in Loads
  <2>1. memory[a] \in Word
    BY DEF TypeOK
  <2>2. Current(r) \in Word
    BY CommittedIsTyped DEF Current, Registers
  <2>3. LoadLeft(Current(r), memory[a], k) \in Word
    BY <2>1, <2>2, LoadLeftIsWord
  <2>4. LoadRight(Current(r), memory[a], k) \in Word
    BY <2>1, <2>2, LoadRightIsWord
  <2> QED BY <1>5, <2>3, <2>4, QueueLoadIsTyped
<1> QED BY <1>1, <1>2, <1>3, <1>4, <1>5 DEF Instruction

-----------------------------------------------------------------------------
\* The program's steps, told by what they do to registers, memory and cop.
ProgramStep ==
  \/ LoadWord \/ LoadHalf \/ MoveFrom \/ Move \/ Store \/ MoveTo
  \/ CoprocessorLoad \/ CoprocessorStore \/ Command

LEMMA ProgramExecutes ==
  ASSUME ProgramStep
  PROVE  Instruction /\ mode = "program" /\ UNCHANGED <<mode, saved>>
<1>1. CASE LoadWord
  BY <1>1 DEF LoadWord, Instruction, InProgram
<1>2. CASE LoadHalf
  <2>1. PICK r \in Regs, a \in Aligned, k \in 1..3 :
          /\ InProgram
          /\ \/ a + 4 \in Aligned /\ QueueLoad(r, LoadLeft(Current(r), memory[a + 4], k - 1))
             \/ QueueLoad(r, LoadRight(Current(r), memory[a], k))
    BY <1>2 DEF LoadHalf
  <2>2. k \in 0..3 /\ k - 1 \in 0..3
    OBVIOUS
  <2> QED BY <2>1, <2>2 DEF Instruction, InProgram
<1>3. CASE MoveFrom
  BY <1>3 DEF MoveFrom, Instruction, InProgram
<1>4. CASE Move
  BY <1>4 DEF Move, Instruction, InProgram
<1>5. CASE Store
  BY <1>5 DEF Store, Instruction, InProgram
<1>6. CASE MoveTo
  BY <1>6 DEF MoveTo, Instruction, InProgram
<1>7. CASE CoprocessorLoad \/ CoprocessorStore \/ Command
  BY <1>7 DEF CoprocessorLoad, CoprocessorStore, Command, Instruction, InProgram
<1> QED BY <1>1, <1>2, <1>3, <1>4, <1>5, <1>6, <1>7 DEF ProgramStep

LEMMA ProgramStoresWords ==
  ASSUME TypeOK, ProgramStep
  PROVE  memory' \in [Aligned -> Word] /\ cop' \in Word
<1>1. CASE Store
  <2>1. PICK s \in Regs, a \in Aligned, k \in 0..3 :
          /\ UNCHANGED cop
          /\ \/ memory' = [memory EXCEPT ![a] = regs[s]]
             \/ memory' = [memory EXCEPT ![a] = StoreLeft(@, regs[s], k)]
             \/ memory' = [memory EXCEPT ![a] = StoreRight(@, regs[s], k)]
    BY <1>1 DEF Store
  <2>2. regs[s] \in Word /\ memory[a] \in Word
    BY DEF TypeOK
  <2>3. StoreLeft(memory[a], regs[s], k) \in Word /\ StoreRight(memory[a], regs[s], k) \in Word
    BY <2>2, StoreLeftIsWord, StoreRightIsWord
  <2> QED BY <2>1, <2>2, <2>3 DEF TypeOK
<1>2. CASE MoveTo
  BY <1>2 DEF MoveTo, TypeOK
<1>3. CASE LoadWord \/ LoadHalf \/ MoveFrom \/ Move \/ Command
  BY <1>3 DEF LoadWord, LoadHalf, MoveFrom, Move, Command, TypeOK
<1>4. CASE CoprocessorLoad
  BY <1>4 DEF CoprocessorLoad, TypeOK
<1>5. CASE CoprocessorStore
  BY <1>5 DEF CoprocessorStore, TypeOK
<1> QED BY <1>1, <1>2, <1>3, <1>4, <1>5 DEF ProgramStep

-----------------------------------------------------------------------------
LEMMA InitIInv == Init => IInv
  BY LoadAssumption DEF Init, IInv, TypeOK, HandlerInv, Modes

LEMMA HandlerKeepsIInv == IInv /\ Handler => IInv'
<1> SUFFICES ASSUME IInv, Handler PROVE IInv'
  OBVIOUS
<1> USE DEF HandlerStep, Modes
<1>1. UNCHANGED <<memory, cop>>
  BY DEF Handler, HandlerEnters, HandlerSaves, HandlerUses, HandlerReloads, HandlerJumps,
         HandlerReturns
<1>2. CASE HandlerEnters
  BY <1>1, <1>2, NoWriteIsTyped DEF HandlerEnters, IInv, TypeOK, HandlerInv, Registers
<1>3. CASE HandlerSaves
  BY <1>1, <1>3, NoWriteIsTyped, LoadAssumption DEF HandlerSaves, IInv, TypeOK, HandlerInv, Registers
<1>4. CASE HandlerUses
  BY <1>1, <1>4, WriteIsTyped, LoadAssumption DEF HandlerUses, IInv, TypeOK, HandlerInv, Registers
<1>5. CASE HandlerReloads
  <2>1. saved \in Word /\ Kept \in Regs /\ TypeOK /\ QueueLoad(Kept, saved) /\ saved' = saved
    BY <1>5, LoadAssumption DEF HandlerReloads, IInv, TypeOK
  <2>2. regs' \in Registers /\ outRegs' = regs' /\ pending' \in Loads
    BY <2>1, QueueLoadIsTyped
  <2>3. pending' = [reg |-> Kept, value |-> saved']
    BY <2>1 DEF QueueLoad
  <2> QED BY <1>1, <1>5, <2>1, <2>2, <2>3 DEF HandlerReloads, IInv, TypeOK, HandlerInv, Registers, Loads
<1>6. CASE HandlerJumps
  <2>1. NoWrite /\ TypeOK /\ pending = [reg |-> Kept, value |-> saved] /\ saved' = saved
    BY <1>6 DEF HandlerJumps, IInv, HandlerInv
  <2>2. regs' \in Registers /\ outRegs' = regs' /\ pending' = NoLoad /\ regs' = Committed
    BY <2>1, NoWriteIsTyped
  <2>3. pending # NoLoad
    BY <2>1, LoadAssumption DEF TypeOK
  <2>4. regs'[Kept] = saved'
    BY <2>1, <2>2, <2>3, LoadAssumption DEF Committed, TypeOK
  <2> QED BY <1>1, <1>6, <2>1, <2>2, <2>4 DEF HandlerJumps, IInv, TypeOK, HandlerInv, Registers
<1>7. CASE HandlerReturns
  BY <1>1, <1>7, NoWriteIsTyped DEF HandlerReturns, IInv, TypeOK, HandlerInv, Registers
<1> QED BY <1>2, <1>3, <1>4, <1>5, <1>6, <1>7 DEF Handler

LEMMA NextKeepsIInv == IInv /\ [Next]_vars => IInv'
<1> SUFFICES ASSUME IInv, [Next]_vars PROVE IInv'
  OBVIOUS
<1>1. CASE ProgramStep
  BY <1>1, InstructionIsTyped, ProgramExecutes, ProgramStoresWords
     DEF IInv, TypeOK, HandlerInv, Registers, Loads, Modes
<1>2. CASE TakeInterrupt
  BY <1>2 DEF TakeInterrupt, IInv, TypeOK, HandlerInv, Modes, cpu
<1>3. CASE Fault
  BY <1>3, NoWriteIsTyped DEF Fault, IInv, TypeOK, HandlerInv, Registers, Modes
<1>4. CASE Handler
  BY <1>4, HandlerKeepsIInv
<1>5. CASE RoundTrip
  BY <1>5 DEF RoundTrip, IInv, TypeOK, HandlerInv
<1>6. CASE UNCHANGED vars
  BY <1>6 DEF vars, cpu, IInv, TypeOK, HandlerInv
<1> QED BY <1>1, <1>2, <1>3, <1>4, <1>5, <1>6 DEF Next, ProgramStep

\* The load delay's inductive invariant: types, banks that agree between
\* instructions, and how far the handler has got with the register it keeps.
THEOREM LoadDelayInvariant == Spec => []IInv
  BY InitIInv, NextKeepsIInv, PTL DEF Spec

-----------------------------------------------------------------------------
(* The refinement. *)

\* Outside the handler the abstract file and load are the banks and pending.
LEMMA OutsideTheHandler ==
  ASSUME ~Inside, TypeOK
  PROVE  Order!Landed = Committed
  BY DEF Order!Landed, Committed, Inside, TypeOK

LEMMA InitRefines == Init => Order!Init
  BY DEF Init, Order!Init, Inside, Word, Order!Word

LEMMA NoWriteLands ==
  ASSUME TypeOK, ~Inside, ~Inside', NoWrite, UNCHANGED <<memory, cop>>
  PROVE  Order!Land \/ UNCHANGED Order!vars
<1>1. CASE pending = NoLoad
  BY <1>1 DEF NoWrite, Publish, Committed, TypeOK, Inside, Order!vars
<1>2. CASE pending # NoLoad
  <2>1. regs' = Committed /\ pending' = NoLoad
    BY DEF NoWrite, Publish
  <2> QED BY <1>2, <2>1, OutsideTheHandler DEF Order!Land, Inside
<1> QED BY <1>1, <1>2

LEMMA QueueLoadRefines ==
  ASSUME TypeOK, ~Inside, ~Inside', NEW r \in Regs, NEW v \in Word, QueueLoad(r, v),
         UNCHANGED <<memory, cop>>
  PROVE  Order!Load(r, v)
  BY OutsideTheHandler DEF QueueLoad, Publish, Order!Load, Inside

\* Every instruction of the program is one of LoadOrder's.
LEMMA ProgramRefines ==
  ASSUME TypeOK, ProgramStep
  PROVE  Order!Next \/ UNCHANGED Order!vars
<1>1. ~Inside /\ ~Inside'
  BY ProgramExecutes DEF Inside
<1>2. CASE LoadWord
  <2>1. PICK r \in Regs, a \in Aligned : QueueLoad(r, memory[a]) /\ UNCHANGED <<memory, cop>>
    BY <1>2 DEF LoadWord
  <2>2. memory[a] \in Word
    BY DEF TypeOK
  <2>3. Order!Load(r, memory[a]) /\ 0 \in 0..3
    BY <1>1, <2>1, <2>2, QueueLoadRefines
  <2> QED BY <2>3 DEF Order!Next, Order!LoadWord
<1>3. CASE LoadHalf
  <2>1. PICK r \in Regs, a \in Aligned, k \in 1..3 :
          /\ UNCHANGED <<memory, cop>>
          /\ \/ a + 4 \in Aligned /\ QueueLoad(r, LoadLeft(Current(r), memory[a + 4], k - 1))
             \/ QueueLoad(r, LoadRight(Current(r), memory[a], k))
    BY <1>3 DEF LoadHalf
  <2>2. k \in 0..3 /\ k - 1 \in 0..3
    OBVIOUS
  <2>3. Current(r) = Order!Landed[r] /\ Current(r) \in Word
    BY <1>1, OutsideTheHandler, CommittedIsTyped DEF Current, Registers
  <2>4. CASE a + 4 \in Aligned /\ QueueLoad(r, LoadLeft(Current(r), memory[a + 4], k - 1))
    <3>1. LoadLeft(Current(r), memory[a + 4], k - 1) \in Word
      BY <2>2, <2>3, <2>4, LoadLeftIsWord DEF TypeOK
    <3>2. Order!Load(r, LoadLeft(Current(r), memory[a + 4], k - 1))
      BY <1>1, <2>1, <2>4, <3>1, QueueLoadRefines
    <3>3. Order!LoadLeft(Current(r), memory[a + 4], k - 1) = LoadLeft(Current(r), memory[a + 4], k - 1)
      BY DEF Order!LoadLeft, LoadLeft
    <3> QED BY <2>2, <2>3, <2>4, <3>2, <3>3 DEF Order!Next, Order!LoadWord
  <2>5. CASE QueueLoad(r, LoadRight(Current(r), memory[a], k))
    <3>1. LoadRight(Current(r), memory[a], k) \in Word
      BY <2>2, <2>3, LoadRightIsWord DEF TypeOK
    <3>2. Order!Load(r, LoadRight(Current(r), memory[a], k))
      BY <1>1, <2>1, <2>5, <3>1, QueueLoadRefines
    <3>3. Order!LoadRight(Current(r), memory[a], k) = LoadRight(Current(r), memory[a], k)
      BY DEF Order!LoadRight, LoadRight
    <3> QED BY <2>2, <2>3, <3>2, <3>3 DEF Order!Next, Order!LoadWord
  <2> QED BY <2>1, <2>4, <2>5
<1>4. CASE MoveFrom
  <2>1. PICK r \in Regs : QueueLoad(r, cop) /\ UNCHANGED <<memory, cop>>
    BY <1>4 DEF MoveFrom
  <2>2. Order!Load(r, cop)
    BY <1>1, <2>1, QueueLoadRefines DEF TypeOK
  <2> QED BY <2>2 DEF Order!Next, Order!MoveFrom
<1>5. CASE Move
  <2>1. PICK r \in Regs, s \in Regs : Write(r, regs[s]) /\ UNCHANGED <<memory, cop>>
    BY <1>5 DEF Move
  <2>2. regs' = [Order!Landed EXCEPT ![r] = regs[s]] /\ pending' = NoLoad
    BY <1>1, <2>1, OutsideTheHandler DEF Write, Publish
  <2> QED BY <1>1, <2>1, <2>2 DEF Order!Next, Order!Move, Inside
<1>6. CASE Store
  <2>1. PICK s \in Regs, a \in Aligned, k \in 0..3 :
          /\ NoWrite /\ UNCHANGED cop
          /\ \/ memory' = [memory EXCEPT ![a] = regs[s]]
             \/ memory' = [memory EXCEPT ![a] = StoreLeft(@, regs[s], k)]
             \/ memory' = [memory EXCEPT ![a] = StoreRight(@, regs[s], k)]
    BY <1>6 DEF Store
  <2>2. regs' = Order!Landed /\ pending' = NoLoad
    BY <1>1, <2>1, OutsideTheHandler DEF NoWrite, Publish
  <2>3. /\ Order!StoreLeft(memory[a], regs[s], k) = StoreLeft(memory[a], regs[s], k)
        /\ Order!StoreRight(memory[a], regs[s], k) = StoreRight(memory[a], regs[s], k)
    BY DEF Order!StoreLeft, StoreLeft, Order!StoreRight, StoreRight
  <2> QED BY <1>1, <2>1, <2>2, <2>3 DEF Order!Next, Order!Store, Inside
<1>7. CASE MoveTo
  <2>1. PICK s \in Regs : NoWrite /\ cop' = regs[s] /\ UNCHANGED memory
    BY <1>7 DEF MoveTo
  <2>2. regs' = Order!Landed /\ pending' = NoLoad
    BY <1>1, <2>1, OutsideTheHandler DEF NoWrite, Publish
  <2> QED BY <1>1, <2>1, <2>2 DEF Order!Next, Order!MoveTo, Inside
<1>8. CASE CoprocessorLoad
  <2>1. PICK a \in Aligned : NoWrite /\ cop' = memory[a] /\ UNCHANGED memory
    BY <1>8 DEF CoprocessorLoad
  <2>2. regs' = Order!Landed /\ pending' = NoLoad
    BY <1>1, <2>1, OutsideTheHandler DEF NoWrite, Publish
  <2> QED BY <1>1, <2>1, <2>2 DEF Order!Next, Order!CoprocessorLoad, Inside
<1>9. CASE CoprocessorStore
  <2>1. PICK a \in Aligned : NoWrite /\ memory' = [memory EXCEPT ![a] = cop] /\ UNCHANGED cop
    BY <1>9 DEF CoprocessorStore
  <2>2. regs' = Order!Landed /\ pending' = NoLoad
    BY <1>1, <2>1, OutsideTheHandler DEF NoWrite, Publish
  <2> QED BY <1>1, <2>1, <2>2 DEF Order!Next, Order!CoprocessorStore, Inside
<1>10. CASE Command
  BY <1>1, <1>10, NoWriteLands DEF Command, Order!Next
<1> QED BY <1>2, <1>3, <1>4, <1>5, <1>6, <1>7, <1>8, <1>9, <1>10 DEF ProgramStep

\* The handler is invisible: it lets a load land, and what it does to Kept is
\* undone when it returns.
LEMMA HandlerIsInvisible ==
  ASSUME IInv, Handler
  PROVE  Order!Land \/ UNCHANGED Order!vars
<1> USE DEF HandlerStep
<1>1. TypeOK /\ UNCHANGED <<memory, cop>>
  BY DEF IInv, Handler, HandlerEnters, HandlerSaves, HandlerUses, HandlerReloads, HandlerJumps,
         HandlerReturns
<1>2. CASE HandlerEnters
  BY <1>1, <1>2, NoWriteLands DEF HandlerEnters, Inside
<1>3. CASE HandlerSaves
  <2>1. regs' = regs /\ pending = NoLoad /\ saved' = regs[Kept]
    BY <1>3 DEF HandlerSaves, NoWrite, Publish, Committed, IInv, TypeOK, HandlerInv
  <2>2. [regs' EXCEPT ![Kept] = saved'] = regs
    BY <1>1, <2>1, LoadAssumption DEF TypeOK
  <2> QED BY <1>1, <1>3, <2>1, <2>2 DEF HandlerSaves, Inside, Order!vars
<1>4. CASE HandlerUses
  <2>1. regs' = [regs EXCEPT ![Kept] = Start] /\ saved' = saved
    BY <1>4 DEF HandlerUses, Write, Publish, Committed, IInv, TypeOK, HandlerInv
  <2>2. [regs' EXCEPT ![Kept] = saved'] = [regs EXCEPT ![Kept] = saved]
    BY <1>1, <2>1, LoadAssumption DEF TypeOK
  <2> QED BY <1>1, <1>4, <2>2 DEF HandlerUses, Inside, Order!vars
<1>5. CASE HandlerReloads
  <2>1. regs' = [regs EXCEPT ![Kept] = regs[Kept]] /\ saved' = saved
    BY <1>5 DEF HandlerReloads, QueueLoad, Publish, Committed, IInv, TypeOK, HandlerInv
  <2>2. [regs' EXCEPT ![Kept] = saved'] = [regs EXCEPT ![Kept] = saved]
    BY <1>1, <2>1, LoadAssumption DEF TypeOK
  <2> QED BY <1>1, <1>5, <2>2 DEF HandlerReloads, Inside, Order!vars
<1>6. CASE HandlerJumps
  <2>1. pending = [reg |-> Kept, value |-> saved] /\ pending # NoLoad
    BY <1>1, <1>6, LoadAssumption DEF HandlerJumps, IInv, HandlerInv, TypeOK
  <2>2. regs' = [regs EXCEPT ![Kept] = saved] /\ saved' = saved
    BY <1>1, <1>6, <2>1 DEF HandlerJumps, NoWrite, Publish, Committed, TypeOK
  <2>3. [regs' EXCEPT ![Kept] = saved'] = [regs EXCEPT ![Kept] = saved]
    BY <1>1, <2>2, LoadAssumption DEF TypeOK
  <2> QED BY <1>1, <1>6, <2>3 DEF HandlerJumps, Inside, Order!vars
<1>7. CASE HandlerReturns
  <2>1. regs' = regs /\ pending' = NoLoad /\ regs[Kept] = saved
    BY <1>7 DEF HandlerReturns, NoWrite, Publish, Committed, IInv, TypeOK, HandlerInv
  <2>2. [regs EXCEPT ![Kept] = saved] = regs'
    BY <1>1, <2>1, LoadAssumption DEF TypeOK
  <2> QED BY <1>1, <1>7, <2>1, <2>2 DEF HandlerReturns, Inside, Order!vars
<1> QED BY <1>2, <1>3, <1>4, <1>5, <1>6, <1>7 DEF Handler

LEMMA NextRefines == IInv /\ [Next]_vars => [Order!Next]_(Order!vars)
<1> SUFFICES ASSUME IInv, [Next]_vars PROVE [Order!Next]_(Order!vars)
  OBVIOUS
<1>1. CASE ProgramStep
  BY <1>1, ProgramRefines DEF IInv
<1>2. CASE TakeInterrupt
  BY <1>2 DEF TakeInterrupt, cpu, Inside, Order!vars
<1>3. CASE Fault
  <2>1. TypeOK /\ ~Inside /\ ~Inside' /\ NoWrite /\ UNCHANGED <<memory, cop>>
    BY <1>3 DEF Fault, Inside, IInv
  <2> QED BY <2>1, NoWriteLands DEF Order!Next
<1>4. CASE Handler
  BY <1>4, HandlerIsInvisible DEF Order!Next
<1>5. CASE RoundTrip
  BY <1>5 DEF RoundTrip, Inside, Order!vars
<1>6. CASE UNCHANGED vars
  BY <1>6 DEF vars, cpu, Inside, Order!vars
<1> QED BY <1>1, <1>2, <1>3, <1>4, <1>5, <1>6 DEF Next, ProgramStep

\* The load delay implements LoadOrder: no stale load is ever published, and no
\* interrupt, fault or handler that keeps its registers shows in the program's.
THEOREM LoadDelayImplementsOrder == Spec => RefinesLoadOrder
  BY LoadDelayInvariant, InitRefines, NextRefines, PTL DEF Spec, RefinesLoadOrder, Order!Spec

-----------------------------------------------------------------------------
(* Unaligned loads. *)

\* What the program will find in r once every load has landed and the handler has
\* put back what it keeps.
InSight(r) == IF ~Inside THEN Arriving(r) ELSE IF r = Kept THEN saved ELSE regs[r]

Halves == [side : {"left", "right"}, reg : Regs, at : Aligned, offset : 1..3]
Wholes == [reg : Regs, at : Aligned, offset : 1..3]

\* The bytes of v that a half has brought from the word at a + k.
LeftLoaded(v, a, k)  == \A i \in 0..3 : i >= 4 - k => v[i] = memory[a + 4][i - (4 - k)]
RightLoaded(v, a, k) == \A i \in 0..3 : i <= 3 - k => v[i] = memory[a][i + k]

HalfInv ==
  half # None =>
    /\ half \in Halves
    /\ half.side = "left"  => LeftLoaded(InSight(half.reg), half.at, half.offset)
    /\ half.side = "right" => RightLoaded(InSight(half.reg), half.at, half.offset)

WholeInv ==
  whole # None =>
    whole \in Wholes /\ InSight(whole.reg) = WordAt(whole.at, whole.offset)

UnalignedInv == HalfInv /\ WholeInv

LEMMA LandedIsInSight ==
  ASSUME TypeOK, ~Inside, NEW r \in Regs
  PROVE  InSight(r) = Committed[r] /\ InSight(r) \in Word
<1>1. Committed[r] \in Word
  BY CommittedIsTyped DEF Registers
<1>2. Arriving(r) = Committed[r]
  BY DEF Arriving, Committed, TypeOK
<1> QED BY <1>1, <1>2 DEF InSight

\* A step that shows the program nothing new keeps what the loads have done.
LEMMA SightKept ==
  ASSUME UnalignedInv, UNCHANGED <<memory, half, whole>>,
         \A r \in Regs : InSight(r)' = InSight(r)
  PROVE  UnalignedInv'
<1>1. HalfInv'
  <2> SUFFICES ASSUME half # None PROVE HalfInv'
    BY DEF HalfInv
  <2>1. half \in Halves /\ half.reg \in Regs
    BY DEF UnalignedInv, HalfInv, Halves
  <2>2. InSight(half.reg)' = InSight(half.reg)
    BY <2>1
  <2> QED BY <2>1, <2>2 DEF UnalignedInv, HalfInv, LeftLoaded, RightLoaded
<1>2. WholeInv'
  <2> SUFFICES ASSUME whole # None PROVE WholeInv'
    BY DEF WholeInv
  <2>1. whole \in Wholes /\ whole.reg \in Regs
    BY DEF UnalignedInv, WholeInv, Wholes
  <2>2. InSight(whole.reg)' = InSight(whole.reg)
    BY <2>1
  <2> QED BY <2>1, <2>2 DEF UnalignedInv, WholeInv, WordAt
<1> QED BY <1>1, <1>2 DEF UnalignedInv

LEMMA HandlerKeepsSight ==
  ASSUME IInv, Handler, NEW r \in Regs
  PROVE  InSight(r)' = InSight(r)
<1> USE DEF HandlerStep
<1>1. TypeOK /\ Kept \in Regs
  BY LoadAssumption DEF IInv
<1>2. CASE HandlerEnters
  <2>1. ~Inside /\ ~Inside' /\ regs' = Committed /\ pending' = NoLoad
    BY <1>2 DEF HandlerEnters, NoWrite, Publish, Inside
  <2> QED BY <1>1, <2>1, LandedIsInSight DEF InSight, Arriving
<1>3. CASE HandlerSaves
  BY <1>1, <1>3 DEF HandlerSaves, NoWrite, Publish, Committed, IInv, TypeOK, HandlerInv,
                   Inside, InSight, Arriving
<1>4. CASE HandlerUses
  <2>1. regs' = [regs EXCEPT ![Kept] = Start] /\ saved' = saved
    BY <1>4 DEF HandlerUses, Write, Publish, Committed, IInv, TypeOK, HandlerInv
  <2> QED BY <1>1, <1>4, <2>1 DEF HandlerUses, Inside, InSight, TypeOK
<1>5. CASE HandlerReloads
  <2>1. regs' = [regs EXCEPT ![Kept] = regs[Kept]] /\ saved' = saved
    BY <1>5 DEF HandlerReloads, QueueLoad, Publish, Committed, IInv, TypeOK, HandlerInv
  <2> QED BY <1>1, <1>5, <2>1 DEF HandlerReloads, Inside, InSight, TypeOK
<1>6. CASE HandlerJumps
  <2>1. pending = [reg |-> Kept, value |-> saved] /\ pending # NoLoad
    BY <1>1, <1>6, LoadAssumption DEF HandlerJumps, IInv, HandlerInv, TypeOK
  <2>2. regs' = [regs EXCEPT ![Kept] = saved] /\ saved' = saved
    BY <1>1, <1>6, <2>1 DEF HandlerJumps, NoWrite, Publish, Committed, TypeOK
  <2> QED BY <1>1, <1>6, <2>2 DEF HandlerJumps, Inside, InSight, TypeOK
<1>7. CASE HandlerReturns
  BY <1>1, <1>7 DEF HandlerReturns, NoWrite, Publish, Committed, IInv, TypeOK, HandlerInv,
                   Inside, InSight, Arriving
<1> QED BY <1>2, <1>3, <1>4, <1>5, <1>6, <1>7 DEF Handler

\* An LWL or an LWR: its half is in sight, and with the other half the whole.
LEMMA LoadHalfComposes ==
  ASSUME TypeOK, UnalignedInv, LoadHalf
  PROVE  UnalignedInv'
<1>1. PICK r \in Regs, a \in Aligned, k \in 1..3 :
        /\ InProgram /\ UNCHANGED <<memory, cop>>
        /\ \/ /\ a + 4 \in Aligned
              /\ QueueLoad(r, LoadLeft(Current(r), memory[a + 4], k - 1))
              /\ Half("left", r, a, k)
           \/ QueueLoad(r, LoadRight(Current(r), memory[a], k)) /\ Half("right", r, a, k)
  BY DEF LoadHalf
<1>2. ~Inside /\ ~Inside'
  BY <1>1 DEF InProgram, Inside
<1>3. Current(r) = InSight(r) /\ InSight(r) \in Word
  BY <1>2, LandedIsInSight DEF Current
<1>4. ASSUME NEW v, QueueLoad(r, v), v \in Word
      PROVE  InSight(r)' = v
  <2>1. pending' = [reg |-> r, value |-> v] /\ pending' # NoLoad
    BY <1>4, LoadAssumption DEF QueueLoad
  <2> QED BY <1>2, <2>1 DEF InSight, Arriving
<1>5. ASSUME NEW s \in {"left", "right"}, Half(s, r, a, k)
      PROVE  /\ half' = [side |-> s, reg |-> r, at |-> a, offset |-> k] /\ half' \in Halves
             /\ whole' # None => /\ whole' = [reg |-> r, at |-> a, offset |-> k]
                                 /\ whole' \in Wholes
                                 /\ half # None /\ half.side # s /\ half.side \in {"left", "right"}
                                 /\ half.reg = r /\ half.at = a /\ half.offset = k
  <2>1. half' = [side |-> s, reg |-> r, at |-> a, offset |-> k]
    BY <1>5 DEF Half
  <2>2. half' \in Halves
    BY <2>1 DEF Halves
  <2>3. ASSUME whole' # None
        PROVE  /\ whole' = [reg |-> r, at |-> a, offset |-> k]
               /\ half # None /\ half.side # s /\ [half EXCEPT !.side = s] = half'
    BY <1>5, <2>1, <2>3 DEF Half
  <2>4. ASSUME whole' # None
        PROVE  /\ half.side \in {"left", "right"}
               /\ half.reg = r /\ half.at = a /\ half.offset = k
    <3>1. half \in Halves
      BY <2>3, <2>4 DEF UnalignedInv, HalfInv
    <3>2. /\ [half EXCEPT !.side = s].reg = half.reg /\ [half EXCEPT !.side = s].at = half.at
          /\ [half EXCEPT !.side = s].offset = half.offset
      BY <3>1 DEF Halves
    <3> QED BY <2>1, <2>3, <2>4, <3>1, <3>2 DEF Halves
  <2> QED BY <2>1, <2>2, <2>3, <2>4 DEF Wholes
<1>6. CASE /\ a + 4 \in Aligned
           /\ QueueLoad(r, LoadLeft(Current(r), memory[a + 4], k - 1))
           /\ Half("left", r, a, k)
  <2> DEFINE v == LoadLeft(Current(r), memory[a + 4], k - 1)
  <2>1. v \in Word
    BY <1>3, <1>6, LoadLeftIsWord DEF TypeOK
  <2>2. InSight(r)' = v
    BY <1>4, <1>6, <2>1
  <2>3. \A i \in 0..3 : v[i] = IF i >= 4 - k THEN memory[a + 4][i - (4 - k)] ELSE InSight(r)[i]
    BY <1>3 DEF LoadLeft
  <2>4. v = [i \in 0..3 |-> v[i]]
    BY <2>1 DEF Word
  <2> HIDE DEF v
  <2>5. HalfInv'
    BY <1>1, <1>5, <1>6, <2>2, <2>3 DEF HalfInv, LeftLoaded
  <2>6. ASSUME whole' # None PROVE v = WordAt(a, k)
    <3>1. RightLoaded(InSight(r), a, k)
      BY <1>5, <1>6, <2>6 DEF UnalignedInv, HalfInv
    <3>2. \A i \in 0..3 : v[i] = IF i + k < 4 THEN memory[a][i + k] ELSE memory[a + 4][i + k - 4]
      <4>1. TAKE i \in 0..3
      <4>2. CASE i + k < 4
        BY <2>3, <3>1, <4>2 DEF RightLoaded
      <4>3. CASE ~ (i + k < 4)
        <5>1. i >= 4 - k /\ i - (4 - k) = i + k - 4
          BY <4>3
        <5> QED BY <2>3, <4>3, <5>1
      <4> QED BY <4>2, <4>3
    <3> QED BY <2>4, <3>2 DEF WordAt
  <2>7. WholeInv'
    BY <1>1, <1>5, <1>6, <2>2, <2>6 DEF WholeInv, WordAt
  <2> QED BY <2>5, <2>7 DEF UnalignedInv
<1>7. CASE QueueLoad(r, LoadRight(Current(r), memory[a], k)) /\ Half("right", r, a, k)
  <2> DEFINE v == LoadRight(Current(r), memory[a], k)
  <2>1. v \in Word
    BY <1>3, LoadRightIsWord DEF TypeOK
  <2>2. InSight(r)' = v
    BY <1>4, <1>7, <2>1
  <2>3. \A i \in 0..3 : v[i] = IF i <= 3 - k THEN memory[a][i + k] ELSE InSight(r)[i]
    BY <1>3 DEF LoadRight
  <2>4. v = [i \in 0..3 |-> v[i]]
    BY <2>1 DEF Word
  <2> HIDE DEF v
  <2>5. HalfInv'
    BY <1>1, <1>5, <1>7, <2>2, <2>3 DEF HalfInv, RightLoaded
  <2>6. ASSUME whole' # None PROVE v = WordAt(a, k)
    <3>1. LeftLoaded(InSight(r), a, k)
      BY <1>5, <1>7, <2>6 DEF UnalignedInv, HalfInv
    <3>2. \A i \in 0..3 : v[i] = IF i + k < 4 THEN memory[a][i + k] ELSE memory[a + 4][i + k - 4]
      <4>1. TAKE i \in 0..3
      <4>2. CASE i + k < 4
        BY <2>3, <4>2
      <4>3. CASE ~ (i + k < 4)
        <5>1. i >= 4 - k /\ i - (4 - k) = i + k - 4 /\ ~ (i <= 3 - k)
          BY <4>3
        <5> QED BY <2>3, <3>1, <4>3, <5>1 DEF LeftLoaded
      <4> QED BY <4>2, <4>3
    <3> QED BY <2>4, <3>2 DEF WordAt
  <2>7. WholeInv'
    BY <1>1, <1>5, <1>7, <2>2, <2>6 DEF WholeInv, WordAt
  <2> QED BY <2>5, <2>7 DEF UnalignedInv
<1> QED BY <1>1, <1>6, <1>7

LEMMA NextKeepsUnaligned == IInv /\ UnalignedInv /\ [Next]_vars => UnalignedInv'
<1> SUFFICES ASSUME IInv, UnalignedInv, [Next]_vars PROVE UnalignedInv'
  OBVIOUS
<1>1. TypeOK
  BY DEF IInv
<1>2. CASE LoadHalf
  BY <1>1, <1>2, LoadHalfComposes
<1>3. CASE ProgramStep /\ ~LoadHalf
  <2>1. half' = None /\ whole' = None
    BY <1>3 DEF ProgramStep, LoadWord, MoveFrom, Move, Store, MoveTo, CoprocessorLoad,
               CoprocessorStore, Command, Other
  <2> QED BY <2>1 DEF UnalignedInv, HalfInv, WholeInv
<1>4. CASE TakeInterrupt
  BY <1>4, SightKept DEF TakeInterrupt, cpu, ghosts, InSight, Inside, Arriving
<1>5. CASE Fault
  <2>1. /\ ~Inside /\ ~Inside' /\ regs' = Committed /\ pending' = NoLoad
        /\ UNCHANGED <<memory, half, whole>>
    BY <1>5 DEF Fault, NoWrite, Publish, Inside, ghosts
  <2>2. \A r \in Regs : InSight(r)' = InSight(r)
    BY <1>1, <2>1, LandedIsInSight DEF InSight, Arriving
  <2> QED BY <2>1, <2>2, SightKept
<1>6. CASE Handler
  <2>1. UNCHANGED <<memory, half, whole>>
    BY <1>6 DEF Handler, HandlerEnters, HandlerSaves, HandlerUses, HandlerReloads,
               HandlerJumps, HandlerReturns, HandlerStep, ghosts
  <2> QED BY <1>6, <2>1, HandlerKeepsSight, SightKept
<1>7. CASE RoundTrip
  BY <1>7, SightKept DEF RoundTrip, ghosts, InSight, Inside, Arriving
<1>8. CASE UNCHANGED vars
  BY <1>8, SightKept DEF vars, cpu, ghosts, InSight, Inside, Arriving
<1> QED BY <1>2, <1>3, <1>4, <1>5, <1>6, <1>7, <1>8 DEF Next, ProgramStep

\* An LWL and an LWR of the same word leave that word, in either order, with the
\* second merging with what the first has not yet put into the register, and with
\* interrupts, faults and the handler's use of the register in between.
THEOREM UnalignedLoadsAreWhole == Spec => []UnalignedLoadsCompose
<1>1. Init => UnalignedInv
  BY DEF Init, UnalignedInv, HalfInv, WholeInv
<1>2. UnalignedInv => UnalignedLoadsCompose
  BY DEF UnalignedInv, WholeInv, UnalignedLoadsCompose, InSight, Inside
<1> QED BY <1>1, <1>2, LoadDelayInvariant, NextKeepsUnaligned, PTL DEF Spec
=============================================================================
