--------------------------- MODULE PipelineProofs ---------------------------
(***************************************************************************)
(* For every program: exceptions and rfe nest, and whatever interrupts the *)
(* pipeline, the program runs in program order.                            *)
(***************************************************************************)
EXTENDS Pipeline, TLAPS

Slots    == {"plain", "flaky", "enable"}
Branches == {"branch", "jump"}

\* The program counters in a delay slot.
FlowOK ==
  branch /\ ~ InHandler =>
    /\ Holds(pc - 1, Branches)
    /\ nextPc \in Program[pc - 1].targets

\* The handler knows where to resume, and which pair rfe will pop.
HandlerOK ==
  InHandler =>
    /\ branch <=> pc = Handler + 2
    /\ branch => nextPc = Resume
    /\ Resume \in Int /\ Resume \notin HandlerBody
    /\ sr.p = wanted

PipelineInv == TypeOK /\ FlowOK /\ HandlerOK /\ EnabledOutsideHandler

----------------------------------------------------------------------------
(***************************************************************************)
(* What the assumptions say of one address.                                *)
(***************************************************************************)
LEMMA ProgramAddress ==
  ASSUME NEW a \in DOMAIN Program
  PROVE  a \in Int /\ a \notin HandlerBody /\ a + 1 \notin HandlerBody
  BY CodeAssumption, HandlerAssumption

LEMMA BranchAddress ==
  ASSUME NEW a, Holds(a, Branches)
  PROVE  /\ a \in DOMAIN Program
         /\ Holds(a + 1, Slots)
         /\ Program[a].targets \subseteq Int
         /\ Program[a].targets \cap HandlerBody = {}
<1>1. a \in DOMAIN Program /\ Program[a].kind \in Branches
  BY DEF Holds
<1>2. Program[a] \in Straight \cup Turning
  BY <1>1, CodeAssumption
<1>3. Program[a] \in Turning
  BY <1>1, <1>2 DEF Straight, Turning, Branches
<1>4. Holds(a + 1, Slots)
  BY <1>1, <1>3, CodeAssumption DEF Holds, Slots
<1>5. Program[a].targets \subseteq Int
  BY <1>3 DEF Turning
<1>6. Program[a].targets \cap HandlerBody = {}
  BY <1>1, HandlerAssumption
<1> QED
  BY <1>1, <1>4, <1>5, <1>6

LEMMA HandlerWords ==
  /\ Handler \in Int
  /\ \A a \in Int : a \in HandlerBody <=> a = Handler \/ a = Handler + 1 \/ a = Handler + 2
  BY HandlerAssumption DEF HandlerBody

\* In a delay slot the CPU is at an instruction that may stand in one, and
\* will go to a target of the branch.
LEMMA SlotAddress ==
  ASSUME PipelineInv, branch, ~ InHandler
  PROVE  /\ pc - 1 \in DOMAIN Program /\ Holds(pc, Slots)
         /\ nextPc \in Program[pc - 1].targets
         /\ Holds(pc - 1, Branches)
         /\ nextPc \in Int /\ nextPc \notin HandlerBody
<1>1. Holds(pc - 1, Branches) /\ nextPc \in Program[pc - 1].targets /\ pc \in Int
  BY DEF PipelineInv, FlowOK, TypeOK
<1>2. pc - 1 \in DOMAIN Program /\ Holds((pc - 1) + 1, Slots)
  BY <1>1, BranchAddress
<1>3. (pc - 1) + 1 = pc
  BY <1>1
<1>4. nextPc \in Int /\ nextPc \notin HandlerBody
  BY <1>1, BranchAddress
<1> QED
  BY <1>1, <1>2, <1>3, <1>4

----------------------------------------------------------------------------
(***************************************************************************)
(* The invariant.                                                          *)
(***************************************************************************)
LEMMA InitInv == Init => PipelineInv
<1> SUFFICES ASSUME Init PROVE PipelineInv
  OBVIOUS
<1>1. Entry \in DOMAIN Program
  BY CodeAssumption
<1>2. Entry \in Int /\ ~ InHandler
  BY <1>1, ProgramAddress DEF Init, InHandler
<1>s. sr \in [c : BOOLEAN, p : BOOLEAN, o : BOOLEAN]
  BY DEF Init
<1>p. pc \in Int /\ nextPc \in Int /\ epc \in Int /\ nextPc = pc + 1
  BY <1>2 DEF Init
<1>c. /\ branch \in BOOLEAN /\ delaySlot \in BOOLEAN /\ bd \in BOOLEAN /\ cause \in Causes
      /\ retired \in {0, 1} /\ slotOf \in Int \cup {None} /\ wanted \in BOOLEAN
  BY DEF Init, Causes
<1>3. TypeOK
  BY <1>s, <1>p, <1>c DEF TypeOK
<1>4. FlowOK /\ HandlerOK
  BY <1>2 DEF Init, FlowOK, HandlerOK
<1>5. EnabledOutsideHandler
  BY DEF Init, EnabledOutsideHandler
<1> QED
  BY <1>3, <1>4, <1>5 DEF PipelineInv

\* Where an exception raised at pc resumes.
ResumeFor(why, slot) ==
  CASE why \in {"interrupt", "fault"} -> IF slot THEN pc - 1 ELSE pc
    [] why = "trap"                   -> (IF slot THEN pc - 1 ELSE pc) + 1
    [] why \in {"address", "bus"}     -> Entry

LEMMA EntryKeepsInv ==
  ASSUME PipelineInv, ~ InHandler, NEW why \in Causes, NEW slot \in BOOLEAN,
         EnterException(why, slot),
         ResumeFor(why, slot) \in Int \ HandlerBody
  PROVE  PipelineInv' /\ InHandler' /\ Resume' = ResumeFor(why, slot)
<1>1. /\ pc' = Handler /\ nextPc' = Handler + 1 /\ branch' = FALSE /\ delaySlot' = FALSE
      /\ sr' = [c |-> FALSE, p |-> sr.c, o |-> sr.p]
      /\ epc' = IF slot THEN pc - 1 ELSE pc
      /\ bd' = slot /\ cause' = why /\ slotOf' = None
      /\ retired' = retired /\ wanted' = wanted
  BY DEF EnterException, Pushed
<1>2. InHandler'
  BY <1>1, HandlerWords DEF InHandler, HandlerBody
<1>3. Resume' = ResumeFor(why, slot)
  BY <1>1 DEF Resume, ResumeFor, Causes
<1>4. pc \in Int /\ sr \in [c : BOOLEAN, p : BOOLEAN, o : BOOLEAN]
      /\ retired \in {0, 1} /\ wanted \in BOOLEAN
  BY DEF PipelineInv, TypeOK
<1>5. pc' \in Int /\ nextPc' \in Int /\ epc' \in Int /\ nextPc' = pc' + 1
  BY <1>1, <1>4, HandlerWords
<1>6. sr' \in [c : BOOLEAN, p : BOOLEAN, o : BOOLEAN]
  BY <1>1, <1>4
<1>7. TypeOK'
  BY <1>1, <1>4, <1>5, <1>6 DEF TypeOK
<1>8. sr.c = wanted
  BY DEF PipelineInv, EnabledOutsideHandler, InHandler, TypeOK
<1>9. sr'.p = wanted' /\ sr'.c = FALSE
  BY <1>1, <1>8
<1>10. pc' # Handler + 2
  BY <1>1, HandlerWords
<1>11. HandlerOK'
  BY <1>1, <1>2, <1>3, <1>9, <1>10 DEF HandlerOK
<1>12. EnabledOutsideHandler'
  BY <1>2, <1>9 DEF EnabledOutsideHandler
<1>13. FlowOK'
  BY <1>1 DEF FlowOK
<1> QED
  BY <1>2, <1>3, <1>7, <1>11, <1>12, <1>13 DEF PipelineInv

\* An exception is raised outside the handler, and resumes outside it.
LEMMA ExceptionEnters ==
  ASSUME PipelineInv, Exception
  PROVE  /\ ~ InHandler
         /\ \E why \in Causes, slot \in BOOLEAN :
              /\ EnterException(why, slot)
              /\ ResumeFor(why, slot) \in Int \ HandlerBody
              /\ why \in {"interrupt", "fault"} => ResumeFor(why, slot) = Point
              /\ why = "trap" =>
                   Holds(Point, {"trap"}) /\ ResumeFor(why, slot) = Point + 1
              /\ why \in {"address", "bus"} =>
                   Point \notin DOMAIN Program /\ ResumeFor(why, slot) = Entry
<1>t. pc \in Int /\ branch \in BOOLEAN /\ delaySlot \in BOOLEAN
  BY DEF PipelineInv, TypeOK
<1>e. Entry \in Int \ HandlerBody
  BY CodeAssumption, ProgramAddress
<1>s. branch /\ ~ InHandler => pc \in DOMAIN Program /\ pc - 1 \in Int \ HandlerBody /\ Holds(pc, Slots)
  BY SlotAddress, ProgramAddress DEF Holds
<1>p. ~ InHandler => Point = (IF branch THEN pc - 1 ELSE pc)
  BY DEF Point
<1>1. CASE TakeInterrupt
  <2>1. ~ InHandler
    BY <1>1 DEF TakeInterrupt, PipelineInv, EnabledOutsideHandler
  <2>2. ResumeFor("interrupt", branch) = Point
    BY <2>1, <1>p DEF ResumeFor
  <2>3. Point \in Int \ HandlerBody
    BY <2>1, <1>p, <1>s, <1>t DEF InHandler
  <2>4. EnterException("interrupt", branch) /\ "interrupt" \in Causes
    BY <1>1 DEF TakeInterrupt, Causes
  <2> QED
    BY <2>1, <2>2, <2>3, <2>4, <1>t
<1>2. CASE Fault
  <2>1. ~ InHandler
    BY <1>2, ProgramAddress DEF Fault, Holds, InHandler
  <2>2. ResumeFor("fault", branch) = Point
    BY <2>1, <1>p DEF ResumeFor
  <2>3. Point \in Int \ HandlerBody
    BY <2>1, <1>p, <1>s, <1>t DEF InHandler
  <2>4. EnterException("fault", branch) /\ "fault" \in Causes
    BY <1>2 DEF Fault, Causes
  <2> QED
    BY <2>1, <2>2, <2>3, <2>4, <1>t
<1>3. CASE Trap
  <2>1. ~ InHandler /\ pc \in DOMAIN Program /\ Holds(pc, {"trap"})
    BY <1>3, ProgramAddress DEF Trap, Holds, InHandler
  <2>2. ~ branch
    BY <2>1, <1>s DEF Holds, Slots
  <2>3. ResumeFor("trap", branch) = Point + 1 /\ Point = pc
    BY <2>1, <2>2, <1>p DEF ResumeFor
  <2>4. pc + 1 \in Int \ HandlerBody
    BY <2>1, <1>t, ProgramAddress
  <2>5. EnterException("trap", branch) /\ "trap" \in Causes
    BY <1>3 DEF Trap, Causes
  <2> QED
    BY <2>1, <2>3, <2>4, <2>5, <1>t
<1>4. CASE FetchMisaligned
  <2>1. ~ InHandler /\ pc \notin DOMAIN Program
    BY <1>4, CodeAssumption, HandlerAssumption DEF FetchMisaligned, InHandler
  <2>2. Point = pc
    BY <2>1, <1>s, <1>p
  <2>3. ResumeFor("address", delaySlot) = Entry
    BY DEF ResumeFor
  <2>4. EnterException("address", delaySlot) /\ "address" \in Causes
    BY <1>4 DEF FetchMisaligned, Causes
  <2> QED
    BY <2>1, <2>2, <2>3, <2>4, <1>t, <1>e
<1>5. CASE FetchBusError
  <2>1. ~ InHandler /\ pc \notin DOMAIN Program
    BY <1>5 DEF FetchBusError, FetchBad, InHandler
  <2>2. Point = pc
    BY <2>1, <1>s, <1>p
  <2>3. ResumeFor("bus", branch) = Entry
    BY DEF ResumeFor
  <2>4. EnterException("bus", branch) /\ "bus" \in Causes
    BY <1>5 DEF FetchBusError, Causes
  <2> QED
    BY <2>1, <2>2, <2>3, <2>4, <1>t, <1>e
<1> QED
  BY <1>1, <1>2, <1>3, <1>4, <1>5 DEF Exception

\* An instruction of the program that does not jump.
LEMMA AdvanceKeepsInv ==
  ASSUME PipelineInv, pc \in DOMAIN Program, Advance,
         retired' \in {0, 1}, wanted' \in BOOLEAN,
         sr' \in [c : BOOLEAN, p : BOOLEAN, o : BOOLEAN], sr'.c = wanted'
  PROVE  /\ PipelineInv' /\ ~ InHandler /\ ~ InHandler'
         /\ ~ branch => Point = pc /\ Point' = pc + 1
         /\ branch => Point = pc - 1 /\ Point' \in Program[pc - 1].targets
<1>1. /\ pc' = nextPc /\ nextPc' = nextPc + 1 /\ delaySlot' = branch /\ branch' = FALSE
      /\ slotOf' = None /\ epc' = epc /\ bd' = bd /\ cause' = cause
  BY DEF Advance, trap
<1>2. ~ InHandler
  BY ProgramAddress DEF InHandler
<1>t. /\ pc \in Int /\ nextPc \in Int /\ branch \in BOOLEAN /\ epc \in Int
      /\ bd \in BOOLEAN /\ cause \in Causes /\ (~ branch => nextPc = pc + 1)
  BY DEF PipelineInv, TypeOK
<1>3. nextPc \notin HandlerBody
  <2>1. CASE branch
    BY <2>1, <1>2, SlotAddress
  <2>2. CASE ~ branch
    BY <2>2, <1>t, ProgramAddress
  <2> QED
    BY <2>1, <2>2
<1>4. ~ InHandler'
  BY <1>1, <1>3 DEF InHandler
<1>5. pc' \in Int /\ nextPc' \in Int /\ nextPc' = pc' + 1
  BY <1>1, <1>t
<1>6. TypeOK'
  BY <1>1, <1>5, <1>t DEF TypeOK
<1>7. EnabledOutsideHandler'
  BY <1>4 DEF EnabledOutsideHandler
<1>8. FlowOK' /\ HandlerOK'
  BY <1>1, <1>4 DEF FlowOK, HandlerOK
<1>9. Point' = nextPc
  BY <1>1, <1>4 DEF Point
<1>10. ~ branch => Point = pc /\ Point' = pc + 1
  BY <1>2, <1>9, <1>t DEF Point
<1>11. branch => Point = pc - 1 /\ Point' \in Program[pc - 1].targets
  BY <1>2, <1>9, SlotAddress DEF Point
<1> QED
  BY <1>2, <1>4, <1>6, <1>7, <1>8, <1>10, <1>11 DEF PipelineInv

\* A taken branch or jump of the program: its effect is still to come.
LEMMA TakenKeepsInv ==
  ASSUME PipelineInv, Taken
  PROVE  PipelineInv' /\ ~ InHandler' /\ Point' = Point /\ retired' = retired
<1>1. PICK target \in Program[pc].targets : JumpTo(target)
  BY DEF Taken
<1>2. /\ pc' = nextPc /\ nextPc' = target /\ delaySlot' = branch /\ branch' = TRUE
      /\ slotOf' = pc /\ sr' = sr /\ epc' = epc /\ bd' = bd /\ cause' = cause
      /\ retired' = retired /\ wanted' = wanted
  BY <1>1 DEF JumpTo, trap
<1>t. /\ pc \in Int /\ nextPc \in Int /\ branch \in BOOLEAN /\ epc \in Int
      /\ bd \in BOOLEAN /\ cause \in Causes /\ (~ branch => nextPc = pc + 1)
      /\ sr \in [c : BOOLEAN, p : BOOLEAN, o : BOOLEAN]
      /\ retired \in {0, 1} /\ wanted \in BOOLEAN
  BY DEF PipelineInv, TypeOK
<1>3. Holds(pc, Branches) /\ pc \in DOMAIN Program
  BY DEF Taken, Holds, Branches
<1>4. ~ InHandler
  BY <1>3, ProgramAddress DEF InHandler
<1>5. ~ branch
  <2>1. branch => Holds(pc, Slots)
    BY <1>4, SlotAddress
  <2> QED
    BY <2>1, <1>3 DEF Holds, Slots, Branches
<1>6. pc' = pc + 1 /\ pc' \in Int /\ pc' - 1 = pc
  BY <1>2, <1>5, <1>t
<1>7. pc + 1 \notin HandlerBody
  BY <1>3, ProgramAddress
<1>8. ~ InHandler'
  BY <1>6, <1>7 DEF InHandler
<1>9. Point' = Point
  BY <1>2, <1>4, <1>5, <1>6, <1>8 DEF Point
<1>10. target \in Int
  BY <1>3, BranchAddress
<1>11. TypeOK'
  BY <1>2, <1>6, <1>10, <1>t DEF TypeOK
<1>12. FlowOK'
  BY <1>2, <1>3, <1>6 DEF FlowOK, Holds
<1>13. HandlerOK'
  BY <1>8 DEF HandlerOK
<1>14. EnabledOutsideHandler'
  BY <1>2, <1>4, <1>8 DEF PipelineInv, EnabledOutsideHandler
<1> QED
  BY <1>2, <1>8, <1>9, <1>11, <1>12, <1>13, <1>14 DEF PipelineInv

----------------------------------------------------------------------------
(***************************************************************************)
(* The handler.                                                            *)
(***************************************************************************)
LEMMA HandlerBeginsKeepsInv ==
  ASSUME PipelineInv, HandlerBegins
  PROVE  PipelineInv' /\ Point' = Point /\ retired' = retired
<1>1. /\ pc = Handler /\ pc' = nextPc /\ nextPc' = nextPc + 1 /\ delaySlot' = branch
      /\ branch' = FALSE /\ slotOf' = None /\ epc' = epc /\ bd' = bd /\ cause' = cause
      /\ sr' = sr /\ retired' = retired /\ wanted' = wanted
  BY DEF HandlerBegins, Advance, trap
<1>t. /\ nextPc \in Int /\ branch \in BOOLEAN /\ epc \in Int
      /\ bd \in BOOLEAN /\ cause \in Causes /\ (~ branch => nextPc = pc + 1)
      /\ sr \in [c : BOOLEAN, p : BOOLEAN, o : BOOLEAN]
      /\ retired \in {0, 1} /\ wanted \in BOOLEAN
  BY DEF PipelineInv, TypeOK
<1>2. InHandler
  BY <1>1, HandlerWords DEF InHandler
<1>3. ~ branch
  BY <1>1, <1>2, HandlerWords DEF PipelineInv, HandlerOK
<1>4. pc' = Handler + 1 /\ pc' \in Int /\ pc' # Handler + 2
  BY <1>1, <1>3, <1>t, HandlerWords
<1>5. InHandler'
  BY <1>4, HandlerWords DEF InHandler
<1>6. Resume' = Resume
  BY <1>1 DEF Resume
<1>7. Point' = Point
  BY <1>2, <1>5, <1>6 DEF Point
<1>8. nextPc' \in Int /\ nextPc' = pc' + 1
  BY <1>1, <1>t
<1>9. TypeOK'
  BY <1>1, <1>4, <1>8, <1>t DEF TypeOK
<1>10. FlowOK'
  BY <1>5 DEF FlowOK
<1>11. HandlerOK'
  BY <1>1, <1>2, <1>4, <1>6 DEF HandlerOK, PipelineInv
<1>12. EnabledOutsideHandler'
  BY <1>1, <1>2, <1>5 DEF PipelineInv, EnabledOutsideHandler
<1> QED
  BY <1>1, <1>7, <1>9, <1>10, <1>11, <1>12 DEF PipelineInv

LEMMA HandlerReturnsKeepsInv ==
  ASSUME PipelineInv, HandlerReturns
  PROVE  PipelineInv' /\ Point' = Point /\ retired' = retired
<1>1. /\ pc = Handler + 1 /\ pc' = nextPc /\ nextPc' = Resume /\ delaySlot' = branch
      /\ branch' = TRUE /\ slotOf' = pc /\ epc' = epc /\ bd' = bd /\ cause' = cause
      /\ sr' = sr /\ retired' = retired /\ wanted' = wanted
  BY DEF HandlerReturns, JumpTo, trap
<1>t. /\ pc \in Int /\ nextPc \in Int /\ branch \in BOOLEAN /\ epc \in Int
      /\ bd \in BOOLEAN /\ cause \in Causes /\ (~ branch => nextPc = pc + 1)
      /\ sr \in [c : BOOLEAN, p : BOOLEAN, o : BOOLEAN]
      /\ retired \in {0, 1} /\ wanted \in BOOLEAN
  BY DEF PipelineInv, TypeOK
<1>2. InHandler
  BY <1>1, <1>t, HandlerWords DEF InHandler
<1>3. ~ branch
  BY <1>1, <1>2, HandlerWords DEF PipelineInv, HandlerOK
<1>4. pc' = Handler + 2 /\ pc' \in Int
  BY <1>1, <1>3, <1>t, HandlerWords
<1>5. InHandler'
  BY <1>4, HandlerWords DEF InHandler
<1>6. Resume' = Resume
  BY <1>1 DEF Resume
<1>7. Point' = Point
  BY <1>2, <1>5, <1>6 DEF Point
<1>8. Resume \in Int /\ Resume \notin HandlerBody /\ sr.p = wanted
  BY <1>2 DEF PipelineInv, HandlerOK
<1>9. TypeOK'
  BY <1>1, <1>4, <1>8, <1>t DEF TypeOK
<1>10. FlowOK'
  BY <1>5 DEF FlowOK
<1>11. HandlerOK'
  BY <1>1, <1>4, <1>6, <1>8 DEF HandlerOK
<1>12. EnabledOutsideHandler'
  BY <1>1, <1>2, <1>5 DEF PipelineInv, EnabledOutsideHandler
<1> QED
  BY <1>1, <1>7, <1>9, <1>10, <1>11, <1>12 DEF PipelineInv

LEMMA RfeKeepsInv ==
  ASSUME PipelineInv, Rfe
  PROVE  PipelineInv' /\ Point' = Point /\ retired' = retired
<1>1. /\ pc = Handler + 2 /\ pc' = nextPc /\ nextPc' = nextPc + 1 /\ delaySlot' = branch
      /\ branch' = FALSE /\ slotOf' = None /\ epc' = epc /\ bd' = bd /\ cause' = cause
      /\ sr' = [c |-> sr.p, p |-> sr.o, o |-> sr.o]
      /\ retired' = retired /\ wanted' = wanted
  BY DEF Rfe, Advance, Popped, trap
<1>t. /\ pc \in Int /\ nextPc \in Int /\ branch \in BOOLEAN /\ epc \in Int
      /\ bd \in BOOLEAN /\ cause \in Causes
      /\ sr \in [c : BOOLEAN, p : BOOLEAN, o : BOOLEAN]
      /\ retired \in {0, 1} /\ wanted \in BOOLEAN
  BY DEF PipelineInv, TypeOK
<1>2. InHandler
  BY <1>1, <1>t, HandlerWords DEF InHandler
<1>3. nextPc = Resume /\ Resume \in Int /\ Resume \notin HandlerBody /\ sr.p = wanted
  BY <1>1, <1>2 DEF PipelineInv, HandlerOK
<1>4. ~ InHandler'
  BY <1>1, <1>3 DEF InHandler
<1>5. Point' = Point
  BY <1>1, <1>2, <1>3, <1>4 DEF Point
<1>6. sr' \in [c : BOOLEAN, p : BOOLEAN, o : BOOLEAN] /\ sr'.c = wanted'
  BY <1>1, <1>3, <1>t
<1>7. pc' \in Int /\ nextPc' \in Int /\ nextPc' = pc' + 1
  BY <1>1, <1>t
<1>8. TypeOK'
  BY <1>1, <1>6, <1>7, <1>t DEF TypeOK
<1>9. FlowOK' /\ HandlerOK'
  BY <1>1, <1>4 DEF FlowOK, HandlerOK
<1>10. EnabledOutsideHandler'
  BY <1>4, <1>6 DEF EnabledOutsideHandler
<1> QED
  BY <1>1, <1>5, <1>8, <1>9, <1>10 DEF PipelineInv

LEMMA ResetKeepsInv ==
  ASSUME Reset, retired \in {0, 1}
  PROVE  PipelineInv' /\ Point' = Entry /\ retired' = retired
<1>1. /\ pc' = Entry /\ nextPc' = Entry + 1 /\ branch' = FALSE /\ delaySlot' = FALSE
      /\ sr' = [c |-> FALSE, p |-> FALSE, o |-> FALSE]
      /\ epc' = 0 /\ bd' = FALSE /\ cause' = "interrupt"
      /\ slotOf' = None /\ wanted' = FALSE /\ retired' = retired
  BY DEF Reset
<1>2. Entry \in DOMAIN Program
  BY CodeAssumption
<1>3. Entry \in Int /\ Entry \notin HandlerBody
  BY <1>2, ProgramAddress
<1>4. ~ InHandler'
  BY <1>1, <1>3 DEF InHandler
<1>s. sr' \in [c : BOOLEAN, p : BOOLEAN, o : BOOLEAN]
  BY <1>1
<1>p. pc' \in Int /\ nextPc' \in Int /\ epc' \in Int /\ nextPc' = pc' + 1
  BY <1>1, <1>3
<1>c. /\ branch' \in BOOLEAN /\ delaySlot' \in BOOLEAN /\ bd' \in BOOLEAN /\ cause' \in Causes
      /\ retired' \in {0, 1} /\ slotOf' \in Int \cup {None} /\ wanted' \in BOOLEAN
  BY <1>1 DEF Causes
<1>5. TypeOK'
  BY <1>s, <1>p, <1>c DEF TypeOK
<1>6. FlowOK' /\ HandlerOK'
  BY <1>1, <1>4 DEF FlowOK, HandlerOK
<1>7. EnabledOutsideHandler'
  BY <1>1 DEF EnabledOutsideHandler
<1>8. Point' = Entry
  BY <1>1, <1>4 DEF Point
<1> QED
  BY <1>1, <1>5, <1>6, <1>7, <1>8 DEF PipelineInv

----------------------------------------------------------------------------
(***************************************************************************)
(* Every step keeps the invariant and is a step of ProgramOrder, or none.  *)
(***************************************************************************)
OrderStep == Order!Next \/ (Point' = Point /\ retired' = retired)

LEMMA StepSimulates ==
  ASSUME PipelineInv, Next
  PROVE  PipelineInv' /\ OrderStep
<1> USE DEF OrderStep
<1>t. retired \in {0, 1} /\ wanted \in BOOLEAN /\ branch \in BOOLEAN /\ pc \in Int
      /\ sr \in [c : BOOLEAN, p : BOOLEAN, o : BOOLEAN]
  BY DEF PipelineInv, TypeOK
<1>1. CASE Exception
  <2>1. ~ InHandler
    BY <1>1, ExceptionEnters
  <2>2. PICK why \in Causes, slot \in BOOLEAN :
          /\ EnterException(why, slot)
          /\ ResumeFor(why, slot) \in Int \ HandlerBody
          /\ why \in {"interrupt", "fault"} => ResumeFor(why, slot) = Point
          /\ why = "trap" =>
               Holds(Point, {"trap"}) /\ ResumeFor(why, slot) = Point + 1
          /\ why \in {"address", "bus"} =>
               Point \notin DOMAIN Program /\ ResumeFor(why, slot) = Entry
    BY <1>1, ExceptionEnters
  <2>3. PipelineInv' /\ InHandler' /\ Resume' = ResumeFor(why, slot)
    BY <2>1, <2>2, EntryKeepsInv
  <2>4. Point' = ResumeFor(why, slot)
    BY <2>3 DEF Point
  <2>5. retired' = retired
    BY <2>2 DEF EnterException
  <2>6. CASE why \in {"interrupt", "fault"}
    BY <2>2, <2>3, <2>4, <2>5, <2>6
  <2>7. CASE why = "trap"
    <3>1. Holds(Point, {"trap"}) /\ Point' = Point + 1
      BY <2>2, <2>4, <2>7
    <3>2. Order!Straightforward
      BY <3>1, <2>5 DEF Order!Straightforward, Order!Tally, Order!Counts, Order!Holds, Holds
    <3> QED
      BY <2>3, <3>2 DEF Order!Next
  <2>8. CASE why \in {"address", "bus"}
    <3>1. Order!Restart
      BY <2>2, <2>4, <2>5, <2>8 DEF Order!Restart
    <3> QED
      BY <2>3, <3>1 DEF Order!Next
  <2> QED
    BY <2>6, <2>7, <2>8 DEF Causes
<1>2. CASE Plain
  <2>1. Holds(pc, {"plain", "flaky"}) /\ pc \in DOMAIN Program /\ Advance
        /\ retired' = 1 - retired /\ sr' = sr /\ wanted' = wanted
    BY <1>2 DEF Plain, Holds
  <2>2. ~ InHandler
    BY <2>1, ProgramAddress DEF InHandler
  <2>3. sr'.c = wanted' /\ retired' \in {0, 1}
    BY <2>1, <2>2, <1>t DEF PipelineInv, EnabledOutsideHandler
  <2>4. /\ PipelineInv'
        /\ ~ branch => Point = pc /\ Point' = pc + 1
        /\ branch => Point = pc - 1 /\ Point' \in Program[pc - 1].targets
    BY <2>1, <2>3, <1>t, AdvanceKeepsInv
  <2>5. CASE ~ branch
    BY <2>1, <2>4, <2>5
    DEF Order!Next, Order!Straightforward, Order!Tally, Order!Counts, Order!Holds, Holds
  <2>6. CASE branch
    <3>1. Holds(Point, Branches) /\ Point + 1 = pc /\ Point' \in Program[Point].targets
      BY <2>2, <2>4, <2>6, <1>t, SlotAddress
    <3>2. Order!Taken
      BY <3>1, <2>1 DEF Order!Taken, Order!Tally, Order!Counts, Order!Holds, Holds, Branches
    <3> QED
      BY <2>4, <3>2 DEF Order!Next
  <2> QED
    BY <2>5, <2>6
<1>3. CASE Enable
  <2>1. Holds(pc, {"enable"}) /\ pc \in DOMAIN Program /\ Advance
        /\ retired' = retired /\ sr' = [sr EXCEPT !.c = TRUE] /\ wanted' = TRUE
    BY <1>3 DEF Enable, Holds
  <2>3. sr'.c = wanted' /\ sr' \in [c : BOOLEAN, p : BOOLEAN, o : BOOLEAN]
    BY <2>1, <1>t
  <2>4. /\ PipelineInv' /\ ~ InHandler
        /\ ~ branch => Point = pc /\ Point' = pc + 1
        /\ branch => Point = pc - 1 /\ Point' \in Program[pc - 1].targets
    BY <2>1, <2>3, <1>t, AdvanceKeepsInv
  <2>5. CASE ~ branch
    BY <2>1, <2>4, <2>5
    DEF Order!Next, Order!Straightforward, Order!Tally, Order!Counts, Order!Holds, Holds
  <2>6. CASE branch
    <3>1. Holds(Point, Branches) /\ Point + 1 = pc /\ Point' \in Program[Point].targets
      BY <2>4, <2>6, <1>t, SlotAddress
    <3>2. Order!Taken
      BY <3>1, <2>1 DEF Order!Taken, Order!Tally, Order!Counts, Order!Holds, Holds, Branches
    <3> QED
      BY <2>4, <3>2 DEF Order!Next
  <2> QED
    BY <2>5, <2>6
<1>4. CASE NotTaken
  <2>1. Holds(pc, {"branch"}) /\ pc \in DOMAIN Program /\ Advance
        /\ retired' = retired /\ sr' = sr /\ wanted' = wanted
    BY <1>4 DEF NotTaken, Holds
  <2>2. ~ InHandler
    BY <2>1, ProgramAddress DEF InHandler
  <2>s. sr.c = wanted
    BY <2>2, <1>t DEF PipelineInv, EnabledOutsideHandler
  <2>3. sr'.c = wanted'
    BY <2>1, <2>s
  <2>4. /\ PipelineInv'
        /\ ~ branch => Point = pc /\ Point' = pc + 1
    BY <2>1, <2>3, <1>t, AdvanceKeepsInv
  <2>5. branch => Holds(pc, Slots)
    BY <2>2, SlotAddress
  <2>6. ~ branch
    BY <2>1, <2>5 DEF Holds, Slots
  <2>7. Order!NotTaken
    BY <2>1, <2>4, <2>6 DEF Order!NotTaken, Order!Holds, Holds
  <2> QED
    BY <2>4, <2>7 DEF Order!Next
<1>5. CASE Taken
  BY <1>5, TakenKeepsInv
<1>6. CASE HandlerBegins
  BY <1>6, HandlerBeginsKeepsInv
<1>7. CASE HandlerReturns
  BY <1>7, HandlerReturnsKeepsInv
<1>8. CASE Rfe
  BY <1>8, RfeKeepsInv
<1>9. CASE Reset
  <2>1. PipelineInv' /\ Point' = Entry /\ retired' = retired
    BY <1>9, <1>t, ResetKeepsInv
  <2> QED
    BY <2>1 DEF Order!Next, Order!Reset
<1> QED
  BY <1>1, <1>2, <1>3, <1>4, <1>5, <1>6, <1>7, <1>8, <1>9 DEF Next, Exception

LEMMA StutterSimulates ==
  ASSUME PipelineInv, UNCHANGED vars
  PROVE  PipelineInv' /\ Point' = Point /\ retired' = retired
<1>1. /\ pc' = pc /\ nextPc' = nextPc /\ branch' = branch /\ delaySlot' = delaySlot
      /\ sr' = sr /\ epc' = epc /\ bd' = bd /\ cause' = cause
      /\ retired' = retired /\ slotOf' = slotOf /\ wanted' = wanted
  BY DEF vars, flow, trap, ghosts
<1>2. InHandler' = InHandler /\ Resume' = Resume
  BY <1>1 DEF InHandler, Resume
<1>3. Point' = Point
  BY <1>1, <1>2 DEF Point
<1>4. TypeOK'
  BY <1>1 DEF PipelineInv, TypeOK
<1>5. FlowOK' /\ HandlerOK' /\ EnabledOutsideHandler'
  BY <1>1, <1>2 DEF PipelineInv, FlowOK, HandlerOK, EnabledOutsideHandler, Holds
<1> QED
  BY <1>1, <1>3, <1>4, <1>5 DEF PipelineInv

THEOREM PipelineInvariant == Spec => []PipelineInv
<1>1. PipelineInv /\ [Next]_vars => PipelineInv'
  BY StepSimulates, StutterSimulates
<1> QED
  BY InitInv, <1>1, PTL DEF Spec

\* The registers keep their types, and outside a delay slot the next two
\* program counters are consecutive.
THEOREM PipelineTypes == Spec => []TypeOK
<1>1. PipelineInv => TypeOK
  BY DEF PipelineInv
<1> QED
  BY PipelineInvariant, <1>1, PTL

\* Exceptions and rfe nest, whatever the program and the interrupts.
THEOREM ExceptionsNest == Spec => []EnabledOutsideHandler
<1>1. PipelineInv => EnabledOutsideHandler
  BY DEF PipelineInv
<1> QED
  BY PipelineInvariant, <1>1, PTL

\* Interrupts, faults and traps lose, repeat and skip nothing.
THEOREM PipelineImplementsOrder == Spec => RefinesProgramOrder
<1>1. Init => Order!Init
  <2>1. ASSUME Init PROVE ~ InHandler
    BY <2>1, CodeAssumption, ProgramAddress DEF Init, InHandler
  <2> QED
    BY <2>1 DEF Init, Point, Order!Init
<1>2. PipelineInv /\ [Next]_vars => [Order!Next]_(Order!vars)
  <2>1. ASSUME PipelineInv, Next PROVE [Order!Next]_(Order!vars)
    BY <2>1, StepSimulates DEF OrderStep, Order!vars
  <2>2. ASSUME PipelineInv, UNCHANGED vars PROVE [Order!Next]_(Order!vars)
    BY <2>2, StutterSimulates DEF Order!vars
  <2> QED
    BY <2>1, <2>2
<1> QED
  BY PipelineInvariant, <1>1, <1>2, PTL DEF Spec, RefinesProgramOrder, Order!Spec

----------------------------------------------------------------------------
(***************************************************************************)
(* BD and EPC.                                                             *)
(***************************************************************************)
SlotOK == slotOf = IF branch THEN pc - 1 ELSE None

\* Jumps are not made from delay slots.
LEMMA JumpFollowsStraightCode ==
  ASSUME PipelineInv, Taken \/ HandlerReturns
  PROVE  ~ branch
<1>1. CASE Taken
  <2>1. Holds(pc, Branches) /\ pc \in DOMAIN Program
    BY <1>1 DEF Taken, Holds, Branches
  <2>2. ~ InHandler
    BY <2>1, ProgramAddress DEF InHandler
  <2>3. branch => Holds(pc, Slots)
    BY <2>2, SlotAddress
  <2> QED
    BY <2>1, <2>3 DEF Holds, Slots, Branches
<1>2. CASE HandlerReturns
  <2>1. pc = Handler + 1 /\ pc \in Int
    BY <1>2 DEF HandlerReturns, PipelineInv, TypeOK
  <2>2. InHandler /\ pc # Handler + 2
    BY <2>1, HandlerWords DEF InHandler
  <2> QED
    BY <2>2 DEF PipelineInv, HandlerOK
<1> QED
  BY <1>1, <1>2

LEMMA StepKeepsSlot ==
  ASSUME PipelineInv, SlotOK, [Next]_vars
  PROVE  SlotOK'
<1>1. CASE Taken \/ HandlerReturns
  <2>1. /\ pc' = nextPc /\ branch' = TRUE /\ slotOf' = pc
    BY <1>1 DEF Taken, HandlerReturns, JumpTo
  <2>2. pc \in Int /\ nextPc = pc + 1
    BY <1>1, JumpFollowsStraightCode DEF PipelineInv, TypeOK
  <2>3. pc' - 1 = pc
    BY <2>1, <2>2
  <2> QED
    BY <2>1, <2>3 DEF SlotOK
<1>2. CASE UNCHANGED vars
  BY <1>2 DEF vars, flow, ghosts, SlotOK
<1>3. CASE Exception \/ Plain \/ Enable \/ NotTaken \/ HandlerBegins \/ Rfe \/ Reset
  <2>1. branch' = FALSE /\ slotOf' = None
    BY <1>3 DEF Exception, TakeInterrupt, FetchMisaligned, FetchBusError, Fault, Trap,
       EnterException, Plain, Enable, NotTaken, HandlerBegins, Rfe, Advance, Reset
  <2> QED
    BY <2>1 DEF SlotOK
<1> QED
  BY <1>1, <1>2, <1>3 DEF Next, Exception

LEMMA SlotTells ==
  ASSUME PipelineInv, SlotOK
  PROVE  /\ branch = (slotOf # None)
         /\ (IF branch THEN pc - 1 ELSE pc) = IF slotOf = None THEN pc ELSE slotOf
<1>1. pc \in Int /\ branch \in BOOLEAN
  BY DEF PipelineInv, TypeOK
<1>2. CASE branch
  <2>1. slotOf = pc - 1 /\ pc - 1 \in Int
    BY <1>1, <1>2 DEF SlotOK
  <2>2. slotOf # None
    BY <2>1, HandlerAssumption
  <2>3. branch = (slotOf # None)
    BY <1>1, <1>2, <2>2
  <2> QED
    BY <1>2, <2>1, <2>2, <2>3
<1>3. CASE ~ branch
  <2>1. slotOf = None
    BY <1>3 DEF SlotOK
  <2>2. branch = (slotOf # None)
    BY <1>1, <1>3, <2>1
  <2> QED
    BY <1>3, <2>1, <2>2
<1> QED
  BY <1>2, <1>3

\* Every exception but the misaligned fetch records the instruction that did
\* not complete, or the branch whose delay slot it sits in.
THEOREM ResumptionIsPrecise == Spec => PreciseResumption
<1>1. Init => SlotOK
  BY DEF Init, SlotOK
<1>2. PipelineInv /\ SlotOK /\ [Next]_vars => SlotOK'
  BY StepKeepsSlot
<1>3. PipelineInv /\ SlotOK => [Exception /\ cause' # "address" => Precise]_vars
  <2>1. SUFFICES ASSUME PipelineInv, SlotOK, Exception, cause' # "address" PROVE Precise
    OBVIOUS
  <2>2. bd' = branch /\ epc' = IF branch THEN pc - 1 ELSE pc
    BY <2>1 DEF Exception, TakeInterrupt, FetchMisaligned, FetchBusError, Fault, Trap,
       EnterException
  <2> QED
    BY <2>1, <2>2, SlotTells DEF Precise
<1> QED
  BY PipelineInvariant, <1>1, <1>2, <1>3, PTL DEF Spec, PreciseResumption

=============================================================================
