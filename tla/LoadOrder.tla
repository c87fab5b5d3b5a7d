----------------------------- MODULE LoadOrder ------------------------------
(***************************************************************************)
(* What a program may rely on of the load delay: one register file, and at *)
(* most one load in flight.  An instruction reads the file without the     *)
(* load before it; that load lands with the instruction, under whatever    *)
(* the instruction writes itself, and never when the instruction is a load *)
(* of the same register.  It may also land early, since an interrupt       *)
(* leaves it more time.                                                    *)
(***************************************************************************)
EXTENDS Bytes

CONSTANTS Regs, Aligned, NoLoad, Start

VARIABLES file, landing, memory, cop

vars == <<file, landing, memory, cop>>

Landed == IF landing = NoLoad THEN file ELSE [file EXCEPT ![landing.reg] = landing.value]

Init ==
  /\ file = [r \in Regs |-> Start] /\ landing = NoLoad
  /\ memory \in [Aligned -> Word] /\ cop = Start

Land ==
  /\ landing # NoLoad
  /\ file' = Landed /\ landing' = NoLoad
  /\ UNCHANGED <<memory, cop>>

Load(r, value) ==
  /\ file' = [Landed EXCEPT ![r] = file[r]]
  /\ landing' = [reg |-> r, value |-> value]
  /\ UNCHANGED <<memory, cop>>

LoadWord ==
  \E r \in Regs, a \in Aligned, k \in 0..3 :
    \/ Load(r, memory[a])
    \/ Load(r, LoadLeft(Landed[r], memory[a], k))
    \/ Load(r, LoadRight(Landed[r], memory[a], k))

MoveFrom == \E r \in Regs : Load(r, cop)

Move ==
  \E r, s \in Regs :
    /\ file' = [Landed EXCEPT ![r] = file[s]] /\ landing' = NoLoad
    /\ UNCHANGED <<memory, cop>>

Store ==
  \E s \in Regs, a \in Aligned, k \in 0..3 :
    /\ \/ memory' = [memory EXCEPT ![a] = file[s]]
       \/ memory' = [memory EXCEPT ![a] = StoreLeft(@, file[s], k)]
       \/ memory' = [memory EXCEPT ![a] = StoreRight(@, file[s], k)]
    /\ file' = Landed /\ landing' = NoLoad
    /\ UNCHANGED cop

MoveTo ==
  \E s \in Regs :
    /\ cop' = file[s]
    /\ file' = Landed /\ landing' = NoLoad
    /\ UNCHANGED memory

CoprocessorLoad ==
  \E a \in Aligned :
    /\ cop' = memory[a]
    /\ file' = Landed /\ landing' = NoLoad
    /\ UNCHANGED memory

CoprocessorStore ==
  \E a \in Aligned :
    /\ memory' = [memory EXCEPT ![a] = cop]
    /\ file' = Landed /\ landing' = NoLoad
    /\ UNCHANGED cop

Next ==
  Land \/ LoadWord \/ MoveFrom \/ Move \/ Store \/ MoveTo \/ CoprocessorLoad \/ CoprocessorStore

Spec == Init /\ [][Next]_vars
=============================================================================
