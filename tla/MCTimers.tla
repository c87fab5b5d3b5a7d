------------------------------ MODULE MCTimers ------------------------------
(***************************************************************************)
(* Timers for TLC: a 2-bit counter whose divided source ticks every three   *)
(* cycles, with every control word, value and target.                      *)
(***************************************************************************)
EXTENDS Timers

MCDivs  == {3}
MCDivOf == [i \in Indices |-> 3]
AllValues == 0..(Wrap - 1)
AllModes  == [resetOnTarget : BOOLEAN, irqOnTarget : BOOLEAN,
              irqOnOverflow : BOOLEAN, irqRepeat : BOOLEAN, slow : BOOLEAN]
=============================================================================
