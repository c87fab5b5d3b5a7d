---------------------------- MODULE ProgramOrder ----------------------------
(***************************************************************************)
(* What a program may rely on: its instructions take effect one after the  *)
(* other, each once, a taken branch together with its delay slot.  There   *)
(* are no interrupts here, no handler and no pipeline.                     *)
(***************************************************************************)
EXTENDS Code

VARIABLES
  point,    \* the next instruction to take effect
  retired   \* parity of the instructions that Count and have taken effect

vars == <<point, retired>>

Init == point = Entry /\ retired = 0

Tally(a) == IF Counts(a) THEN 1 - retired ELSE retired

Straightforward ==
  /\ Holds(point, {"plain", "flaky", "enable", "trap"})
  /\ point' = point + 1
  /\ retired' = Tally(point)

NotTaken ==
  /\ Holds(point, {"branch"})
  /\ point' = point + 1
  /\ UNCHANGED retired

Taken ==
  /\ Holds(point, {"branch", "jump"})
  /\ point' \in Program[point].targets
  /\ retired' = Tally(point + 1)

\* Gone astray, a program is started again.
Restart ==
  /\ point \notin DOMAIN Program
  /\ point' = Entry
  /\ UNCHANGED retired

Reset == point' = Entry /\ UNCHANGED retired

Next == Straightforward \/ NotTaken \/ Taken \/ Restart \/ Reset

Spec == Init /\ [][Next]_vars
=============================================================================
