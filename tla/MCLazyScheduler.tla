-------------------------- MODULE MCLazyScheduler --------------------------
(***************************************************************************)
(* LazyScheduler over a small device that keeps Devices' contract: a timer,*)
(* periodic or one-shot, whose announced deadline is early by a cycle      *)
(* (like Counter::cycles_to_next_event, it is a lower bound), and a pad    *)
(* whose buttons the host presses.                                         *)
(***************************************************************************)
EXTENDS LazyScheduler

CONSTANTS Period, Shot   \* cycles to the periodic and to the one-shot event

Timer0  == 4
MCLines == {0, Timer0}
MCIrqWrites == {{}, {Timer0}}

\* due: cycles until the timer fires, 0 when stopped; pressed: what the pad
\* will answer.
MCDevState == [due : 0..(Period + Shot), periodic : BOOLEAN, pressed : BOOLEAN]
MCInitDev  == [due |-> 0, periodic |-> FALSE, pressed |-> FALSE]

MCAdvance(d, n) ==
  [d EXCEPT !.due = CASE n < @                    -> @ - n
                      [] @ = 0 \/ ~ d.periodic    -> 0
                      [] OTHER                    -> Period - ((n - @) % Period)]
MCRaised(d, n) == IF d.due # 0 /\ d.due <= n THEN {Timer0} ELSE {}

MCNextEvent(d) ==
  IF d.due = 0 THEN Never ELSE IF d.due > 1 THEN d.due - 1 ELSE 1

\* What an access returns is left out: the whole device is compared.
MCOps == {"periodic", "one-shot"}
MCApply(op, d) ==
  CASE op = "periodic" -> [d EXCEPT !.due = Period, !.periodic = TRUE]
    [] op = "one-shot" -> [d EXCEPT !.due = Shot, !.periodic = FALSE]
MCValue(op, d) == {}
\* Starting the one-shot stands in for a register write that sets a software
\* bit at once (the completion of a DMA transfer).
MCSets(op, d) == IF op = "one-shot" THEN {0} ELSE {}

\* Command::SetControllerState changes the pad wherever the clock stands.
MCPokes == {"press"}
MCPoke(c, d) == [d EXCEPT !.pressed = TRUE]
=============================================================================
