----------------------------- MODULE MCPipeline -----------------------------
(***************************************************************************)
(* Pipeline for TLC: a loop that enables interrupts, branches over a trap  *)
(* with an instruction that may fault in the delay slot, and jumps back,   *)
(* or astray, through a table.                                             *)
(***************************************************************************)
EXTENDS Pipeline

Insn(k, ts) == [kind |-> k, targets |-> ts]

LoopTo(ends) ==
  [a \in 0..7 |->
     CASE a = 0 -> Insn("enable", {})
       [] a = 1 -> Insn("plain", {})
       [] a = 2 -> Insn("branch", {5})
       [] a = 3 -> Insn("flaky", {})
       [] a = 4 -> Insn("trap", {})
       [] a = 5 -> Insn("flaky", {})
       [] a = 6 -> Insn("jump", ends)
       [] a = 7 -> Insn("plain", {})]

\* 20 is unmapped, 30 is misaligned.
LoopAstray == LoopTo({1, 3, 20, 30})
LoopHome   == LoopTo({1})
=============================================================================
