---------------------------- MODULE MCLoadDelay -----------------------------
(***************************************************************************)
(* LoadDelay for TLC: two registers, two words with a byte of its own at   *)
(* every address; the initial contents of memory are fixed.                *)
(***************************************************************************)
EXTENDS LoadDelay

MCStart  == [i \in 0..3 |-> 9]
MCMemory == [a \in {0, 4} |-> [i \in 0..3 |-> a + i]]
MCInit   == memory = MCMemory /\ Init
MCSpec   == MCInit /\ [][Next]_vars
=============================================================================
