------------------------------- MODULE Bytes --------------------------------
(***************************************************************************)
(* Words as four bytes, the least significant first, and the loads and     *)
(* stores that move part of one (LWL, LWR, SWL, SWR in cpu/execute.rs).    *)
(***************************************************************************)
EXTENDS Integers

CONSTANT Byte

Word == [0..3 -> Byte]

\* The highest k + 1 bytes of a register from the lowest of an aligned word.
LoadLeft(current, aligned, k) ==
  [i \in 0..3 |-> IF i >= 3 - k THEN aligned[i - (3 - k)] ELSE current[i]]

\* The lowest 4 - k bytes of a register from the highest of an aligned word.
LoadRight(current, aligned, k) ==
  [i \in 0..3 |-> IF i <= 3 - k THEN aligned[i + k] ELSE current[i]]

StoreLeft(aligned, value, k) ==
  [i \in 0..3 |-> IF i <= k THEN value[i + (3 - k)] ELSE aligned[i]]

StoreRight(aligned, value, k) ==
  [i \in 0..3 |-> IF i >= k THEN value[i - k] ELSE aligned[i]]
=============================================================================
