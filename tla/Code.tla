-------------------------------- MODULE Code --------------------------------
(***************************************************************************)
(* The code a CPU runs, as far as the order of execution depends on it.    *)
(* An address counts instruction words; an address outside the program is  *)
(* one whose fetch faults.                                                 *)
(*                                                                         *)
(*   plain    computes something and falls through                         *)
(*   flaky    does so, or faults instead (a misaligned load) and is tried  *)
(*            again after its handler                                      *)
(*   enable   sets SR.IEc (mtc0)                                           *)
(*   trap     syscall or break: the handler resumes behind it              *)
(*   branch   taken to one of its targets, or not taken                    *)
(*   jump     always taken                                                 *)
(***************************************************************************)
EXTENDS Integers

CONSTANTS
  Program,      \* Program[a]: the instruction at address a
  Entry,        \* where the program starts, and is restarted
  Misaligned    \* addresses that are not word-aligned

Straight == [kind : {"plain", "flaky", "enable", "trap"}, targets : {{}}]
Turning  == [kind : {"branch", "jump"}, targets : SUBSET Int]

\* The delay slot of a branch holds neither a branch nor a trap: the
\* architecture leaves the first undefined, the second needs a handler that
\* emulates branches.
ASSUME CodeAssumption ==
  /\ Program \in [DOMAIN Program -> Straight \cup Turning]
  /\ DOMAIN Program \subseteq Int
  /\ Entry \in DOMAIN Program
  /\ Misaligned \subseteq Int \ DOMAIN Program
  /\ \A a \in DOMAIN Program :
       Program[a] \in Turning =>
         /\ a + 1 \in DOMAIN Program
         /\ Program[a + 1].kind \in {"plain", "flaky", "enable"}

Holds(a, kinds) == a \in DOMAIN Program /\ Program[a].kind \in kinds

\* Instructions whose effect may not be lost or repeated.
Counts(a) == Holds(a, {"plain", "flaky"})
=============================================================================
