------------------------------- MODULE Words -------------------------------
(***************************************************************************)
(* 32-bit words of main memory, as records of the fields that somebody     *)
(* reads them for.  A word that lacks a field reads as its default there.  *)
(***************************************************************************)
EXTENDS Integers, Sequences, SequencesExt

Field(w, f, default) == IF f \in DOMAIN w THEN w[f] ELSE default

Bounded(n, low) == IF n < low THEN low ELSE n
=============================================================================
