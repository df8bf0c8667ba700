----------------------------- MODULE MCCreditReads -----------------------------
(* A small instance of CreditReads for TLC. *)
EXTENDS CreditReads, TLC

CONSTANTS s1, s2

MCSources == {s1, s2}

\* Accounts, holds and sources are only compared with one another.
Symmetry == Permutations(Accounts) \cup Permutations(Holds) \cup Permutations(Sources)
================================================================================
