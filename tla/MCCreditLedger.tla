---------------------------- MODULE MCCreditLedger ----------------------------
(* Small instances of CreditLedger for TLC. *)
EXTENDS CreditLedger, TLC

CONSTANTS s1, s2

MCSources == {s1, s2}

\* Holds and sources are only compared with one another.
Symmetry == Permutations(Holds) \cup Permutations(Sources)

\* So are accounts.
SymmetryOfAccounts == Symmetry \cup Permutations(Accounts)
===============================================================================
