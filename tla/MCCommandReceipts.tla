-------------------------- MODULE MCCommandReceipts --------------------------
(* Small instances of CommandReceipts for TLC. *)
EXTENDS CommandReceipts, TLC

Symmetry == Permutations(Attempts) \cup Permutations(Keys)
            \cup Permutations(Identities) \cup Permutations(Payloads)
===============================================================================
