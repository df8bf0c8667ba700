---------------------------- MODULE CreditAmounts ----------------------------
(***************************************************************************)
(* Arithmetic on credit amounts (micros, natural numbers) that the credit  *)
(* repository writes as SQL aggregates and as loops:                       *)
(*   Sum     a SUM(...) over rows;                                         *)
(*   Greedy  the "take what is still missing, row by row" loops that spread *)
(*           a reservation over grants and a capture over allocations.     *)
(*                                                                         *)
(* Both are closed forms without recursion, so that the modules built on   *)
(* them can be reasoned about by the proof system. A sum of naturals is    *)
(* the number of its units: row x of amount n contributes the pairs        *)
(* <<x, 1>>, ..., <<x, n>>. MCParts checks both forms against the loops    *)
(* of the code.                                                            *)
(***************************************************************************)
EXTENDS Integers, FiniteSets

\* The units of the rows S, where row x holds amount[x].
Units(S, amount) == UNION {{x} \X (1 .. amount[x]) : x \in S}

\* SELECT SUM(amount) over the rows S.
Sum(S, amount) == Cardinality(Units(S, amount))

\* What is left of need when the rows consumed before x have given all they had.
Missing(S, before, amount, need, x) ==
  need - Sum({y \in S : y \in before[x]}, amount)

\* Mutant: every row is asked for the whole need.
GreedyForgetsTaken(S, before, amount, need) ==
  [x \in DOMAIN amount |->
     IF x \notin S THEN 0 ELSE IF amount[x] < need THEN amount[x] ELSE need]

(***************************************************************************)
(* How much each row of S gives when need is taken from the rows one after *)
(* the other; before[x] is the set of rows consumed before row x.          *)
(***************************************************************************)
Greedy(S, before, amount, need) ==
  [x \in DOMAIN amount |->
     LET missing == Missing(S, before, amount, need, x)
     IN  IF x \notin S \/ missing <= 0 THEN 0
         ELSE IF amount[x] < missing THEN amount[x] ELSE missing]
==============================================================================
