-------------------------------- MODULE MCParts --------------------------------
(***************************************************************************)
(* Small instances of the parts that stand alone, for TLC: in a behaviour  *)
(* one of them plays and the others stay as they are.                      *)
(*                                                                         *)
(* Of the calculations every choice of rows, amounts and needs within the  *)
(* bounds is an initial state; the closed forms of CreditAmounts are       *)
(* compared in each with the loops of credit.repository.ts, written as     *)
(* folds over the sorted rows, and the price of metered usage with what it *)
(* has to be.                                                              *)
(***************************************************************************)
EXTENDS CreditAmounts, MeteringPricing, Connection, Sweeps, UsageEvidence, ProviderEvents

CONSTANTS Rows,        \* row numbers, their order is the order of consumption
          MaxAmount,   \* bound on the amount of one row
          MaxNeed      \* bound on the amount asked for

VARIABLES part, chosen, amount, need

amountVars == <<chosen, amount, need>>

vars == <<part, amountVars, connectionVars, sweepVars, evidenceVars, providerVars>>

Parts == {"amounts", "connection", "sweeps", "evidence", "reads", "provider"}

AmountsInit ==
  /\ chosen \in IF part = "amounts" THEN SUBSET Rows ELSE {{}}
  /\ amount \in IF part = "amounts" THEN [Rows -> 0 .. MaxAmount] ELSE {[x \in Rows |-> 0]}
  /\ need \in IF part = "amounts" THEN 0 .. MaxNeed ELSE {0}

\* A caller asks for another amount of the same rows.
AmountsStep == need' \in 0 .. MaxNeed /\ UNCHANGED <<chosen, amount>>

\* Workers that were stopped before the first sweep.
SweepsOff ==
  /\ owner = NoToken /\ failures = 0
  /\ sweeper = [w \in Sweepers |-> Ended(TRUE)]
  /\ wire = [w \in Sweepers |-> <<>>]

-------------------------------------------------------------------------------
(***************************************************************************)
(* What may be said in evidence.                                           *)
(***************************************************************************)
NotAsked == [state |-> "not_requested", request |-> 0]
Asked(state, request) == [state |-> state, request |-> request]

Unused == [raw |-> Nothing, actual |-> Nothing, outcome |-> "unknown", dispatched |-> FALSE,
           sealed |-> FALSE, authorization |-> NotAsked, usage |-> <<>>]

\* Authorizations and outcomes without usage.
Unmetered ==
  {[Unused EXCEPT !.outcome = o, !.dispatched = d, !.authorization = a] :
     o \in {"unknown", "completed", "not_dispatched"}, d \in BOOLEAN,
     a \in {NotAsked, Asked("requested_unknown", 1), Asked("granted", 1), Asked("granted", 2),
           Asked("denied", 1)}}

UsageOf(count, protocol, assessment) ==
  LET u == [count |-> count, protocol |-> protocol, assessment |-> assessment]
      totals == Totals(u)
  IN  [count |-> count, protocol |-> protocol, assessment |-> assessment, totals |-> totals,
       classification |-> IF assessment = "unsupported" \/ totals = "unknown"
                          THEN "unknown" ELSE "partial"]

Count(input, output, total, cached, reasoning) ==
  [input |-> input, output |-> output, total |-> total, cached |-> cached, reasoning |-> reasoning]

\* Usage that is told bit by bit; of an unreported input a part may be known.
Metered ==
  {[Unused EXCEPT !.dispatched = TRUE, !.authorization = Asked("granted", 1), !.raw = raw,
                  !.usage = <<UsageOf(Count(input, 1, total, cached, Unreported), "anthropic", "ok")>>] :
     raw \in {Nothing, "a", "b"}, input \in {Unreported, 0, 1}, total \in {Unreported, 1},
     cached \in {Unreported, 1}}

Garbled ==
  {[Unused EXCEPT !.usage = <<UsageOf(Count(1, 1, 2, 1, 1), "ollama", "ok")>>],
   [Unused EXCEPT !.dispatched = TRUE, !.authorization = Asked("granted", 1),
                  !.usage = <<[UsageOf(Count(1, 1, 2, 1, 1), "anthropic", "ok")
                                 EXCEPT !.totals = "known_zero"]>>]}

Sealed == {[f EXCEPT !.sealed = TRUE] : f \in {f \in Metered : f.raw = "a" /\ Totals(f.usage[1]) # "unknown"}}

MCCandidates == Unmetered \cup Metered \cup Sealed \cup Garbled

\* A chain of two, of which the second is sealed.
Told ==
  LET used == [Unused EXCEPT !.dispatched = TRUE, !.authorization = Asked("granted", 1),
                 !.usage = <<UsageOf(Count(1, 1, 2, 1, 1), "anthropic", "ok")>>]
      written == [attempt |-> 1, event |-> 1, revision |-> 1, predecessor |-> <<>>, facts |-> used,
                  digest |-> NoDigest]
      first == [written EXCEPT !.digest = Digest(written)]
      next == [written EXCEPT !.event = 2, !.revision = 2,
                 !.predecessor = <<[event |-> 1, digest |-> first.digest]>>, !.facts.sealed = TRUE]
  IN  <<first, [next EXCEPT !.digest = Digest(next)]>>

MCExpecting == [r \in Reads |-> r]

-------------------------------------------------------------------------------
Init ==
  /\ part \in Parts
  /\ AmountsInit /\ ConnectionInit /\ ReaderInit /\ ProviderInit
  /\ IF part = "sweeps" THEN SweepsInit ELSE SweepsOff
  /\ accepted = IF part = "reads" THEN Told ELSE <<>>
  /\ part # "provider" => sale = [provider |-> "stripe", mode |-> "payment", hosted |-> TRUE]

Next ==
  /\ UNCHANGED part
  /\ \/ /\ part = "amounts" /\ AmountsStep
        /\ UNCHANGED <<connectionVars, sweepVars, evidenceVars, providerVars>>
     \/ /\ part = "connection" /\ ConnectionStep
        /\ UNCHANGED <<amountVars, sweepVars, evidenceVars, providerVars>>
     \/ /\ part = "sweeps" /\ SweepStep
        /\ UNCHANGED <<amountVars, connectionVars, evidenceVars, providerVars>>
     \/ /\ \/ part = "evidence" /\ \E e \in Sent : Follow(e)
           \/ part = "reads" /\ ReaderStep
        /\ UNCHANGED <<amountVars, connectionVars, sweepVars, providerVars>>
     \/ /\ part = "provider" /\ ProviderStep
        /\ UNCHANGED <<amountVars, connectionVars, sweepVars, evidenceVars>>

Spec == Init /\ [][Next]_vars /\ SweepFairness

-------------------------------------------------------------------------------
Before == [x \in Rows |-> {y \in Rows : y < x}]

InOrder == SetToSortSeq(chosen, <)

Total(f, S) == FoldLeft(LAMBDA acc, x : acc + f[x], 0, SetToSortSeq(S, <))

\* SELECT SUM(amount), as the closed form and as the loop over the rows.
ASSUME SumAddsRows ==
  \A S \in SUBSET Rows, f \in [Rows -> 0 .. MaxAmount] : Sum(S, f) = Total(f, S)

\* One round of "for (const grant of grants)" in reserve: give min(row, remaining).
Round(acc, x) ==
  LET give == IF amount[x] < acc.remaining THEN amount[x] ELSE acc.remaining
  IN  [given |-> [acc.given EXCEPT ![x] = give], remaining |-> acc.remaining - give]

Loop == FoldLeft(Round, [given |-> [x \in Rows |-> 0], remaining |-> need], InOrder)

(***************************************************************************)
(* The closed form gives every row what the allocation loops of reserve    *)
(* and finishHold give it, and a remainder stays exactly when the loop     *)
(* leaves one (the "Eligible grants are insufficient" error).              *)
(***************************************************************************)
GreedyIsTheLoop ==
  LET given == Greedy(chosen, Before, amount, need)
  IN  /\ given = Loop.given
      /\ (Total(given, chosen) = need) <=> (Loop.remaining = 0)

Inclusions == {p \in [chosen -> chosen \cup {NoBucket}] : InclusionValid(chosen, p)}

RootsOf(includedIn) == {b \in chosen : includedIn[b] = NoBucket}

\* Bucket b costs b/2 minor units; the multiplier is (need + 1)/3.
Price(includedIn) ==
  CreditMicros(chosen, includedIn, amount, [b \in chosen |-> Ratio(b, 2)],
               Ratio(need + 1, 3), Ratio(1, 1))

(***************************************************************************)
(* However buckets are counted in one another, every unit of usage is      *)
(* charged once, at the rate of the innermost bucket that counts it: what  *)
(* is charged adds up to the usage of the outermost buckets, and the price *)
(* is the exact product of quantities, rates and multiplier, rounded up    *)
(* once, at the end.                                                       *)
(***************************************************************************)
QuoteCountsUsageOnce == \A includedIn \in Inclusions :
  Priceable(chosen, includedIn, amount) =>
    LET value(b) == amount[b] * (b - IF includedIn[b] = NoBucket THEN 0 ELSE includedIn[b])
        sixths == (need + 1) * Total([b \in chosen |-> value(b)], chosen)
    IN  /\ Total(Normalised(chosen, includedIn, amount), chosen)
             = Total(amount, RootsOf(includedIn))
        /\ 6 * Price(includedIn) \in sixths .. sixths + 5
================================================================================
