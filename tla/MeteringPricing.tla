---------------------------- MODULE MeteringPricing ----------------------------
(***************************************************************************)
(* The arithmetic of metering: what a measured attempt costs               *)
(* (priceMeteredAttempt), which sets of rates may be published             *)
(* (metering-pricing-revision-codec.ts) and which rate a request is        *)
(* matched with (selectActivePricing).                                     *)
(*                                                                         *)
(* Rationals are pairs; reducing them, as fraction does, changes no value, *)
(* and the bounds of INT64 and NUMERIC(78) are not reached. Shapes, names, *)
(* units and currencies are validated by the code and left out.            *)
(***************************************************************************)
EXTENDS Integers, FiniteSets, SequencesExt

CONSTANT NoBucket  \* includedIn of a bucket that is no part of another

Ratio(n, d) == [numerator |-> n, denominator |-> d]

Multiply(x, y) == Ratio(x.numerator * y.numerator, x.denominator * y.denominator)

Plus(x, y) == Ratio(x.numerator * y.denominator + y.numerator * x.denominator,
                    x.denominator * y.denominator)

RoundedUp(x) == x.numerator \div x.denominator
                  + IF x.numerator % x.denominator = 0 THEN 0 ELSE 1

(***************************************************************************)
(* A bucket may be counted in another one, which may be counted in a third;*)
(* following includedIn never comes back.                                  *)
(***************************************************************************)
InclusionValid(buckets, includedIn) ==
  \E rank \in [buckets -> 1 .. Cardinality(buckets)] :
    \A b \in buckets : includedIn[b] # NoBucket => /\ includedIn[b] \in buckets
                                                  /\ rank[b] < rank[includedIn[b]]

AddUp(S, value) == FoldLeft(LAMBDA total, b : total + value[b], 0, SetToSeq(S))

\* Mutant: what is counted in another bucket is charged there too.
NormalisedTotals(buckets, includedIn, usage) == usage

\* normalizedUsage: what a bucket counts beyond the buckets included in it.
Normalised(buckets, includedIn, usage) ==
  [b \in buckets |-> usage[b] - AddUp({c \in buckets : includedIn[c] = b}, usage)]

\* The attempt is refused when a part measures more than the whole.
Priceable(buckets, includedIn, usage) ==
  /\ InclusionValid(buckets, includedIn)
  /\ \A b \in buckets : Normalised(buckets, includedIn, usage)[b] >= 0

CreditMicros(buckets, includedIn, usage, rates, multiplier, perMinor) ==
  LET quantity == Normalised(buckets, includedIn, usage)
      cost == FoldLeft(LAMBDA total, b : Plus(total, Multiply(Ratio(quantity[b], 1), rates[b])),
                       Ratio(0, 1), SetToSortSeq(buckets, <))
  IN  RoundedUp(Multiply(Multiply(cost, multiplier), perMinor))

-------------------------------------------------------------------------------
(***************************************************************************)
(* Rates of one binding, bucket and unit. A rate is for all requests, or   *)
(* for those that observe its dimension within [lower, upper); a request   *)
(* observes a dimension, or nothing.                                       *)
(***************************************************************************)
All == "all"

\* Mutant: only where a range begins is compared.
OverlapAtStart(r, s) == r.dimension # s.dimension \/ r.lower = s.lower

\* validateIntervals refuses two rates that one request could both match, and
\* two dimensions of one group.
Overlap(r, s) ==
  \/ r.dimension = All \/ s.dimension = All \/ r.dimension # s.dimension
  \/ s.lower < r.upper /\ r.lower < s.upper

Publishable(rates) ==
  /\ rates # {}
  /\ \A r \in rates : r.dimension # All => r.lower < r.upper
  /\ \A r, s \in rates : r # s => ~Overlap(r, s)

Matches(rates, observed) ==
  {r \in rates : \/ r.dimension = All
                 \/ /\ r.dimension = observed.dimension
                    /\ r.lower <= observed.value /\ observed.value < r.upper}
===============================================================================
