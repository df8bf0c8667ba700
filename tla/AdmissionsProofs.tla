---------------------------- MODULE AdmissionsProofs ----------------------------
(***************************************************************************)
(* The books of the entitlement tables drift for one reason only, holds    *)
(* are backed, and admissions tell the story of their holds, for any       *)
(* number of accounts, grants, periods, holds, invocations, events and     *)
(* passes.                                                                 *)
(*                                                                         *)
(* The invariant has two layers: CreditInv of the credit tables, which     *)
(* every transaction of Entitlements keeps, and StoryInv of admissions,    *)
(* receipts and events above it.                                           *)
(***************************************************************************)
EXTENDS Admissions, CreditAmountsProofs

-------------------------------------------------------------------------------
(* The rows of the tables. *)
AccountRows == [available : Nat, held : Nat]
GrantRows == [status : {"absent", "active", "exhausted", "expired"},
              account : Accounts \cup {None}, paid : BOOLEAN,
              original : Amounts \cup {0}, remaining : Nat, reversed : Nat,
              expires : 0 .. Never, period : Periods \cup {None}]
HoldRows == [status : {"absent", "active", "captured", "released", "expired"},
             account : Accounts \cup {None}, requested : Nat,
             captured : Nat, expires : 0 .. MaxTime]
AllocationRows == [held : Nat, captured : Nat, released : Nat]
UsageRows == [status : {"absent", "recorded", "settled"},
              owner : Accounts \cup {None}, hold : Holds \cup {None}]
Entries == [account : Accounts, amount : Int,
            source : Grants \cup Periods \cup Holds \cup Refunds,
            kind : {"grant", "debit", "expiry", "reversal"}]

CreditTyped ==
  /\ account \in [Accounts -> AccountRows]
  /\ grant \in [Grants -> GrantRows]
  /\ hold \in [Holds -> HoldRows]
  /\ allocation \in [Holds -> [Grants -> AllocationRows]]
  /\ usage \in [Usages -> UsageRows]
  /\ journal \subseteq Entries

RestTyped ==
  /\ now \in 0 .. MaxTime
  /\ code \in [Codes -> {"absent", "issued", "disabled", "redeemed"}]
  /\ campaign \in [open : BOOLEAN, credit : Amounts \cup {0}, count : 0 .. MaxRedemptions]

(* The sums that the books compare. *)
HoldsOf(a) == {h \in ActiveHolds : hold[h].account = a}
Requested == [h \in Holds |-> hold[h].requested]
Remaining == [g \in Grants |-> grant[g].remaining]
Original == [g \in Grants |-> grant[g].original]
Unbooked(a) == Sum(Uncredited(a), Original)
Rows(h) == [g \in Grants |-> allocation[h][g].held]
Credited(a) ==
  Sum({e \in journal : e.account = a /\ e.amount > 0}, [e \in journal |-> e.amount])
Debited(a) ==
  Sum({e \in journal : e.account = a /\ e.amount < 0}, [e \in journal |-> -e.amount])

(***************************************************************************)
(* A grant that does not exist is in no account; an expired one is empty,  *)
(* and one that was never refunded has what active holds reserve of it.    *)
(***************************************************************************)
GrantOK(g) ==
  /\ grant[g].status = "absent" => grant[g] = NoGrant
  /\ grant[g].status # "absent" => grant[g].account \in Accounts
  /\ grant[g].status = "expired" => grant[g].remaining = 0
  /\ grant[g].reversed = 0 => Reserved(g) <= grant[g].remaining

(* An active hold has reserved all it requested, from grants of its account. *)
HoldOK(h) == hold[h].status = "active" =>
  /\ hold[h].account \in Accounts
  /\ Sum(Grants, Rows(h)) = hold[h].requested
  /\ \A g \in Grants :
       /\ allocation[h][g].captured = 0 /\ allocation[h][g].released = 0
       /\ allocation[h][g].held > 0 => grant[g].account = hold[h].account

(***************************************************************************)
(* Grants are issued in order, and the first of a period was journaled: so *)
(* the others of the period are those that were granted without credit.    *)
(***************************************************************************)
IssueOK(g) ==
  /\ grant[g].status = "absent" => \A k \in Grants : k > g => grant[k].status = "absent"
  /\ grant[g].period # None => grant[g].original > 0 /\ Journaled(grant[g].period)

(* The books of an account. *)
AccountOK(a) ==
  /\ account[a].held = Sum(HoldsOf(a), Requested)
  /\ account[a].available + account[a].held + Unbooked(a) = Sum(GrantsOf(a), Remaining)
  /\ account[a].available + account[a].held + Debited(a) = Credited(a)

(***************************************************************************)
(* Every entry of the journal has a row it stands for, whose status no     *)
(* later transaction takes back: so no entry is ever written twice.        *)
(***************************************************************************)
Issued(source) ==
  \/ source \in Grants /\ grant[source].status # "absent"
  \/ source \in Periods /\ \E g \in Grants : grant[g].period = source

EntryOK(e) ==
  /\ e.kind = "grant" => Issued(e.source)
  /\ e.kind = "expiry" => e.source \in Grants /\ grant[e.source].status = "expired"
  /\ e.kind = "debit" => e.source \in Holds /\ hold[e.source].status = "captured"

CreditInv ==
  /\ CreditTyped
  /\ IsFiniteSet(journal) /\ \A e \in journal : EntryOK(e)
  /\ \A g \in Grants : GrantOK(g)
  /\ \A g \in Grants : IssueOK(g)
  /\ \A h \in Holds : HoldOK(h)
  /\ \A a \in Accounts : AccountOK(a)

-------------------------------------------------------------------------------
DebitsOf(i) == {e \in journal : e.kind = "debit" /\ e.source = i}

(***************************************************************************)
(* What AdmissionsMatchHolds says of one invocation; and that only a       *)
(* charged admission has a hold or a usage event, and that the receipts of *)
(* its commands answer for its status.                                     *)
(***************************************************************************)
AdmissionOK(i) ==
  /\ admission[i].status = "absent" => admission[i].amount = 0
  /\ admission[i].amount = 0 =>
       hold[i].status = "absent" /\ admission[i].status \in {"absent", "captured"}
  /\ admission[i].amount > 0 =>
       \/ admission[i].status = "captured" /\ hold[i].status = "captured"
       \/ admission[i].status = "released" /\ hold[i].status = "released"
       \/ admission[i].status \in {"held", "unknown"} /\ hold[i].status \in {"active", "expired"}
  /\ hold[i].status = "captured" =>
       /\ hold[i].captured = admission[i].amount
       /\ usage[i].status = "settled" /\ usage[i].hold = i
       /\ {e.amount : e \in DebitsOf(i)} = {-admission[i].amount}
  /\ receipt["capture"][i] # None => admission[i].status = "captured"
  /\ receipt["release"][i] # None => admission[i].status = "released"

(* What ProcessedEventsHold says of one event, with the types of its fields. *)
EventOK(e) ==
  /\ event[e].status # "absent" => event[e].payload \in Payloads /\ event[e].kind \in Kinds
  /\ event[e].status = "processed" =>
       /\ event[e].kind = "accepted" => admission[EventOf[e]].status = "captured"
       /\ event[e].kind = "rejected" => admission[EventOf[e]].status = "released"

StoryInv ==
  /\ admission \in [Invocations -> [status : {"absent", "held", "captured", "released", "unknown"},
                                    amount : Prices \cup {0}]]
  /\ receipt \in [{"capture", "release"} -> [Invocations -> Payloads \cup {None}]]
  /\ event \in [Events -> [status : {"absent", "received", "processed"}, kind : Kinds \cup {"none"},
                           payload : Payloads \cup {None}]]
  /\ \A i \in Invocations : AdmissionOK(i)
  /\ \A e \in Events : EventOK(e)

Inv == CreditInv /\ RestTyped /\ StoryInv

-------------------------------------------------------------------------------
(* Together the rows are what EntitlementsTypeOK says. *)
LEMMA TypeIs == CreditTyped /\ RestTyped <=> EntitlementsTypeOK
BY DEF CreditTyped, RestTyped, EntitlementsTypeOK, AccountRows, GrantRows, HoldRows,
       AllocationRows, UsageRows, Entries

(* The constants in a form that leaves use. *)
LEMMA Given ==
  /\ Grants \subseteq Nat /\ IsFiniteSet(Grants) /\ IsFiniteSet(Holds)
  /\ \A n \in Amounts : n \in Nat /\ n > 0
  /\ Ttl \in Nat /\ MaxTime \in Nat /\ Never \in Nat /\ MaxTime < Never
  /\ Never \in 0 .. Never /\ \A t \in 0 .. MaxTime : t \in 0 .. Never
  /\ None \notin Accounts /\ None \notin Holds /\ None \notin Periods
  /\ \A p \in Periods : p \notin Grants /\ Subscriber[p] \in Accounts
BY EntitlementsAssumption DEF Never

(* What a row of each table is made of. *)
LEMMA RowFields ==
  ASSUME CreditTyped
  PROVE  /\ \A a \in Accounts : account[a].available \in Nat /\ account[a].held \in Nat
         /\ \A g \in Grants : grant[g] \in GrantRows /\ grant[g].remaining \in Nat
         /\ \A h \in Holds : hold[h] \in HoldRows /\ hold[h].requested \in Nat
         /\ \A h \in Holds, g \in Grants :
              /\ allocation[h][g] \in AllocationRows
              /\ allocation[h][g].held \in Nat /\ allocation[h][g].captured \in Nat
              /\ allocation[h][g].released \in Nat
         /\ \A e \in journal : e.amount \in Int
BY DEF CreditTyped, AccountRows, GrantRows, HoldRows, AllocationRows, Entries

(* The sums are over finitely many naturals. *)
LEMMA SumsAreFinite ==
  ASSUME CreditInv
  PROVE  /\ IsFiniteSet(ActiveHolds) /\ ActiveHolds \subseteq Holds
         /\ \A a : IsFiniteSet(HoldsOf(a)) /\ HoldsOf(a) \subseteq ActiveHolds
         /\ \A a : IsFiniteSet(GrantsOf(a)) /\ GrantsOf(a) \subseteq Grants
         /\ \A h \in Holds : Requested[h] = hold[h].requested /\ Requested[h] \in Nat
         /\ \A g \in Grants : Remaining[g] = grant[g].remaining /\ Remaining[g] \in Nat
         /\ \A h \in ActiveHolds, g \in Grants :
              Open(h, g) = allocation[h][g].held /\ Open(h, g) \in Nat
         /\ \A g \in Grants : Reserved(g) \in Nat
<1>1. CreditTyped BY DEF CreditInv
<1>2. ActiveHolds \subseteq Holds /\ IsFiniteSet(ActiveHolds)
  BY Given, FS_Subset DEF ActiveHolds
<1>3. \A a : HoldsOf(a) \subseteq ActiveHolds /\ GrantsOf(a) \subseteq Grants
  BY DEF HoldsOf, GrantsOf
<1>4. \A a : IsFiniteSet(HoldsOf(a)) /\ IsFiniteSet(GrantsOf(a))
  BY <1>2, <1>3, Given, FS_Subset
<1>5. ASSUME NEW h \in ActiveHolds, NEW g \in Grants
      PROVE  Open(h, g) = allocation[h][g].held /\ Open(h, g) \in Nat
  <2>1. h \in Holds /\ allocation[h][g].captured = 0 /\ allocation[h][g].released = 0
    BY <1>2 DEF CreditInv, HoldOK, ActiveHolds
  <2>2. allocation[h][g].held \in Nat BY <1>1, <2>1, RowFields
  <2> QED BY <2>1, <2>2 DEF Open
<1>6. ASSUME NEW g \in Grants PROVE Reserved(g) \in Nat
  <2>1. \A h \in ActiveHolds : [k \in Holds |-> Open(k, g)][h] \in Int
    BY <1>2, <1>5
  <2> QED BY <1>2, <2>1, SumType DEF Reserved
<1>7. /\ \A h \in Holds : Requested[h] = hold[h].requested /\ Requested[h] \in Nat
      /\ \A g \in Grants : Remaining[g] = grant[g].remaining /\ Remaining[g] \in Nat
  BY <1>1, RowFields DEF Requested, Remaining
<1> QED BY <1>2, <1>3, <1>4, <1>5, <1>6, <1>7

(* An entry of the journal is credited to its account or debited from it. *)
LEMMA EntryAdded ==
  ASSUME CreditInv, NEW e \in Entries, e \notin journal, NEW a
  PROVE  journal' = journal \cup {e} =>
         /\ Credited(a) \in Nat /\ Debited(a) \in Nat
         /\ Credited(a)' = Credited(a) + IF e.account = a /\ e.amount > 0 THEN e.amount ELSE 0
         /\ Debited(a)' = Debited(a) + IF e.account = a /\ e.amount < 0 THEN -e.amount ELSE 0
<1> DEFINE ups(J) == {x \in J : x.account = a /\ x.amount > 0}
           downs(J) == {x \in J : x.account = a /\ x.amount < 0}
           plus(J) == [x \in J |-> x.amount]
           minus(J) == [x \in J |-> -x.amount]
           more == journal \cup {e}
           credited == Sum(ups(more), plus(more))
           debited == Sum(downs(more), minus(more))
<1>1. /\ \A x \in journal : x.amount \in Int
      /\ e.amount \in Int /\ IsFiniteSet(journal)
  BY RowFields DEF CreditInv, Entries
<1>2. /\ IsFiniteSet(ups(journal)) /\ ups(journal) \subseteq journal /\ e \notin ups(journal)
      /\ IsFiniteSet(downs(journal)) /\ downs(journal) \subseteq journal /\ e \notin downs(journal)
  BY <1>1, FS_Subset
<1>3. /\ \A x \in ups(journal) : plus(journal)[x] = x.amount /\ x.amount \in Nat
      /\ \A x \in downs(journal) : minus(journal)[x] = -x.amount /\ -x.amount \in Nat
      /\ \A x \in more : plus(more)[x] = x.amount /\ minus(more)[x] = -x.amount
  BY <1>1
<1>4. /\ \A x \in ups(journal) : plus(journal)[x] \in Nat /\ plus(journal)[x] \in Int
                               /\ plus(more)[x] = plus(journal)[x]
      /\ \A x \in downs(journal) : minus(journal)[x] \in Nat /\ minus(journal)[x] \in Int
                                 /\ minus(more)[x] = minus(journal)[x]
  BY <1>2, <1>3
<1>5. /\ Credited(a) = Sum(ups(journal), plus(journal))
      /\ Debited(a) = Sum(downs(journal), minus(journal))
      /\ journal' = more => /\ Credited(a)' = credited
                            /\ Debited(a)' = debited
  BY DEF Credited, Debited
<1> HIDE DEF plus, minus
<1>6. Credited(a) \in Nat /\ Debited(a) \in Nat
  BY <1>2, <1>4, <1>5, SumType
<1>7. ASSUME e.account = a /\ e.amount > 0
      PROVE  /\ credited = Credited(a) + IF e.account = a /\ e.amount > 0 THEN e.amount ELSE 0
             /\ debited = Debited(a) + IF e.account = a /\ e.amount < 0 THEN -e.amount ELSE 0
  <2>1. ups(more) = ups(journal) \cup {e} /\ downs(more) = downs(journal)
    BY <1>1, <1>7
  <2>2a. e.amount \in Nat BY <1>1, <1>7
  <2>2b. plus(more)[e] = e.amount BY <1>3
  <2>2. plus(more)[e] = e.amount /\ plus(more)[e] \in Nat BY <2>2a, <2>2b
  <2> HIDE DEF ups, downs
  <2>3a. Sum(ups(journal) \cup {e}, plus(more))
           = Sum(ups(journal), plus(journal)) + plus(more)[e]
    <3> DEFINE S == ups(journal)  f == plus(journal)  g == plus(more)
    <3>1. IsFiniteSet(S) /\ e \notin S BY <1>2
    <3>2. g[e] \in Nat BY <2>2
    <3>3. \A x \in S : f[x] \in Nat /\ g[x] = f[x] BY <1>4
    <3> HIDE DEF S, f, g
    <3>4. Sum(S \cup {e}, g) = Sum(S, f) + g[e] BY <3>1, <3>2, <3>3, SumInsert
    <3> QED BY <3>4 DEF S, f, g
  <2>3. credited = Credited(a) + e.amount
    BY <1>5, <2>1, <2>2, <2>3a
  <2>4. debited = Debited(a)
    <3>1. Sum(downs(journal), minus(more)) = Sum(downs(journal), minus(journal))
      BY <1>4, SumEqual
    <3> QED BY <1>5, <2>1, <3>1
  <2> QED BY <1>1, <1>6, <1>7, <2>3, <2>4
<1>8. ASSUME e.account = a /\ e.amount < 0
      PROVE  /\ credited = Credited(a) + IF e.account = a /\ e.amount > 0 THEN e.amount ELSE 0
             /\ debited = Debited(a) + IF e.account = a /\ e.amount < 0 THEN -e.amount ELSE 0
  <2>1. ups(more) = ups(journal) /\ downs(more) = downs(journal) \cup {e}
    BY <1>1, <1>8
  <2>2a. -e.amount \in Nat BY <1>1, <1>8
  <2>2b. minus(more)[e] = -e.amount BY <1>3
  <2>2. minus(more)[e] = -e.amount /\ minus(more)[e] \in Nat BY <2>2a, <2>2b
  <2> HIDE DEF ups, downs
  <2>3a. Sum(downs(journal) \cup {e}, minus(more))
           = Sum(downs(journal), minus(journal)) + minus(more)[e]
    <3> DEFINE S == downs(journal)  f == minus(journal)  g == minus(more)
    <3>1. IsFiniteSet(S) /\ e \notin S BY <1>2
    <3>2. g[e] \in Nat BY <2>2
    <3>3. \A x \in S : f[x] \in Nat /\ g[x] = f[x] BY <1>4
    <3> HIDE DEF S, f, g
    <3>4. Sum(S \cup {e}, g) = Sum(S, f) + g[e] BY <3>1, <3>2, <3>3, SumInsert
    <3> QED BY <3>4 DEF S, f, g
  <2>3. debited = Debited(a) + (-e.amount)
    BY <1>5, <2>1, <2>2, <2>3a
  <2>4. credited = Credited(a)
    <3>1. Sum(ups(journal), plus(more)) = Sum(ups(journal), plus(journal)) BY <1>4, SumEqual
    <3> QED BY <1>5, <2>1, <3>1
  <2> QED BY <1>1, <1>6, <1>8, <2>3, <2>4
<1>9. ASSUME e.account # a \/ e.amount = 0
      PROVE  /\ credited = Credited(a) + IF e.account = a /\ e.amount > 0 THEN e.amount ELSE 0
             /\ debited = Debited(a) + IF e.account = a /\ e.amount < 0 THEN -e.amount ELSE 0
  <2>1. ups(more) = ups(journal) /\ downs(more) = downs(journal)
    BY <1>1, <1>9
  <2> HIDE DEF ups, downs
  <2>2. Sum(ups(journal), plus(more)) = Sum(ups(journal), plus(journal))
    BY <1>4, SumEqual
  <2>3. Sum(downs(journal), minus(more)) = Sum(downs(journal), minus(journal))
    BY <1>4, SumEqual
  <2>4. credited = Credited(a) /\ debited = Debited(a)
    BY <1>5, <2>1, <2>2, <2>3
  <2> QED BY <1>6, <1>9, <2>4
<1>10. /\ credited = Credited(a) + IF e.account = a /\ e.amount > 0 THEN e.amount ELSE 0
       /\ debited = Debited(a) + IF e.account = a /\ e.amount < 0 THEN -e.amount ELSE 0
  BY <1>1, <1>7, <1>8, <1>9
<1> QED BY <1>5, <1>6, <1>10

(* What an account was credited and debited are natural numbers. *)
LEMMA SumsAreTyped ==
  ASSUME CreditInv, NEW a
  PROVE  Credited(a) \in Nat /\ Debited(a) \in Nat
<1> DEFINE ups == {x \in journal : x.account = a /\ x.amount > 0}
           downs == {x \in journal : x.account = a /\ x.amount < 0}
           plus == [x \in journal |-> x.amount]
           minus == [x \in journal |-> -x.amount]
<1>1. IsFiniteSet(ups) /\ IsFiniteSet(downs) BY FS_Subset DEF CreditInv
<1>2. \A x \in journal : x.amount \in Int BY RowFields DEF CreditInv
<1>3. (\A x \in ups : plus[x] \in Int) /\ \A x \in downs : minus[x] \in Int
  BY <1>2
<1> HIDE DEF ups, downs, plus, minus
<1>4. Sum(ups, plus) \in Nat /\ Sum(downs, minus) \in Nat
  BY <1>1, <1>3, SumType
<1> QED BY <1>4 DEF ups, downs, plus, minus, Credited, Debited

(* What only depends on holds and allocations stays when they do. *)
LEMMA HoldsKept ==
  ASSUME UNCHANGED <<hold, allocation>>
  PROVE  /\ \A g : Reserved(g)' = Reserved(g)
         /\ \A a : HoldsOf(a)' = HoldsOf(a)
         /\ Requested' = Requested
         /\ \A h : Rows(h)' = Rows(h)
BY DEF Reserved, ActiveHolds, Open, HoldsOf, Requested, Rows

(* The credit that an account's grants have without its balance is a sum of naturals. *)
LEMMA UnbookedTyped ==
  ASSUME CreditInv, NEW a
  PROVE  /\ IsFiniteSet(Uncredited(a)) /\ Uncredited(a) \subseteq GrantsOf(a)
         /\ \A g \in Grants : Original[g] = grant[g].original /\ Original[g] \in Nat
         /\ Unbooked(a) \in Nat
<1>1. Uncredited(a) \subseteq GrantsOf(a) BY DEF Uncredited
<1>2. IsFiniteSet(Uncredited(a)) BY <1>1, SumsAreFinite, FS_Subset
<1>3. ASSUME NEW g \in Grants PROVE Original[g] = grant[g].original /\ Original[g] \in Nat
  <2>1. grant[g].original \in Amounts \cup {0} BY RowFields DEF CreditInv, GrantRows
  <2>2. grant[g].original \in Nat BY <2>1, Given
  <2> QED BY <2>2 DEF Original
<1>4. \A g \in Uncredited(a) : Original[g] \in Int BY <1>1, <1>3 DEF GrantsOf
<1>5. Unbooked(a) \in Nat BY <1>2, <1>4, SumType DEF Unbooked
<1> QED BY <1>1, <1>2, <1>3, <1>5

(* What is said of the issue of grants stays when none is issued. *)
LEMMA IssueKept ==
  ASSUME CreditInv, journal \subseteq journal',
         \A g \in Grants : /\ grant'[g].account = grant[g].account
                           /\ grant'[g].original = grant[g].original
                           /\ grant'[g].period = grant[g].period
                           /\ grant'[g].status = "absent" <=> grant[g].status = "absent"
  PROVE  /\ \A g \in Grants : IssueOK(g)'
         /\ \A s : Issued(s) => Issued(s)'
         /\ \A a : Unbooked(a)' = Unbooked(a)
<1>1. ASSUME NEW g \in Grants PROVE IssueOK(g)'
  <2>1. IssueOK(g) BY DEF CreditInv
  <2>2. \A p : Journaled(p) => Journaled(p)' BY DEF Journaled
  <2> QED BY <2>1, <2>2 DEF IssueOK
<1>2. \A s : Issued(s) => Issued(s)' BY DEF Issued
<1>3. Original' = Original BY DEF Original
<1>4. \A a : Uncredited(a)' = Uncredited(a) BY DEF Uncredited, GrantsOf
<1> QED BY <1>1, <1>2, <1>3, <1>4 DEF Unbooked

(***************************************************************************)
(* What a grant writes: credit that is journaled and given to the account, *)
(* or, for a period that has its entry already, neither.                   *)
(***************************************************************************)
Source(g, row) == IF row.period = None THEN g ELSE row.period
Booked(row) == row.period = None \/ ~Journaled(row.period)
Gain(row) == IF Booked(row) THEN row.original ELSE 0
Shortfall(row) == IF Booked(row) THEN 0 ELSE row.original

Granting(a, g, row) ==
  /\ row \in GrantRows /\ row.account = a /\ row.status = "active" /\ row.reversed = 0
  /\ row.remaining = row.original /\ (row.period # None => row.original > 0)
  /\ IssueGrant(g, row)
  /\ IF Booked(row) THEN Book(a, row.original, Source(g, row)) ELSE UNCHANGED <<account, journal>>
  /\ UNCHANGED <<hold, allocation, usage>>

(* A new grant is one that the books know nothing of. *)
LEMMA GrantIsNew ==
  ASSUME CreditInv, NEW a \in Accounts, NEW g \in Grants, NEW row, Granting(a, g, row)
  PROVE  /\ grant[g] = NoGrant /\ row.original \in Nat
         /\ grant' \in [Grants -> GrantRows] /\ grant'[g] = row
         /\ \A k \in Grants \ {g} : grant'[k] = grant[k]
         /\ \A k \in Grants : k > g => grant[k] = NoGrant
         /\ \A b : g \notin GrantsOf(b) \/ b = None
<1>1. grant[g] = NoGrant BY DEF Granting, IssueGrant, CreditInv, GrantOK
<1>2. row.original \in Nat
  <2>1. row.original \in Amounts \cup {0} BY DEF Granting, GrantRows
  <2> QED BY <2>1, Given
<1>3. /\ grant' \in [Grants -> GrantRows] /\ grant'[g] = row
      /\ \A k \in Grants \ {g} : grant'[k] = grant[k]
  BY DEF Granting, IssueGrant, CreditInv, CreditTyped
<1>4. ASSUME NEW k \in Grants, k > g PROVE grant[k] = NoGrant
  <2>1. grant[k].status = "absent"
    BY <1>4 DEF CreditInv, IssueOK, Granting, IssueGrant
  <2> QED BY <2>1 DEF CreditInv, GrantOK
<1>5. \A b : g \notin GrantsOf(b) \/ b = None BY <1>1 DEF GrantsOf, NoGrant
<1> QED BY <1>1, <1>2, <1>3, <1>4, <1>5

(* The account gains what the journal says. *)
LEMMA GrantIsBooked ==
  ASSUME CreditInv, NEW a \in Accounts, NEW g \in Grants, NEW row, Granting(a, g, row)
  PROVE  /\ account' \in [Accounts -> AccountRows]
         /\ \A b \in Accounts :
              /\ account'[b].held = account[b].held
              /\ account'[b].available = account[b].available + IF a = b THEN Gain(row) ELSE 0
              /\ Credited(b)' = Credited(b) + IF a = b THEN Gain(row) ELSE 0
              /\ Debited(b)' = Debited(b)
         /\ journal \subseteq journal' /\ journal' \subseteq Entries /\ IsFiniteSet(journal')
         /\ \A e \in journal' \ journal : e.kind = "grant" /\ e.source = Source(g, row)
         /\ row.period # None => Journaled(row.period)'
<1>1. CreditTyped /\ row.original \in Nat BY GrantIsNew DEF CreditInv
<1>2. \A b \in Accounts : account[b] \in AccountRows /\ account[b].available \in Nat
                          /\ account[b].held \in Nat
  BY <1>1, RowFields DEF CreditTyped
<1>3. \A b \in Accounts : Credited(b) \in Nat /\ Debited(b) \in Nat BY SumsAreTyped
<1>4. CASE ~Booked(row)
  <2>1. UNCHANGED <<account, journal>> BY <1>4 DEF Granting
  <2>2. \A b : Credited(b)' = Credited(b) /\ Debited(b)' = Debited(b)
    BY <2>1 DEF Credited, Debited
  <2>3. Gain(row) = 0 BY <1>4 DEF Gain
  <2>4. row.period # None => Journaled(row.period)'
    BY <1>4, <2>1 DEF Booked, Journaled
  <2>5. \A b \in Accounts : /\ account[b].available = account[b].available + 0
                            /\ Credited(b) = Credited(b) + 0
    BY <1>2, <1>3
  <2> QED BY <1>1, <2>1, <2>2, <2>3, <2>4, <2>5 DEF CreditInv, CreditTyped
<1>5. CASE Booked(row)
  <2>1. PICK entry : entry = Entry(a, "grant", row.original, Source(g, row)) OBVIOUS
  <2>2. Source(g, row) \in Grants \cup Periods
    BY DEF Source, Granting, GrantRows
  <2>3. /\ entry \in Entries /\ entry.account = a /\ entry.amount = row.original
        /\ entry.kind = "grant" /\ entry.source = Source(g, row)
    BY <1>1, <2>1, <2>2 DEF Entries, Entry
  <2>4. /\ account' = [account EXCEPT ![a].available = @ + row.original]
        /\ journal' = journal \cup {entry}
    BY <1>5, <2>1 DEF Granting, Book
  <2>5. entry \notin journal
    <3>1. CASE row.period = None
      <4>1. Source(g, row) = g BY <3>1 DEF Source
      <4>2. ~Issued(g)
        <5>1. grant[g].status = "absent" BY GrantIsNew DEF NoGrant
        <5> QED BY <5>1, Given DEF Issued
      <4> QED BY <2>3, <4>1, <4>2 DEF CreditInv, EntryOK
    <3>2. CASE row.period # None
      <4>1. Source(g, row) = row.period /\ ~Journaled(row.period)
        BY <1>5, <3>2 DEF Source, Booked
      <4> QED BY <2>3, <4>1 DEF Journaled
    <3> QED BY <3>1, <3>2
  <2>6. /\ account' \in [Accounts -> AccountRows]
        /\ account'[a].available = account[a].available + row.original
        /\ account'[a].held = account[a].held
        /\ \A b \in Accounts \ {a} : account'[b] = account[b]
    <3>1. [account[a] EXCEPT !.available = @ + row.original] \in AccountRows
      BY <1>1, <1>2 DEF AccountRows
    <3> QED BY <1>1, <1>2, <2>4, <3>1 DEF CreditTyped, AccountRows
  <2>7. Gain(row) = row.original BY <1>5 DEF Gain
  <2>8. ASSUME NEW b \in Accounts
        PROVE  /\ account'[b].held = account[b].held
               /\ account'[b].available = account[b].available + IF a = b THEN Gain(row) ELSE 0
    <3>1. CASE a = b BY <2>6, <2>7, <3>1
    <3>2. CASE a # b
      <4>1. account'[b] = account[b] BY <2>6, <3>2
      <4>2. account[b].available = account[b].available + 0 BY <1>2
      <4> QED BY <3>2, <4>1, <4>2
    <3> QED BY <3>1, <3>2
  <2>9. ASSUME NEW b \in Accounts
        PROVE  /\ Credited(b)' = Credited(b) + IF a = b THEN Gain(row) ELSE 0
               /\ Debited(b)' = Debited(b)
    <3>1. /\ Credited(b)' = Credited(b)
               + IF entry.account = b /\ entry.amount > 0 THEN entry.amount ELSE 0
          /\ Debited(b)' = Debited(b)
               + IF entry.account = b /\ entry.amount < 0 THEN -entry.amount ELSE 0
      BY <2>3, <2>4, <2>5, EntryAdded
    <3>2. ~(row.original < 0) /\ (~(row.original > 0) => row.original = 0) BY <1>1
    <3> QED BY <1>1, <1>3, <2>3, <2>7, <3>1, <3>2
  <2>10. /\ journal \subseteq journal' /\ journal' \subseteq Entries /\ IsFiniteSet(journal')
         /\ \A e \in journal' \ journal : e.kind = "grant" /\ e.source = Source(g, row)
    BY <1>1, <2>3, <2>4, FS_AddElement DEF CreditInv, CreditTyped
  <2>11. row.period # None => Journaled(row.period)'
    BY <2>3, <2>4 DEF Journaled, Source
  <2> QED BY <2>6, <2>8, <2>9, <2>10, <2>11
<1> QED BY <1>4, <1>5

(***************************************************************************)
(* The new grant is the last one issued: it is without credit exactly when *)
(* its period had its entry, and no other grant's standing changes.        *)
(***************************************************************************)
LEMMA GrantIsLast ==
  ASSUME CreditInv, NEW a \in Accounts, NEW g \in Grants, NEW row, Granting(a, g, row)
  PROVE  /\ \A k \in Grants : IssueOK(k)'
         /\ \A b \in Accounts : Unbooked(b)' = Unbooked(b) + IF a = b THEN Shortfall(row) ELSE 0
<1>1. /\ grant[g] = NoGrant /\ row.original \in Nat /\ grant'[g] = row
      /\ \A k \in Grants \ {g} : grant'[k] = grant[k]
      /\ \A k \in Grants : k > g => grant[k] = NoGrant
  BY GrantIsNew
<1>2. /\ row.status = "active" /\ row.account = a
      /\ row.period # None => row.original > 0 /\ row.period \in Periods
  BY DEF Granting, GrantRows
<1>3. Grants \subseteq Nat BY Given
<1>4. ASSUME NEW k \in Grants PROVE IssueOK(k)'
  <2>1. CASE k = g
    <3>1. row.period # None => Journaled(row.period)' BY GrantIsBooked
    <3> QED BY <1>1, <1>2, <2>1, <3>1 DEF IssueOK
  <2>2. CASE k # g
    <3>1. IssueOK(k) /\ grant'[k] = grant[k] BY <1>1, <2>2 DEF CreditInv
    <3>2. \A p : Journaled(p) => Journaled(p)' BY GrantIsBooked DEF Journaled
    <3>3. grant[k].status = "absent" => k > g
      BY <1>3, <2>2 DEF Granting, IssueGrant
    <3>4. grant[k].status = "absent" => \A j \in Grants : j > k => grant'[j].status = "absent"
      BY <1>1, <1>3, <3>1, <3>3 DEF IssueOK
    <3> QED BY <3>1, <3>2, <3>4 DEF IssueOK
  <2> QED BY <2>1, <2>2
<1>5. ASSUME NEW k \in Grants, k # g, NEW b \in Accounts
      PROVE  k \in Uncredited(b)' <=> k \in Uncredited(b)
  <2>1. grant'[k] = grant[k] BY <1>1, <1>5
  <2>2. ASSUME grant[k].period # None
        PROVE  (\E j \in Grants : j < k /\ grant'[j].period = grant[k].period)
                 <=> (\E j \in Grants : j < k /\ grant[j].period = grant[k].period)
    <3>1. ~(g < k) BY <1>1, <1>3, <2>2 DEF NoGrant
    <3>2. \A j \in Grants : j < k => grant'[j] = grant[j] BY <1>1, <3>1
    <3> QED BY <3>2
  <2> QED BY <2>1, <2>2 DEF Uncredited, GrantsOf
<1>6. ASSUME NEW b \in Accounts
      PROVE  g \notin Uncredited(b) /\ (g \in Uncredited(b)' <=> a = b /\ ~Booked(row))
  <2>1. g \notin GrantsOf(b) BY GrantIsNew, Given
  <2>2. Booked(row) => ~\E j \in Grants : row.period # None /\ j < g /\ grant'[j].period = row.period
    <3>1. \A j \in Grants : j < g => grant'[j] = grant[j] BY <1>1, <1>3
    <3>2. \A j \in Grants : grant[j].period # None => Journaled(grant[j].period)
      BY DEF CreditInv, IssueOK
    <3> QED BY <3>1, <3>2 DEF Booked
  <2>3. ASSUME ~Booked(row)
        PROVE  row.period # None /\ \E j \in Grants : j < g /\ grant'[j].period = row.period
    <3>1. row.period # None /\ Journaled(row.period) BY <2>3 DEF Booked
    <3>2. Issued(row.period) BY <3>1 DEF Journaled, CreditInv, EntryOK
    <3>3. PICK j \in Grants : grant[j].period = row.period
      BY <1>2, <3>1, <3>2, Given DEF Issued
    <3>4. ~(j > g) /\ j # g BY <1>1, <3>1, <3>3 DEF NoGrant
    <3>5. j < g /\ grant'[j] = grant[j] BY <1>1, <1>3, <3>4
    <3> QED BY <3>1, <3>3, <3>5
  <2> QED BY <1>1, <1>2, <2>1, <2>2, <2>3 DEF Uncredited, GrantsOf
<1>7. ASSUME NEW b \in Accounts
      PROVE  Unbooked(b)' = Unbooked(b) + IF a = b THEN Shortfall(row) ELSE 0
  <2>1. /\ IsFiniteSet(Uncredited(b)) /\ Uncredited(b) \subseteq Grants
        /\ \A k \in Grants : Original[k] \in Nat
        /\ Unbooked(b) \in Nat
    BY UnbookedTyped DEF GrantsOf
  <2>2. /\ \A k \in Uncredited(b) : Original[k] \in Nat /\ Original'[k] = Original[k]
        /\ Original'[g] = row.original
    BY <1>1, <1>6, <2>1 DEF Original
  <2>3. Unbooked(b)' = Sum(Uncredited(b)', Original') BY DEF Unbooked
  <2>4. Uncredited(b)' \subseteq Grants BY DEF Uncredited, GrantsOf
  <2>5. CASE a = b /\ ~Booked(row)
    <3>1. Uncredited(b)' = Uncredited(b) \cup {g} BY <1>5, <1>6, <2>1, <2>4, <2>5
    <3>2. Sum(Uncredited(b) \cup {g}, Original') = Sum(Uncredited(b), Original) + Original'[g]
      <4> DEFINE S == Uncredited(b)  f == Original  n == Original'
      <4>1. IsFiniteSet(S) /\ g \notin S BY <1>6, <2>1
      <4>2. n[g] \in Nat BY <1>1, <2>2
      <4>3. \A k \in S : f[k] \in Nat /\ n[k] = f[k] BY <2>2
      <4> HIDE DEF S, f, n
      <4>4. Sum(S \cup {g}, n) = Sum(S, f) + n[g] BY <4>1, <4>2, <4>3, SumInsert
      <4> QED BY <4>4 DEF S, f, n
    <3> QED BY <2>2, <2>3, <2>5, <3>1, <3>2 DEF Unbooked, Shortfall
  <2>6. CASE ~(a = b /\ ~Booked(row))
    <3>1. Uncredited(b)' = Uncredited(b) BY <1>5, <1>6, <2>1, <2>4, <2>6
    <3>2. Sum(Uncredited(b), Original') = Sum(Uncredited(b), Original) BY <2>2, SumEqual
    <3>3. Unbooked(b)' = Unbooked(b) BY <2>3, <3>1, <3>2 DEF Unbooked
    <3>4. (IF a = b THEN Shortfall(row) ELSE 0) = 0 BY <2>6 DEF Shortfall
    <3> QED BY <2>1, <3>3, <3>4
  <2> QED BY <2>5, <2>6
<1> QED BY <1>4, <1>7

(* A grant of any kind keeps the books. *)
LEMMA GrantKeeps ==
  ASSUME CreditInv, NEW a \in Accounts, NEW g \in Grants, NEW row, Granting(a, g, row)
  PROVE  CreditInv'
<1>1. CreditTyped /\ row.original \in Nat BY GrantIsNew DEF CreditInv
<1>2. /\ row \in GrantRows /\ row.status = "active" /\ row.account = a
      /\ row.remaining = row.original /\ row.reversed = 0
  BY DEF Granting
<1>3. UNCHANGED <<hold, allocation, usage>> BY DEF Granting
<1>4. grant[g] = NoGrant BY GrantIsNew
<1>6. /\ grant' \in [Grants -> GrantRows] /\ grant'[g] = row
      /\ \A k \in Grants \ {g} : grant'[k] = grant[k]
  BY GrantIsNew
<1>7. /\ account' \in [Accounts -> AccountRows]
      /\ journal' \subseteq Entries /\ IsFiniteSet(journal')
      /\ \A e \in journal' \ journal : e.kind = "grant" /\ e.source = Source(g, row)
  BY GrantIsBooked
<1>8. CreditTyped' BY <1>1, <1>3, <1>6, <1>7 DEF CreditTyped
<1>10. ASSUME NEW e \in journal' PROVE EntryOK(e)'
  <2>1. CASE e \notin journal
    <3>1. row.period # None => row.period \in Periods BY <1>2 DEF GrantRows
    <3>2. Issued(Source(g, row))' BY <1>2, <1>6, <3>1 DEF Issued, Source
    <3> QED BY <1>7, <2>1, <3>2 DEF EntryOK
  <2>2. CASE e \in journal
    <3>1. EntryOK(e) BY <2>2 DEF CreditInv
    <3>2. \A k \in Grants : grant[k].status # "absent" => grant'[k] = grant[k]
      BY <1>4, <1>6 DEF NoGrant
    <3>3. \A k \in Grants : grant[k].period # None => grant'[k] = grant[k]
      BY <1>4, <1>6 DEF NoGrant
    <3>4. Issued(e.source) => Issued(e.source)'
      BY <3>2, <3>3, Given DEF Issued
    <3> QED BY <1>3, <3>1, <3>2, <3>4 DEF EntryOK
  <2> QED BY <2>1, <2>2
<1>11. ASSUME NEW k \in Grants PROVE GrantOK(k)'
  <2>1. Reserved(k)' = Reserved(k) /\ GrantOK(k) /\ Reserved(k) \in Nat
    BY <1>3, HoldsKept, SumsAreFinite DEF CreditInv
  <2>2. CASE k = g
    <3>1. Reserved(g) <= 0 BY <1>4, <2>1, <2>2 DEF GrantOK, NoGrant
    <3> QED BY <1>1, <1>2, <1>6, <2>1, <2>2, <3>1 DEF GrantOK
  <2>3. CASE k # g
    BY <1>6, <2>1, <2>3 DEF GrantOK
  <2> QED BY <2>2, <2>3
<1>12. ASSUME NEW h \in Holds PROVE HoldOK(h)'
  <2>1. HoldOK(h) /\ Rows(h)' = Rows(h) BY <1>3, HoldsKept DEF CreditInv
  <2>2. grant[g].account = None BY <1>4 DEF NoGrant
  <2>3. \A k \in Grants : grant[k].account \in Accounts => grant'[k] = grant[k]
    BY <1>6, <2>2, Given
  <2> QED BY <1>3, <2>1, <2>3 DEF HoldOK
<1>13. ASSUME NEW b \in Accounts PROVE AccountOK(b)'
  <2>1. /\ AccountOK(b) /\ HoldsOf(b)' = HoldsOf(b) /\ Requested' = Requested
    BY <1>3, HoldsKept DEF CreditInv
  <2>2. /\ Credited(b) \in Nat /\ Debited(b) \in Nat /\ Unbooked(b) \in Nat
        /\ Credited(b)' = Credited(b) + IF a = b THEN Gain(row) ELSE 0
        /\ Debited(b)' = Debited(b)
        /\ Unbooked(b)' = Unbooked(b) + IF a = b THEN Shortfall(row) ELSE 0
    BY GrantIsBooked, GrantIsLast, SumsAreTyped, UnbookedTyped
  <2>3. /\ account[b].available \in Nat /\ account[b].held \in Nat
        /\ account'[b].held = account[b].held
        /\ account'[b].available = account[b].available + IF a = b THEN Gain(row) ELSE 0
    BY <1>1, GrantIsBooked, RowFields
  <2>4. Sum(GrantsOf(b)', Remaining')
          = Sum(GrantsOf(b), Remaining) + IF a = b THEN row.original ELSE 0
    <3>0. /\ IsFiniteSet(GrantsOf(b)) /\ GrantsOf(b) \subseteq Grants
          /\ g \notin GrantsOf(b)
      BY SumsAreFinite, GrantIsNew, Given
    <3>1. \A k \in GrantsOf(b) : Remaining'[k] = Remaining[k] /\ Remaining[k] \in Nat
      BY <1>6, <3>0, SumsAreFinite DEF Remaining
    <3>2. Remaining'[g] = row.original /\ Remaining'[g] \in Nat
      BY <1>1, <1>2, <1>6 DEF Remaining
    <3>3. Sum(GrantsOf(b), Remaining) \in Nat
      <4>1. \A k \in GrantsOf(b) : Remaining[k] \in Int BY <3>1
      <4> QED BY <3>0, <4>1, SumType
    <3>4. CASE a = b
      <4>1. GrantsOf(b)' = GrantsOf(b) \cup {g}
        BY <1>2, <1>6, <3>4 DEF GrantsOf
      <4>2. Sum(GrantsOf(b) \cup {g}, Remaining') = Sum(GrantsOf(b), Remaining) + Remaining'[g]
        <5>1. IsFiniteSet(GrantsOf(b)) /\ g \notin GrantsOf(b) BY <3>0
        <5>2. Remaining'[g] \in Nat BY <3>2
        <5>3. \A k \in GrantsOf(b) : Remaining[k] \in Nat /\ Remaining'[k] = Remaining[k]
          BY <3>1
        <5> QED BY <5>1, <5>2, <5>3, SumInsert
      <4> QED BY <3>2, <3>4, <4>1, <4>2
    <3>5. CASE a # b
      <4>1. GrantsOf(b)' = GrantsOf(b)
        BY <1>2, <1>6, <3>0, <3>5 DEF GrantsOf
      <4>2. Sum(GrantsOf(b), Remaining') = Sum(GrantsOf(b), Remaining)
        BY <3>1, SumEqual
      <4> QED BY <3>3, <3>5, <4>1, <4>2
    <3> QED BY <3>4, <3>5
  <2>5. /\ account[b].held = Sum(HoldsOf(b), Requested)
        /\ account[b].available + account[b].held + Unbooked(b) = Sum(GrantsOf(b), Remaining)
        /\ account[b].available + account[b].held + Debited(b) = Credited(b)
    BY <2>1 DEF AccountOK
  <2>6. Gain(row) \in Nat /\ Shortfall(row) \in Nat /\ Gain(row) + Shortfall(row) = row.original
    BY <1>1 DEF Gain, Shortfall
  <2>7. CASE a = b BY <2>1, <2>2, <2>3, <2>4, <2>5, <2>6, <2>7 DEF AccountOK
  <2>8. CASE a # b BY <2>1, <2>2, <2>3, <2>4, <2>5, <2>8 DEF AccountOK
  <2> QED BY <2>7, <2>8
<1>14. \A k \in Grants : IssueOK(k)' BY GrantIsLast
<1> QED BY <1>7, <1>8, <1>10, <1>11, <1>12, <1>13, <1>14 DEF CreditInv

(* Credit that is granted once, for a source of its own. *)
LEMMA CreditKeeps ==
  ASSUME CreditInv, NEW a \in Accounts, NEW g \in Grants, NEW paid \in BOOLEAN,
         NEW amount \in Amounts \cup {0}, Credit(a, g, paid, amount)
  PROVE  CreditInv'
<1>1. PICK row : row = [NewGrant(a, amount, Never) EXCEPT !.paid = paid] OBVIOUS
<1>2. amount \in Nat /\ Never \in 0 .. Never BY Given
<1>3. /\ row \in GrantRows /\ row.account = a /\ row.status = "active" /\ row.reversed = 0
      /\ row.remaining = amount /\ row.original = amount /\ row.period = None
  BY <1>1, <1>2 DEF NewGrant, NoGrant, GrantRows
<1>4. Booked(row) /\ Source(g, row) = g BY <1>3 DEF Booked, Source
<1>5. Granting(a, g, row) BY <1>1, <1>3, <1>4 DEF Granting, Credit
<1> QED BY <1>5, GrantKeeps

(* Credit that is granted for a period, or is not when the period had it. *)
LEMMA SubscriptionGrantKeeps ==
  ASSUME CreditInv, NEW p \in Periods, NEW g \in Grants, NEW amount \in Amounts,
         NEW expires \in 0 .. MaxTime, SubscriptionGrant(p, g, amount, expires)
  PROVE  CreditInv'
<1>1. PICK a \in Accounts : a = Subscriber[p] BY Given
<1>2. PICK row : row = [NewGrant(a, amount, expires) EXCEPT !.period = p] OBVIOUS
<1>3. amount \in Nat /\ amount > 0 /\ expires \in 0 .. Never /\ p # None BY Given
<1>4. /\ row \in GrantRows /\ row.account = a /\ row.status = "active" /\ row.reversed = 0
      /\ row.remaining = amount /\ row.original = amount /\ row.period = p
  BY <1>2, <1>3 DEF NewGrant, NoGrant, GrantRows
<1>5. (Booked(row) <=> ~Journaled(p)) /\ Source(g, row) = p BY <1>3, <1>4 DEF Booked, Source
<1>6. Granting(a, g, row)
  BY <1>1, <1>2, <1>3, <1>4, <1>5 DEF Granting, SubscriptionGrant
<1> QED BY <1>6, GrantKeeps

(***************************************************************************)
(* What an expiry and a refund have in common: a grant and its account     *)
(* lose the same amount, and the journal has a new entry that says so.     *)
(***************************************************************************)
LEMMA WithdrawalKeeps ==
  ASSUME CreditInv, NEW g \in Grants, NEW n \in Nat, n > 0, NEW row \in GrantRows,
         NEW entry \in Entries,
         grant[g].account \in Accounts, grant[g].remaining >= n,
         account[grant[g].account].available >= n,
         row.account = grant[g].account, row.remaining = grant[g].remaining - n,
         row.status # "absent", row.status = "expired" => row.remaining = 0,
         row.reversed = 0 => Reserved(g) <= row.remaining,
         row.original = grant[g].original, row.period = grant[g].period,
         entry.account = grant[g].account, entry.amount = -n, entry \notin journal,
         grant' = [grant EXCEPT ![g] = row],
         account' = [account EXCEPT ![grant[g].account].available = @ - n],
         journal' = journal \cup {entry}, EntryOK(entry)',
         UNCHANGED <<hold, allocation, usage>>
  PROVE  CreditInv'
<1> DEFINE a == grant[g].account
<1>1. CreditTyped BY DEF CreditInv
<1>6. /\ grant' \in [Grants -> GrantRows] /\ grant'[g] = row
      /\ \A k \in Grants \ {g} : grant'[k] = grant[k]
  BY <1>1 DEF CreditTyped
<1>7. /\ account' \in [Accounts -> AccountRows]
      /\ account'[a].available = account[a].available - n
      /\ account'[a].held = account[a].held
      /\ \A b \in Accounts \ {a} : account'[b] = account[b]
  <2>1. account[a] \in AccountRows BY <1>1 DEF CreditTyped
  <2>2. account[a].available - n \in Nat BY <2>1 DEF AccountRows
  <2>3. [account[a] EXCEPT !.available = @ - n] \in AccountRows
    BY <2>1, <2>2 DEF AccountRows
  <2> QED BY <1>1, <2>1, <2>3 DEF CreditTyped, AccountRows
<1> HIDE DEF a
<1>8. CreditTyped'
  BY <1>1, <1>6, <1>7 DEF CreditTyped
<1>9. IsFiniteSet(journal')
  BY FS_AddElement DEF CreditInv
<1>9a. grant[g].status # "absent" /\ grant[g].status # "expired"
  BY Given DEF CreditInv, GrantOK, NoGrant
<1>9b. /\ \A k \in Grants : IssueOK(k)'
       /\ \A s : Issued(s) => Issued(s)'
       /\ \A b : Unbooked(b)' = Unbooked(b)
  <2>1. \A k \in Grants : /\ grant'[k].account = grant[k].account
                          /\ grant'[k].original = grant[k].original
                          /\ grant'[k].period = grant[k].period
                          /\ grant'[k].status = "absent" <=> grant[k].status = "absent"
    BY <1>6, <1>9a
  <2> QED BY <2>1, IssueKept
<1>10. ASSUME NEW e \in journal' PROVE EntryOK(e)'
  <2>1. CASE e \in journal
    <3>1. EntryOK(e) BY <2>1 DEF CreditInv
    <3>2. \A k \in Grants : grant[k].status = "expired" => grant'[k].status = "expired"
      BY <1>6, <1>9a
    <3> QED BY <1>9b, <3>1, <3>2 DEF EntryOK
  <2> QED BY <2>1
<1>11. ASSUME NEW k \in Grants PROVE GrantOK(k)'
  <2>1. Reserved(k)' = Reserved(k) /\ GrantOK(k)
    BY HoldsKept DEF CreditInv
  <2>2. CASE k = g
    BY <1>6, <2>1, <2>2 DEF GrantOK
  <2>3. CASE k # g
    BY <1>6, <2>1, <2>3 DEF GrantOK
  <2> QED BY <2>2, <2>3
<1>12. ASSUME NEW h \in Holds PROVE HoldOK(h)'
  <2>1. HoldOK(h) /\ Rows(h)' = Rows(h) BY HoldsKept DEF CreditInv
  <2>2. \A k \in Grants : grant'[k].account = grant[k].account
    BY <1>6
  <2> QED BY <2>1, <2>2 DEF HoldOK
<1>13. ASSUME NEW b \in Accounts PROVE AccountOK(b)'
  <2>1. /\ AccountOK(b) /\ HoldsOf(b)' = HoldsOf(b) /\ Requested' = Requested
    BY HoldsKept DEF CreditInv
  <2>2. /\ Credited(b) \in Nat /\ Debited(b) \in Nat
        /\ Credited(b)' = Credited(b)
        /\ Debited(b)' = Debited(b) + IF a = b THEN n ELSE 0
    <3>1. ~(entry.amount > 0) /\ entry.amount < 0 /\ -entry.amount = n OBVIOUS
    <3>2. Credited(b) \in Nat /\ Debited(b) \in Nat
          /\ Credited(b)' = Credited(b) + 0
          /\ Debited(b)' = Debited(b) + IF a = b THEN n ELSE 0
      BY <3>1, EntryAdded DEF a
    <3> QED BY <3>2
  <2>3. /\ account[b].available \in Nat /\ account[b].held \in Nat
        /\ account'[b].held = account[b].held
        /\ account'[b].available = account[b].available - IF a = b THEN n ELSE 0
    <3>1. account[b].available \in Nat /\ account[b].held \in Nat BY <1>1, RowFields
    <3>2. CASE a = b BY <1>7, <3>1, <3>2
    <3>3. CASE a # b
      <4>1. account'[b] = account[b] BY <1>7, <3>3
      <4>2. account[b].available = account[b].available - 0 BY <3>1
      <4> QED BY <3>1, <3>3, <4>1, <4>2
    <3> QED BY <3>2, <3>3
  <2>4. Sum(GrantsOf(b)', Remaining') = Sum(GrantsOf(b), Remaining) - IF a = b THEN n ELSE 0
    <3>1. IsFiniteSet(GrantsOf(b)) /\ GrantsOf(b) \subseteq Grants BY SumsAreFinite
    <3>2. GrantsOf(b)' = GrantsOf(b)
      <4>1. \A k \in Grants : grant'[k].account = grant[k].account BY <1>6
      <4> QED BY <4>1 DEF GrantsOf
    <3>3. \A k \in GrantsOf(b) : Remaining[k] \in Nat /\ Remaining[k] \in Int
      BY <3>1, SumsAreFinite
    <3>3a. Sum(GrantsOf(b), Remaining) \in Nat BY <3>1, <3>3, SumType
    <3>4. CASE a = b
      <4>1. g \in GrantsOf(b) BY <3>4 DEF a, GrantsOf
      <4>2. /\ Remaining[g] = grant[g].remaining /\ Remaining'[g] = grant[g].remaining - n
            /\ Remaining[g] \in Nat /\ grant[g].remaining \in Nat
        BY <1>1, <1>6, RowFields DEF Remaining
      <4>2a. Remaining'[g] \in Nat BY <4>2
      <4>3. \A k \in GrantsOf(b) \ {g} : Remaining'[k] = Remaining[k]
        BY <1>6, <3>1 DEF Remaining
      <4>4. \A k \in GrantsOf(b) : Remaining[k] \in Nat /\ Remaining'[k] \in Nat
        BY <3>3, <4>2a, <4>3
      <4>5. Sum(GrantsOf(b), Remaining') + Remaining[g] = Sum(GrantsOf(b), Remaining) + Remaining'[g]
        BY <3>1, <4>1, <4>3, <4>4, SumChange
      <4>6. \A k \in GrantsOf(b) : Remaining'[k] \in Int BY <4>4
      <4>7. Sum(GrantsOf(b), Remaining') \in Nat BY <3>1, <4>6, SumType
      <4> QED BY <3>2, <3>3a, <3>4, <4>2, <4>5, <4>7
    <3>5. CASE a # b
      <4>1. \A k \in GrantsOf(b) : Remaining'[k] = Remaining[k]
        BY <1>6, <3>1, <3>5 DEF Remaining, GrantsOf, a
      <4>2. Sum(GrantsOf(b), Remaining') = Sum(GrantsOf(b), Remaining)
        BY <4>1, SumEqual
      <4> QED BY <3>2, <3>3a, <3>5, <4>2
    <3> QED BY <3>4, <3>5
  <2>5. /\ account[b].held = Sum(HoldsOf(b), Requested)
        /\ account[b].available + account[b].held + Unbooked(b) = Sum(GrantsOf(b), Remaining)
        /\ account[b].available + account[b].held + Debited(b) = Credited(b)
        /\ Unbooked(b)' = Unbooked(b) /\ Unbooked(b) \in Nat
    BY <1>9b, <2>1, UnbookedTyped DEF AccountOK
  <2>6. CASE a = b BY <2>1, <2>2, <2>3, <2>4, <2>5, <2>6 DEF AccountOK
  <2>7. CASE a # b BY <2>1, <2>2, <2>3, <2>4, <2>5, <2>7 DEF AccountOK
  <2> QED BY <2>6, <2>7
<1> QED BY <1>8, <1>9, <1>9b, <1>10, <1>11, <1>12, <1>13 DEF CreditInv

(* An expiry takes what is left of a grant that no active hold reserves from. *)
LEMMA ExpireGrantKeeps ==
  ASSUME CreditInv, NEW g \in Grants, ExpireGrant(g)
  PROVE  CreditInv'
<1> DEFINE n == grant[g].remaining
           row == [grant[g] EXCEPT !.remaining = 0, !.status = "expired"]
           entry == Entry(grant[g].account, "expiry", -n, g)
<1>1. /\ grant[g] \in GrantRows /\ n \in Nat /\ n > 0 /\ grant[g].status = "active"
      /\ \A h \in ActiveHolds : Open(h, g) <= 0
      /\ account[grant[g].account].available >= n
  BY RowFields DEF CreditInv, ExpireGrant, Expirable, Affordable
<1>2. grant[g].account \in Accounts BY <1>1 DEF CreditInv, GrantOK
<1>3. /\ row \in GrantRows /\ row.account = grant[g].account /\ row.remaining = 0
      /\ row.status = "expired"
      /\ row.original = grant[g].original /\ row.period = grant[g].period
  BY <1>1 DEF GrantRows
<1>4. /\ entry \in Entries /\ entry.account = grant[g].account /\ entry.amount = -n
      /\ entry.kind = "expiry" /\ entry.source = g
  BY <1>1, <1>2 DEF Entries, Entry
<1>5. entry \notin journal
  BY <1>1, <1>4 DEF CreditInv, EntryOK
<1>6. /\ grant' = [grant EXCEPT ![g] = row]
      /\ account' = [account EXCEPT ![grant[g].account].available = @ - n]
      /\ journal' = journal \cup {entry}
      /\ UNCHANGED <<hold, allocation, usage>>
  BY DEF ExpireGrant
<1>7. Reserved(g) = 0
  <2>1. \A h \in ActiveHolds : [k \in Holds |-> Open(k, g)][h] = 0
    BY <1>1, SumsAreFinite
  <2> QED BY <2>1, SumZero DEF Reserved
<1>8. grant'[g] = row BY <1>6 DEF CreditInv, CreditTyped
<1>9. row.remaining = grant[g].remaining - n /\ grant[g].remaining >= n BY <1>1, <1>3
<1>10. Reserved(g) <= row.remaining BY <1>3, <1>7
<1>11. PICK amount \in Nat, new \in GrantRows, e \in Entries :
         amount = n /\ new = row /\ e = entry
  BY <1>1, <1>3, <1>4
<1> HIDE DEF row, entry, n
<1>12. EntryOK(e)'
  BY <1>3, <1>4, <1>8, <1>11 DEF EntryOK
<1>13. /\ account' = [account EXCEPT ![grant[g].account].available = @ - amount]
       /\ grant' = [grant EXCEPT ![g] = new] /\ journal' = journal \cup {e}
  BY <1>6, <1>11
<1> QED BY <1>1, <1>2, <1>3, <1>4, <1>5, <1>6, <1>9, <1>10, <1>11, <1>12, <1>13,
           WithdrawalKeeps

(* A refund takes credit back from a grant, once. *)
LEMMA ReverseCreditsKeeps ==
  ASSUME CreditInv, NEW r \in Refunds, NEW g \in Grants, NEW n \in Amounts,
         ReverseCredits(r, g, n)
  PROVE  CreditInv'
<1> DEFINE left == grant[g].remaining - n
           row == [grant[g] EXCEPT !.remaining = left, !.reversed = @ + n,
                                   !.status = IF left = 0 THEN "exhausted" ELSE "active"]
           entry == Entry(grant[g].account, "reversal", -n, r)
<1>1. /\ grant[g] \in GrantRows /\ grant[g].remaining \in Nat /\ n \in Nat /\ n > 0
      /\ grant[g].paid
      /\ left >= 0 /\ account[grant[g].account].available >= n
  BY RowFields, Given DEF CreditInv, ReverseCredits, Affordable
<1>2. grant[g].account \in Accounts
  <2>1. grant[g].status # "absent" BY <1>1 DEF CreditInv, GrantOK, NoGrant
  <2> QED BY <2>1 DEF CreditInv, GrantOK
<1>3. left \in Nat /\ grant[g].reversed \in Nat BY <1>1 DEF GrantRows
<1>4. /\ row \in GrantRows /\ row.account = grant[g].account /\ row.remaining = left
      /\ row.status \in {"exhausted", "active"} /\ row.reversed = grant[g].reversed + n
      /\ row.original = grant[g].original /\ row.period = grant[g].period
  <2>1. (IF left = 0 THEN "exhausted" ELSE "active") \in {"exhausted", "active"} OBVIOUS
  <2>2. grant[g].reversed + n \in Nat BY <1>1, <1>3
  <2> HIDE DEF left
  <2> QED BY <1>1, <1>3, <2>1, <2>2 DEF GrantRows
<1>5. /\ entry \in Entries /\ entry.account = grant[g].account /\ entry.amount = -n
      /\ entry.kind = "reversal" /\ entry.source = r
  BY <1>1, <1>2 DEF Entries, Entry
<1>6. entry \notin journal
  BY <1>5 DEF ReverseCredits
<1>7. /\ grant' = [grant EXCEPT ![g] = row]
      /\ account' = [account EXCEPT ![grant[g].account].available = @ - n]
      /\ journal' = journal \cup {entry}
      /\ UNCHANGED <<hold, allocation, usage>>
  BY <1>1, <1>3 DEF ReverseCredits, GrantRows
<1>9. row.reversed # 0 BY <1>1, <1>3, <1>4
<1>10. row.remaining = grant[g].remaining - n /\ grant[g].remaining >= n BY <1>1, <1>4
<1>11. PICK new \in GrantRows, e \in Entries : new = row /\ e = entry
  BY <1>4, <1>5
<1> HIDE DEF row, entry, left
<1>12. EntryOK(e)' BY <1>5, <1>11 DEF EntryOK
<1>13. grant' = [grant EXCEPT ![g] = new] /\ journal' = journal \cup {e}
  BY <1>7, <1>11
<1>14. new.status \in {"exhausted", "active"} BY <1>4, <1>11
<1>15. new.status # "absent" /\ new.status # "expired" /\ new.reversed # 0
  BY <1>9, <1>11, <1>14
<1>16. /\ e.account = grant[g].account /\ e.amount = -n /\ e \notin journal
       /\ new.account = grant[g].account /\ new.remaining = grant[g].remaining - n
       /\ new.original = grant[g].original /\ new.period = grant[g].period
  BY <1>4, <1>5, <1>6, <1>10, <1>11
<1> QED BY <1>1, <1>2, <1>7, <1>10, <1>12, <1>13, <1>15, <1>16, WithdrawalKeeps

(* What only depends on grants and the journal stays when they do. *)
LEMMA GrantsKept ==
  ASSUME UNCHANGED <<grant, journal>>
  PROVE  /\ \A a : GrantsOf(a)' = GrantsOf(a) /\ Credited(a)' = Credited(a)
                 /\ Debited(a)' = Debited(a) /\ Unbooked(a)' = Unbooked(a)
         /\ Remaining' = Remaining
         /\ \A g : IssueOK(g) => IssueOK(g)'
         /\ \A s : Issued(s) => Issued(s)'
<1>1. \A a : GrantsOf(a)' = GrantsOf(a) /\ Credited(a)' = Credited(a) /\ Debited(a)' = Debited(a)
  BY DEF GrantsOf, Credited, Debited
<1>2. Remaining' = Remaining /\ Original' = Original BY DEF Remaining, Original
<1>3. \A a : Uncredited(a)' = Uncredited(a) BY <1>1 DEF Uncredited
<1>4. \A a : Unbooked(a)' = Unbooked(a) BY <1>2, <1>3 DEF Unbooked
<1>5. \A g : IssueOK(g) => IssueOK(g)' BY DEF IssueOK, Journaled
<1>6. \A s : Issued(s) => Issued(s)' BY DEF Issued
<1> QED BY <1>1, <1>2, <1>4, <1>5, <1>6

(***************************************************************************)
(* What authorizeUsage takes of each grant: all that was requested, of     *)
(* grants of the account, and never more than other holds have left.       *)
(***************************************************************************)
LEMMA SharesOfGrants ==
  ASSUME CreditInv, NEW a \in Accounts, NEW requested \in Nat, NEW share,
         share = Greedy(Eligible(a), BurnsBefore, Free, requested),
         Sum(Eligible(a), share) = requested
  PROVE  /\ Sum(Grants, share) = requested
         /\ \A g \in Grants :
              /\ share[g] \in Nat
              /\ share[g] > 0 => grant[g].account = a
              /\ share[g] = 0 \/ Reserved(g) + share[g] <= grant[g].remaining
<1>1. IsFiniteSet(Grants) /\ Eligible(a) \subseteq Grants BY Given DEF Eligible, GrantsOf
<1>2. IsFiniteSet(Eligible(a)) BY <1>1, FS_Subset
<1>3. \A g \in Grants : Reserved(g) \in Nat /\ grant[g].remaining \in Nat
  BY SumsAreFinite, RowFields DEF CreditInv
<1>4. \A g \in Grants :
        /\ Free[g] \in Nat
        /\ Free[g] = 0 \/ Reserved(g) + Free[g] = grant[g].remaining
  BY <1>3 DEF Free
<1>5. DOMAIN Free = Grants BY DEF Free
<1>6. \A g \in Eligible(a) : Free[g] \in Nat BY <1>1, <1>4
<1>7. ASSUME NEW g \in Grants
      PROVE  /\ share[g] \in Nat
             /\ g \in Eligible(a) => share[g] <= Free[g]
             /\ g \notin Eligible(a) => share[g] = 0
  BY <1>1, <1>2, <1>5, <1>6, GreedyBounds
<1>8. Sum(Grants, share) = Sum(Eligible(a), share)
  <2>1. \A g \in Grants : share[g] \in Nat BY <1>7
  <2>2. \A g \in Grants \ Eligible(a) : share[g] = 0 BY <1>7
  <2> QED BY <1>1, <2>1, <2>2, SumWithoutZeros
<1>9. ASSUME NEW g \in Grants
      PROVE  /\ share[g] > 0 => grant[g].account = a
             /\ share[g] = 0 \/ Reserved(g) + share[g] <= grant[g].remaining
  <2>1. CASE g \in Eligible(a)
    <3>1. grant[g].account = a BY <2>1 DEF Eligible, GrantsOf
    <3>2. share[g] <= Free[g] /\ share[g] \in Nat /\ Free[g] \in Nat BY <1>4, <1>7, <2>1
    <3> QED BY <1>3, <1>4, <3>1, <3>2
  <2>2. CASE g \notin Eligible(a) BY <1>7, <2>2
  <2> QED BY <2>1, <2>2
<1> QED BY <1>7, <1>8, <1>9

(* A new hold reserves what is free, and its account says so. *)
LEMMA AuthorizeUsageKeeps ==
  ASSUME CreditInv, NEW h \in Holds, NEW a \in Accounts, NEW requested \in Nat,
         now \in Nat, AuthorizeUsage(h, a, requested)
  PROVE  CreditInv'
<1>1. PICK share : share = Greedy(Eligible(a), BurnsBefore, Free, requested) OBVIOUS
<1> DEFINE new == [NoHold EXCEPT !.status = "active", !.account = a, !.requested = requested,
                     !.expires = now + Ttl]
           rows == [g \in Grants |-> [NoRows[g] EXCEPT !.held = share[g]]]
<1>2. /\ hold[h].status = "absent" /\ now + Ttl <= MaxTime
      /\ Sum(Eligible(a), share) = requested
      /\ account[a].available >= requested
      /\ hold' = [hold EXCEPT ![h] = new]
      /\ allocation' = [allocation EXCEPT ![h] = rows]
      /\ account' = [account EXCEPT ![a].available = @ - requested, ![a].held = @ + requested]
      /\ UNCHANGED <<grant, usage, journal>>
  BY <1>1 DEF AuthorizeUsage, Affordable
<1>3. CreditTyped BY DEF CreditInv
<1>4. /\ Sum(Grants, share) = requested
      /\ \A g \in Grants :
           /\ share[g] \in Nat
           /\ share[g] > 0 => grant[g].account = a
           /\ share[g] = 0 \/ Reserved(g) + share[g] <= grant[g].remaining
  BY <1>1, <1>2, SharesOfGrants
<1>5. /\ new \in HoldRows /\ new.status = "active" /\ new.account = a
      /\ new.requested = requested
  <2>1. now + Ttl \in 0 .. MaxTime BY <1>2, Given
  <2> QED BY <2>1 DEF HoldRows, NoHold
<1>6. /\ rows \in [Grants -> AllocationRows]
      /\ \A g \in Grants : rows[g].held = share[g] /\ rows[g].captured = 0 /\ rows[g].released = 0
  BY <1>4 DEF AllocationRows, NoRows
<1> HIDE DEF new, rows
<1>7. /\ hold' \in [Holds -> HoldRows] /\ hold'[h] = new
      /\ \A k \in Holds \ {h} : hold'[k] = hold[k]
  BY <1>2, <1>3, <1>5 DEF CreditTyped
<1>8. /\ allocation' \in [Holds -> [Grants -> AllocationRows]] /\ allocation'[h] = rows
      /\ \A k \in Holds \ {h} : allocation'[k] = allocation[k]
  BY <1>2, <1>3, <1>6 DEF CreditTyped
<1>9. /\ account' \in [Accounts -> AccountRows]
      /\ account'[a].available = account[a].available - requested
      /\ account'[a].held = account[a].held + requested
      /\ \A b \in Accounts \ {a} : account'[b] = account[b]
  <2>1. account \in [Accounts -> AccountRows] /\ account[a] \in AccountRows
    BY <1>3 DEF CreditTyped
  <2>2. /\ account[a].available - requested \in Nat /\ account[a].held + requested \in Nat
    BY <1>2, <2>1 DEF AccountRows
  <2>3. [account[a] EXCEPT !.available = @ - requested, !.held = @ + requested] \in AccountRows
    BY <2>1, <2>2 DEF AccountRows
  <2>4. account' = [account EXCEPT ![a] =
                      [account[a] EXCEPT !.available = @ - requested, !.held = @ + requested]]
    BY <1>2, <2>1
  <2> QED BY <2>1, <2>3, <2>4 DEF AccountRows
<1>10. CreditTyped'
  BY <1>2, <1>3, <1>7, <1>8, <1>9 DEF CreditTyped
<1>11. ASSUME NEW e \in journal' PROVE EntryOK(e)'
  <2>1. EntryOK(e) BY <1>2 DEF CreditInv
  <2>2. \A k \in Holds : hold[k].status = "captured" => hold'[k] = hold[k]
    BY <1>2, <1>7
  <2>3. Issued(e.source) => Issued(e.source)' BY <1>2, GrantsKept
  <2> QED BY <1>2, <2>1, <2>2, <2>3 DEF EntryOK
<1>12. ActiveHolds' = ActiveHolds \cup {h} /\ h \notin ActiveHolds /\ IsFiniteSet(ActiveHolds)
  BY <1>2, <1>5, <1>7, SumsAreFinite DEF ActiveHolds
<1>13. ASSUME NEW g \in Grants PROVE GrantOK(g)'
  <2> DEFINE open == [k \in Holds |-> Open(k, g)]
             opened == [k \in Holds |-> Open(k, g)']
  <2>1. Reserved(g) = Sum(ActiveHolds, open) /\ Reserved(g)' = Sum(ActiveHolds', opened)
    BY DEF Reserved
  <2>2. \A k \in ActiveHolds : k \in Holds /\ k # h BY <1>12, SumsAreFinite
  <2>3. \A k \in ActiveHolds : open[k] \in Nat /\ opened[k] = open[k]
    BY <1>8, <2>2, SumsAreFinite DEF Open
  <2>4. opened[h] = share[g] /\ opened[h] \in Nat
    BY <1>4, <1>6, <1>8 DEF Open
  <2> HIDE DEF open, opened
  <2>5. Sum(ActiveHolds \cup {h}, opened) = Sum(ActiveHolds, open) + opened[h]
    <3>1. IsFiniteSet(ActiveHolds) /\ h \notin ActiveHolds BY <1>12
    <3>2. opened[h] \in Nat BY <2>4
    <3>3. \A k \in ActiveHolds : open[k] \in Nat /\ opened[k] = open[k] BY <2>3
    <3> QED BY <3>1, <3>2, <3>3, SumInsert
  <2>6. Reserved(g)' = Reserved(g) + share[g]
    BY <1>12, <2>1, <2>4, <2>5
  <2>7. GrantOK(g) /\ Reserved(g) \in Nat /\ share[g] \in Nat /\ grant[g].remaining \in Nat
    BY <1>3, <1>4, SumsAreFinite, RowFields DEF CreditInv
  <2>8. grant[g].reversed = 0 => Reserved(g) + share[g] <= grant[g].remaining
    BY <1>4, <2>7 DEF GrantOK
  <2> QED BY <1>2, <2>6, <2>7, <2>8 DEF GrantOK
<1>14. ASSUME NEW k \in Holds PROVE HoldOK(k)'
  <2>1. CASE k = h
    <3>1. \A g \in Grants : Rows(h)'[g] = share[g]
      BY <1>6, <1>8 DEF Rows
    <3>2. Sum(Grants, Rows(h)') = requested
      <4>1. Sum(Grants, Rows(h)') = Sum(Grants, share) BY <3>1, SumEqual
      <4> QED BY <1>4, <4>1
    <3>3. \A g \in Grants : allocation'[h][g].held > 0 => grant'[g].account = a
      BY <1>2, <1>4, <1>6, <1>8
    <3> QED BY <1>5, <1>6, <1>7, <1>8, <2>1, <3>2, <3>3 DEF HoldOK
  <2>2. CASE k # h
    <3>1. hold'[k] = hold[k] /\ allocation'[k] = allocation[k] BY <1>7, <1>8, <2>2
    <3>2. Rows(k)' = Rows(k) BY <3>1 DEF Rows
    <3>3. HoldOK(k) BY DEF CreditInv
    <3> QED BY <1>2, <3>1, <3>2, <3>3 DEF HoldOK
  <2> QED BY <2>1, <2>2
<1>15. ASSUME NEW b \in Accounts PROVE AccountOK(b)'
  <2>1. /\ GrantsOf(b)' = GrantsOf(b) /\ Credited(b)' = Credited(b) /\ Debited(b)' = Debited(b)
        /\ Unbooked(b)' = Unbooked(b) /\ Remaining' = Remaining /\ AccountOK(b)
    BY <1>2, GrantsKept DEF CreditInv
  <2>2. account[b].available \in Nat /\ account[b].held \in Nat
    BY <1>3, RowFields
  <2>3. /\ IsFiniteSet(HoldsOf(b)) /\ h \notin HoldsOf(b) /\ HoldsOf(b) \subseteq Holds
    BY <1>12, SumsAreFinite
  <2>4. \A k \in HoldsOf(b) : Requested[k] \in Nat /\ Requested'[k] = Requested[k]
    BY <1>7, <2>3, SumsAreFinite DEF Requested
  <2>5. CASE a = b
    <3>1. HoldsOf(b)' = HoldsOf(b) \cup {h}
      BY <1>5, <1>7, <1>12, <2>5, SumsAreFinite DEF HoldsOf
    <3>2. Requested'[h] = requested /\ Requested'[h] \in Nat
      BY <1>5, <1>7 DEF Requested
    <3>3. Sum(HoldsOf(b) \cup {h}, Requested') = Sum(HoldsOf(b), Requested) + Requested'[h]
      <4>1. IsFiniteSet(HoldsOf(b)) /\ h \notin HoldsOf(b) BY <2>3
      <4>2. Requested'[h] \in Nat BY <3>2
      <4> QED BY <2>4, <4>1, <4>2, SumInsert
    <3>4. account'[b].held = Sum(HoldsOf(b)', Requested')
      BY <1>9, <2>1, <2>5, <3>1, <3>2, <3>3 DEF AccountOK
    <3>5. account'[b].available + account'[b].held = account[b].available + account[b].held
      BY <1>9, <2>2, <2>5
    <3> QED BY <2>1, <3>4, <3>5 DEF AccountOK
  <2>6. CASE a # b
    <3>1. HoldsOf(b)' = HoldsOf(b)
      BY <1>5, <1>7, <1>12, <2>6, SumsAreFinite DEF HoldsOf
    <3>2. Sum(HoldsOf(b), Requested') = Sum(HoldsOf(b), Requested)
      BY <2>4, SumEqual
    <3>3. account'[b] = account[b] BY <1>9, <2>6
    <3> QED BY <2>1, <3>1, <3>2, <3>3 DEF AccountOK
  <2> QED BY <2>5, <2>6
<1>16. \A g \in Grants : IssueOK(g)' BY <1>2, GrantsKept DEF CreditInv
<1> QED BY <1>2, <1>10, <1>11, <1>13, <1>14, <1>15, <1>16 DEF CreditInv

(* Holds that end without a capture return what they reserved to their accounts. *)
LEMMA EndHoldsKeeps ==
  ASSUME CreditInv, NEW ended \in SUBSET ActiveHolds, NEW status \in {"released", "expired"},
         EndHolds(ended, status)
  PROVE  CreditInv'
<1> DEFINE total(a) == Sum({h \in ended : hold[h].account = a}, Requested)
           after(a) == [account[a] EXCEPT !.available = @ + total(a), !.held = @ - total(a)]
<1>1. CreditTyped BY DEF CreditInv
<1>2. /\ \A a \in Accounts : total(a) <= account[a].held
      /\ allocation' = AllocationReleased(ended)
      /\ account' = [a \in Accounts |-> after(a)]
      /\ hold' = [h \in Holds |-> IF h \in ended THEN [hold[h] EXCEPT !.status = status] ELSE hold[h]]
      /\ UNCHANGED <<grant, usage, journal>>
  BY DEF EndHolds, HeldSuffices, AccountAfter, Requested
<1>3. ended \subseteq Holds /\ IsFiniteSet(ended)
  BY SumsAreFinite, FS_Subset
<1>4. ASSUME NEW a \in Accounts
      PROVE  total(a) \in Nat /\ account[a] \in AccountRows /\ after(a) \in AccountRows
  <2>1. IsFiniteSet({h \in ended : hold[h].account = a}) BY <1>3, FS_Subset
  <2>2. \A h \in {k \in ended : hold[k].account = a} : Requested[h] \in Int
    BY <1>3, SumsAreFinite
  <2>3. total(a) \in Nat BY <2>1, <2>2, SumType
  <2>4. account[a] \in AccountRows BY <1>1 DEF CreditTyped
  <2> HIDE DEF total
  <2>4a. account[a].available \in Nat /\ account[a].held \in Nat BY <2>4 DEF AccountRows
  <2>4b. total(a) <= account[a].held BY <1>2
  <2>5. account[a].available + total(a) \in Nat /\ account[a].held - total(a) \in Nat
    BY <2>3, <2>4a, <2>4b
  <2> QED BY <2>3, <2>4, <2>5 DEF AccountRows
<1> HIDE DEF total
<1>5. /\ account' \in [Accounts -> AccountRows]
      /\ \A a \in Accounts : /\ account'[a].available = account[a].available + total(a)
                             /\ account'[a].held = account[a].held - total(a)
  BY <1>2, <1>4 DEF AccountRows
<1>6. /\ hold' \in [Holds -> HoldRows]
      /\ \A h \in Holds : /\ hold'[h].account = hold[h].account
                          /\ hold'[h].requested = hold[h].requested
                          /\ hold'[h].status = IF h \in ended THEN status ELSE hold[h].status
  <2>1. \A h \in Holds : hold[h] \in HoldRows BY <1>1, RowFields
  <2>2. \A h \in Holds : [hold[h] EXCEPT !.status = status] \in HoldRows
    BY <2>1 DEF HoldRows
  <2> QED BY <1>2, <2>1, <2>2 DEF HoldRows
<1>7. /\ allocation' \in [Holds -> [Grants -> AllocationRows]]
      /\ \A h \in Holds \ ended : allocation'[h] = allocation[h]
  <2>1. ASSUME NEW h \in ended, NEW g \in Grants
        PROVE  [allocation[h][g] EXCEPT !.released = @ + Open(h, g)] \in AllocationRows
    <3>1. allocation[h][g] \in AllocationRows /\ allocation[h][g].released \in Nat
      BY <1>1, <1>3, RowFields
    <3>2. allocation[h][g].released + Open(h, g) \in Nat
      BY <3>1, SumsAreFinite
    <3> QED BY <3>1, <3>2 DEF AllocationRows
  <2>2. \A h \in Holds : allocation[h] \in [Grants -> AllocationRows]
    BY <1>1 DEF CreditTyped
  <2> QED BY <1>2, <2>1, <2>2 DEF AllocationReleased
<1>8. CreditTyped' BY <1>1, <1>2, <1>5, <1>6, <1>7 DEF CreditTyped
<1>9. ActiveHolds' = ActiveHolds \ ended
  BY <1>3, <1>6 DEF ActiveHolds
<1>10. ASSUME NEW e \in journal' PROVE EntryOK(e)'
  <2>1. EntryOK(e) BY <1>2 DEF CreditInv
  <2>2. \A h \in Holds : hold[h].status = "captured" => hold'[h].status = "captured"
    BY <1>6 DEF ActiveHolds
  <2>3. Issued(e.source) => Issued(e.source)' BY <1>2, GrantsKept
  <2> QED BY <1>2, <2>1, <2>2, <2>3 DEF EntryOK
<1>11. ASSUME NEW g \in Grants PROVE GrantOK(g)'
  <2> DEFINE open == [k \in Holds |-> Open(k, g)]
             opened == [k \in Holds |-> Open(k, g)']
  <2>1. Reserved(g) = Sum(ActiveHolds, open) /\ Reserved(g)' = Sum(ActiveHolds', opened)
    BY DEF Reserved
  <2>2. \A k \in ActiveHolds : open[k] \in Nat
    BY SumsAreFinite
  <2>3. \A k \in ActiveHolds \ ended : opened[k] = open[k]
    BY <1>7, SumsAreFinite DEF Open
  <2> HIDE DEF open, opened
  <2>4. Sum(ActiveHolds \ ended, opened) = Sum(ActiveHolds \ ended, open)
    BY <2>3, SumEqual
  <2>5. Sum(ActiveHolds \ ended, open) <= Sum(ActiveHolds, open)
    <3>1. IsFiniteSet(ActiveHolds) /\ ActiveHolds \ ended \in SUBSET ActiveHolds
      BY SumsAreFinite
    <3> QED BY <2>2, <3>1, SumSubset
  <2>6. Sum(ActiveHolds \ ended, open) \in Nat
    <3>1. IsFiniteSet(ActiveHolds \ ended) BY SumsAreFinite, FS_Subset
    <3>2. \A k \in ActiveHolds \ ended : open[k] \in Int BY <2>2
    <3> QED BY <3>1, <3>2, SumType
  <2>7. GrantOK(g) /\ Reserved(g) \in Nat /\ grant[g].remaining \in Nat
    BY <1>1, SumsAreFinite, RowFields DEF CreditInv
  <2>8. Reserved(g)' <= Reserved(g) /\ Reserved(g)' \in Nat
    BY <1>9, <2>1, <2>4, <2>5, <2>6
  <2>9. grant'[g] = grant[g] BY <1>2
  <2>10. grant[g].reversed = 0 => Reserved(g)' <= grant[g].remaining
    BY <2>7, <2>8 DEF GrantOK
  <2> QED BY <2>7, <2>9, <2>10 DEF GrantOK
<1>12. ASSUME NEW h \in Holds PROVE HoldOK(h)'
  <2>1. CASE h \in ended
    BY <1>6, <2>1 DEF HoldOK
  <2>2. CASE h \notin ended
    <3>1. /\ hold'[h].status = hold[h].status /\ hold'[h].account = hold[h].account
          /\ hold'[h].requested = hold[h].requested /\ allocation'[h] = allocation[h]
      BY <1>6, <1>7, <2>2
    <3>2. Rows(h)' = Rows(h) BY <3>1 DEF Rows
    <3>3. HoldOK(h) BY DEF CreditInv
    <3> QED BY <1>2, <3>1, <3>2, <3>3 DEF HoldOK
  <2> QED BY <2>1, <2>2
<1>13. ASSUME NEW b \in Accounts PROVE AccountOK(b)'
  <2> DEFINE E == {h \in ended : hold[h].account = b}
  <2>1. /\ GrantsOf(b)' = GrantsOf(b) /\ Credited(b)' = Credited(b) /\ Debited(b)' = Debited(b)
        /\ Unbooked(b)' = Unbooked(b) /\ Remaining' = Remaining /\ AccountOK(b)
    BY <1>2, GrantsKept DEF CreditInv
  <2>2. account[b].available \in Nat /\ account[b].held \in Nat /\ total(b) \in Nat
    BY <1>1, <1>4, RowFields
  <2>3. HoldsOf(b)' = HoldsOf(b) \ E
    BY <1>6, <1>9, SumsAreFinite DEF HoldsOf
  <2>4. E \in SUBSET HoldsOf(b) BY DEF HoldsOf
  <2>5. total(b) = Sum(E, Requested) BY DEF total
  <2> HIDE DEF E
  <2>6. /\ IsFiniteSet(HoldsOf(b) \ E) /\ IsFiniteSet(E) /\ HoldsOf(b) \subseteq Holds
        /\ (HoldsOf(b) \ E) \cap E = {} /\ (HoldsOf(b) \ E) \cup E = HoldsOf(b)
    BY <2>4, SumsAreFinite, FS_Subset
  <2>7. \A k \in HoldsOf(b) : Requested[k] \in Int /\ Requested'[k] = Requested[k]
    BY <1>6, <2>6, SumsAreFinite DEF Requested
  <2>8. Sum((HoldsOf(b) \ E) \cup E, Requested) = Sum(HoldsOf(b) \ E, Requested) + Sum(E, Requested)
    <3>1. \A k \in (HoldsOf(b) \ E) \cup E : Requested[k] \in Int BY <2>6, <2>7
    <3> QED BY <2>6, <3>1, SumUnion
  <2>9. Sum(HoldsOf(b) \ E, Requested') = Sum(HoldsOf(b) \ E, Requested)
    BY <2>7, SumEqual
  <2>10. Sum(HoldsOf(b) \ E, Requested) \in Nat
    <3>1. \A k \in HoldsOf(b) \ E : Requested[k] \in Int BY <2>7
    <3> QED BY <2>6, <3>1, SumType
  <2>11. account'[b].held = Sum(HoldsOf(b)', Requested')
    <3>1. account[b].held = Sum(HoldsOf(b), Requested) BY <2>1 DEF AccountOK
    <3>2. account[b].held = Sum(HoldsOf(b) \ E, Requested) + total(b)
      BY <2>5, <2>6, <2>8, <3>1
    <3>3. account[b].held - total(b) = Sum(HoldsOf(b) \ E, Requested)
      BY <2>2, <2>10, <3>2
    <3> QED BY <1>5, <2>3, <2>9, <3>3
  <2>12. account'[b].available + account'[b].held = account[b].available + account[b].held
    BY <1>5, <2>2
  <2> QED BY <2>1, <2>11, <2>12 DEF AccountOK
<1>14. \A g \in Grants : IssueOK(g)' BY <1>2, GrantsKept DEF CreditInv
<1> QED BY <1>2, <1>8, <1>10, <1>11, <1>12, <1>13, <1>14 DEF CreditInv

(* What a settlement takes of each allocation is within what was reserved. *)
LEMMA SharesOfHold ==
  ASSUME CreditInv, NEW h \in Holds, NEW n \in Nat
  PROVE  \A g \in Grants : /\ CapturedShare(h, n)[g] \in Nat
                           /\ CapturedShare(h, n)[g] <= allocation[h][g].held
<1> DEFINE rows == allocation[h]
           S == {g \in Grants : rows[g].held > 0}
           held == Field(rows, "held")
<1>1. IsFiniteSet(S) /\ S \subseteq Grants BY Given, FS_Subset
<1>2. DOMAIN held = Grants /\ \A g \in Grants : held[g] = rows[g].held BY DEF Field
<1>3. \A g \in Grants : rows[g].held \in Nat BY RowFields DEF CreditInv
<1>4. CapturedShare(h, n) = Greedy(S, ListedBefore, held, n) BY DEF CapturedShare
<1> HIDE DEF S, held, rows
<1>5. \A g \in S : held[g] \in Nat BY <1>1, <1>2, <1>3
<1>6. ASSUME NEW g \in Grants
      PROVE  /\ CapturedShare(h, n)[g] \in Nat
             /\ CapturedShare(h, n)[g] <= allocation[h][g].held
  <2>1. /\ CapturedShare(h, n)[g] \in Nat
        /\ g \in S => CapturedShare(h, n)[g] <= held[g]
        /\ g \notin S => CapturedShare(h, n)[g] = 0
    BY <1>1, <1>2, <1>4, <1>5, GreedyBounds
  <2>2. held[g] = allocation[h][g].held /\ held[g] \in Nat BY <1>2, <1>3 DEF rows
  <2> QED BY <2>1, <2>2
<1> QED BY <1>6

(***************************************************************************)
(* A settlement: the account gets back what was not used, the grants and   *)
(* the account lose what was, and the journal has one debit if it was any. *)
(***************************************************************************)
LEMMA SettleUsageKeeps ==
  ASSUME CreditInv, NEW h \in Holds, NEW u \in Usages, NEW rows \in [Usages -> UsageRows],
         NEW n \in Nat, SettleUsage(h, u, rows, n)
  PROVE  CreditInv'
<1>1. PICK share : share = CapturedShare(h, n) OBVIOUS
<1> DEFINE returned == [g \in Grants |-> allocation[h][g].held - share[g]]
<1>2. PICK released : released = returned OBVIOUS
<1>3. PICK a : a = hold[h].account OBVIOUS
<1> DEFINE allotted == [g \in Grants |-> [allocation[h][g] EXCEPT !.captured = share[g],
                                                               !.released = released[g]]]
           spent(g) == [grant[g] EXCEPT
                          !.remaining = @ - share[g],
                          !.status = IF share[g] > 0 /\ grant[g].remaining = share[g]
                                     THEN "exhausted" ELSE @]
           settled == [hold[h] EXCEPT !.status = "captured", !.captured = n]
           requested == hold[h].requested
<1>4. /\ hold[h].status = "active" /\ rows[u].status = "recorded"
      /\ \A g \in Grants : grant[g].remaining >= share[g]
      /\ Sum(Grants, share) = n
      /\ account[a].held >= requested
  BY <1>1, <1>3 DEF SettleUsage, CanSettle
<1>5. /\ allocation' = [allocation EXCEPT ![h] = [g \in Grants |->
                          [@[g] EXCEPT !.captured = share[g], !.released = released[g]]]]
      /\ grant' = [g \in Grants |-> spent(g)]
      /\ journal' = journal \cup {Entry(a, "debit", -m, h) : m \in {n} \ {0}}
      /\ hold' = [hold EXCEPT ![h].status = "captured", ![h].captured = n]
      /\ account' = [account EXCEPT ![a].available = @ + Sum(Grants, released),
                                    ![a].held = @ - requested]
      /\ usage' = [rows EXCEPT ![u].status = "settled", ![u].hold = h]
  BY <1>1, <1>2, <1>3 DEF SettleUsage
<1>6. CreditTyped /\ hold[h] \in HoldRows /\ a \in Accounts /\ requested \in Nat
      /\ account[a] \in AccountRows
  BY <1>3, <1>4, RowFields DEF CreditInv, HoldOK, CreditTyped
<1>7. \A g \in Grants : /\ share[g] \in Nat /\ released[g] \in Nat
                        /\ allocation[h][g].held \in Nat
                        /\ allocation[h][g].held = share[g] + released[g]
                        /\ share[g] > 0 => grant[g].account = a
                        /\ grant[g].remaining \in Nat /\ grant[g].remaining - share[g] \in Nat
  <2>1. \A g \in Grants : share[g] \in Nat /\ share[g] <= allocation[h][g].held
    BY <1>1, SharesOfHold
  <2>2. \A g \in Grants : allocation[h][g].held \in Nat /\ grant[g].remaining \in Nat
    BY <1>6, RowFields
  <2>3. \A g \in Grants : released[g] = allocation[h][g].held - share[g] BY <1>2
  <2>4. \A g \in Grants : allocation[h][g].held > 0 => grant[g].account = a
    BY <1>3, <1>4 DEF CreditInv, HoldOK
  <2>5. ASSUME NEW g \in Grants
        PROVE  /\ released[g] \in Nat /\ allocation[h][g].held = share[g] + released[g]
               /\ share[g] > 0 => allocation[h][g].held > 0
               /\ grant[g].remaining - share[g] \in Nat
    <3>1. /\ share[g] \in Nat /\ share[g] <= allocation[h][g].held
          /\ allocation[h][g].held \in Nat /\ grant[g].remaining \in Nat
          /\ released[g] = allocation[h][g].held - share[g]
          /\ grant[g].remaining >= share[g]
      BY <1>4, <2>1, <2>2, <2>3
    <3> QED BY <3>1
  <2> QED BY <2>1, <2>2, <2>4, <2>5
<1>8. requested = n + Sum(Grants, released) /\ Sum(Grants, released) \in Nat
  <2>1. Sum(Grants, Rows(h)) = Sum(Grants, share) + Sum(Grants, released)
    <3>1. \A g \in Grants : /\ share[g] \in Nat /\ released[g] \in Nat
                            /\ Rows(h)[g] = share[g] + released[g]
      BY <1>7 DEF Rows
    <3> QED BY <3>1, Given, SumAdd
  <2>2. Sum(Grants, Rows(h)) = requested BY <1>4 DEF CreditInv, HoldOK
  <2>3. \A g \in Grants : released[g] \in Int BY <1>7
  <2>4. Sum(Grants, released) \in Nat BY <2>3, Given, SumType
  <2> QED BY <1>4, <2>1, <2>2, <2>4
<1>9. /\ allotted \in [Grants -> AllocationRows]
      /\ allocation' = [allocation EXCEPT ![h] = allotted]
  <2>1. \A g \in Grants : allocation[h][g] \in AllocationRows BY <1>6, RowFields
  <2>2. allotted \in [Grants -> AllocationRows] BY <1>7, <2>1 DEF AllocationRows
  <2>3. allocation' = [allocation EXCEPT ![h] = allotted]
    BY <1>5, <1>6 DEF CreditTyped
  <2> QED BY <2>2, <2>3
<1> HIDE DEF allotted, returned
<1>10. /\ allocation' \in [Holds -> [Grants -> AllocationRows]]
       /\ \A k \in Holds \ {h} : allocation'[k] = allocation[k]
  BY <1>6, <1>9 DEF CreditTyped
<1>11. ASSUME NEW g \in Grants
       PROVE  /\ grant'[g] \in GrantRows /\ grant'[g].account = grant[g].account
              /\ grant'[g].remaining = grant[g].remaining - share[g]
              /\ grant'[g].reversed = grant[g].reversed
              /\ grant'[g].original = grant[g].original /\ grant'[g].period = grant[g].period
              /\ grant[g].status = "absent" => grant'[g] = grant[g]
              /\ grant[g].status # "absent" => grant'[g].status # "absent"
              /\ grant'[g].status = "absent" => grant[g].status = "absent"
              /\ grant[g].status = "expired" <=> grant'[g].status = "expired"
  <2>1. grant[g] \in GrantRows /\ GrantOK(g) BY <1>6, RowFields DEF CreditInv
  <2>2. grant'[g] = spent(g) BY <1>5
  <2>3. /\ grant'[g] \in GrantRows /\ grant'[g].account = grant[g].account
        /\ grant'[g].remaining = grant[g].remaining - share[g]
        /\ grant'[g].reversed = grant[g].reversed
        /\ grant'[g].original = grant[g].original /\ grant'[g].period = grant[g].period
        /\ grant'[g].status = IF share[g] > 0 /\ grant[g].remaining = share[g]
                              THEN "exhausted" ELSE grant[g].status
    BY <1>7, <2>1, <2>2 DEF GrantRows
  <2>4. grant[g].status \in {"absent", "expired"} => grant[g].remaining = 0
    BY <2>1 DEF GrantOK, NoGrant
  <2>5. grant[g].status \in {"absent", "expired"} => share[g] = 0
    BY <1>4, <1>7, <2>4
  <2>6. grant[g].status = "absent" => grant'[g] = grant[g]
    <3> SUFFICES ASSUME grant[g].status = "absent" PROVE grant'[g] = grant[g]
      OBVIOUS
    <3>1. share[g] = 0 /\ grant[g].remaining - share[g] = grant[g].remaining
      BY <1>7, <2>5
    <3>2. grant'[g].status = grant[g].status BY <2>3, <3>1
    <3>3. /\ grant'[g].paid = grant[g].paid
          /\ grant'[g].expires = grant[g].expires
      BY <2>1, <2>2 DEF GrantRows
    <3> QED BY <2>1, <2>3, <3>1, <3>2, <3>3 DEF GrantRows
  <2>7. share[g] = 0 => grant'[g].status = grant[g].status
    BY <2>3
  <2> QED BY <2>3, <2>5, <2>6, <2>7
<1>12. grant' \in [Grants -> GrantRows]
  BY <1>5, <1>11
<1> HIDE DEF spent
<1>13. /\ hold' \in [Holds -> HoldRows] /\ hold'[h].status = "captured"
       /\ \A k \in Holds \ {h} : hold'[k] = hold[k]
       /\ \A k \in Holds : hold'[k].account = hold[k].account
                           /\ hold'[k].requested = hold[k].requested
  <2>1. settled \in HoldRows /\ settled.status = "captured" /\ settled.account = hold[h].account
        /\ settled.requested = hold[h].requested
    BY <1>6 DEF HoldRows
  <2>2. hold' = [hold EXCEPT ![h] = settled] BY <1>5
  <2> HIDE DEF settled
  <2> QED BY <1>6, <2>1, <2>2 DEF CreditTyped
<1>14. /\ account' \in [Accounts -> AccountRows]
       /\ account'[a].available = account[a].available + Sum(Grants, released)
       /\ account'[a].held = account[a].held - requested
       /\ \A b \in Accounts \ {a} : account'[b] = account[b]
  <2>1. account[a].available \in Nat /\ account[a].held \in Nat BY <1>6 DEF AccountRows
  <2> DEFINE back == Sum(Grants, released)
             row == [account[a] EXCEPT !.available = @ + back, !.held = @ - requested]
  <2>2. account[a].available + back \in Nat /\ account[a].held - requested \in Nat
    BY <1>4, <1>6, <1>8, <2>1
  <2>3. account' = [account EXCEPT ![a] = row] BY <1>5, <1>6 DEF CreditTyped
  <2> HIDE DEF back
  <2>4. row \in AccountRows /\ row.available = account[a].available + back
        /\ row.held = account[a].held - requested
    BY <1>6, <2>2 DEF AccountRows
  <2> HIDE DEF row
  <2> QED BY <1>6, <2>3, <2>4 DEF CreditTyped, back
<1>15. usage' \in [Usages -> UsageRows]
  <2>1. [rows[u] EXCEPT !.status = "settled", !.hold = h] \in UsageRows BY DEF UsageRows
  <2>2. usage' = [rows EXCEPT ![u] = [rows[u] EXCEPT !.status = "settled", !.hold = h]]
    BY <1>5
  <2> QED BY <2>1, <2>2
<1>16. PICK entry \in Entries : /\ entry.account = a /\ entry.amount = -n
                                /\ entry.kind = "debit" /\ entry.source = h
                                /\ entry = Entry(a, "debit", -n, h)
  <2>1. -n \in Int OBVIOUS
  <2>2. Entry(a, "debit", -n, h) \in Entries BY <1>6, <2>1 DEF Entries, Entry
  <2> QED BY <2>2 DEF Entry
<1>17. /\ entry \notin journal
       /\ n > 0 => journal' = journal \cup {entry}
       /\ n = 0 => journal' = journal
  <2>1. entry \notin journal BY <1>4, <1>16 DEF CreditInv, EntryOK
  <2>2. n > 0 => {n} \ {0} = {n} OBVIOUS
  <2>3. n = 0 => {n} \ {0} = {} OBVIOUS
  <2> QED BY <1>5, <1>16, <2>1, <2>2, <2>3
<1>18. journal' \subseteq journal \cup {entry} BY <1>17
<1>19. CreditTyped'
  BY <1>6, <1>10, <1>12, <1>13, <1>14, <1>15, <1>18 DEF CreditTyped
<1>20. IsFiniteSet(journal')
  BY <1>17, FS_AddElement DEF CreditInv
<1>20a. /\ \A g \in Grants : IssueOK(g)'
        /\ \A s : Issued(s) => Issued(s)'
        /\ \A b : Unbooked(b)' = Unbooked(b)
  <2>1. journal \subseteq journal' BY <1>17
  <2>2. \A g \in Grants : grant'[g].status = "absent" <=> grant[g].status = "absent"
    BY <1>11
  <2>3. \A g \in Grants : /\ grant'[g].account = grant[g].account
                          /\ grant'[g].original = grant[g].original
                          /\ grant'[g].period = grant[g].period
    BY <1>11
  <2> QED BY <2>1, <2>2, <2>3, IssueKept
<1>21. ASSUME NEW e \in journal' PROVE EntryOK(e)'
  <2>1. CASE e = entry BY <1>13, <1>16, <2>1 DEF EntryOK
  <2>2. CASE e \in journal
    <3>1. EntryOK(e) BY <2>2 DEF CreditInv
    <3>2. \A k \in Holds : hold[k].status = "captured" => hold'[k].status = "captured"
      BY <1>13
    <3>3. \A k \in Grants : grant[k].status = "expired" => grant'[k].status = "expired"
      BY <1>11
    <3>4. Issued(e.source) => Issued(e.source)' BY <1>20a
    <3> QED BY <3>1, <3>2, <3>3, <3>4 DEF EntryOK
  <2> QED BY <1>18, <2>1, <2>2
<1>22. ActiveHolds' = ActiveHolds \ {h} /\ h \in ActiveHolds /\ IsFiniteSet(ActiveHolds)
  BY <1>4, <1>13, SumsAreFinite DEF ActiveHolds
<1>23. ASSUME NEW g \in Grants PROVE GrantOK(g)'
  <2> DEFINE open == [k \in Holds |-> Open(k, g)]
             opened == [k \in Holds |-> Open(k, g)']
  <2>1. Reserved(g) = Sum(ActiveHolds, open) /\ Reserved(g)' = Sum(ActiveHolds \ {h}, opened)
    BY <1>22 DEF Reserved
  <2>2. (\A k \in ActiveHolds : open[k] \in Nat) /\ open[h] = allocation[h][g].held
    BY <1>22, SumsAreFinite
  <2>3. \A k \in ActiveHolds \ {h} : opened[k] = open[k]
    BY <1>10, SumsAreFinite DEF Open
  <2> HIDE DEF open, opened
  <2>4. Sum(ActiveHolds \ {h}, opened) = Sum(ActiveHolds \ {h}, open)
    BY <2>3, SumEqual
  <2>5. /\ Sum(ActiveHolds, open) = open[h] + Sum(ActiveHolds \ {h}, open)
        /\ Sum(ActiveHolds \ {h}, open) \in Nat
    <3>1. IsFiniteSet(ActiveHolds) /\ h \in ActiveHolds BY <1>22
    <3> QED BY <2>2, <3>1, SumRemove
  <2>6. /\ Reserved(g) = allocation[h][g].held + Reserved(g)' /\ Reserved(g)' \in Nat
    BY <2>1, <2>2, <2>4, <2>5
  <2>7. /\ share[g] \in Nat /\ released[g] \in Nat /\ allocation[h][g].held = share[g] + released[g]
        /\ grant[g].remaining \in Nat /\ grant'[g].remaining = grant[g].remaining - share[g]
        /\ grant[g].remaining - share[g] \in Nat
    BY <1>7, <1>11
  <2>8. GrantOK(g) BY DEF CreditInv
  <2>9. grant'[g].reversed = 0 => Reserved(g)' <= grant'[g].remaining
    <3> SUFFICES ASSUME grant'[g].reversed = 0 PROVE Reserved(g)' <= grant'[g].remaining
      OBVIOUS
    <3>1. Reserved(g) <= grant[g].remaining BY <1>11, <2>8 DEF GrantOK
    <3> QED BY <2>6, <2>7, <3>1
  <2>10. grant'[g].status = "absent" => grant'[g] = NoGrant
    BY <1>11, <2>8 DEF GrantOK
  <2>11. grant'[g].status # "absent" => grant'[g].account \in Accounts
    BY <1>11, <2>8 DEF GrantOK
  <2>12. grant'[g].status = "expired" => grant'[g].remaining = 0
    <3> SUFFICES ASSUME grant'[g].status = "expired" PROVE grant'[g].remaining = 0
      OBVIOUS
    <3>1. grant[g].remaining = 0 BY <1>11, <2>8 DEF GrantOK
    <3> QED BY <2>7, <3>1
  <2> QED BY <2>9, <2>10, <2>11, <2>12 DEF GrantOK
<1>24. ASSUME NEW k \in Holds PROVE HoldOK(k)'
  <2>1. CASE k = h BY <1>13, <2>1 DEF HoldOK
  <2>2. CASE k # h
    <3>1. hold'[k] = hold[k] /\ allocation'[k] = allocation[k] BY <1>10, <1>13, <2>2
    <3>2. Rows(k)' = Rows(k) BY <3>1 DEF Rows
    <3>3. HoldOK(k) /\ \A g \in Grants : grant'[g].account = grant[g].account
      BY <1>11 DEF CreditInv
    <3> QED BY <3>1, <3>2, <3>3 DEF HoldOK
  <2> QED BY <2>1, <2>2
<1>25. ASSUME NEW b \in Accounts PROVE AccountOK(b)'
  <2> DEFINE used == IF a = b THEN n ELSE 0
  <2>1. /\ account[b].available \in Nat /\ account[b].held \in Nat
        /\ account[b].held = Sum(HoldsOf(b), Requested)
        /\ account[b].available + account[b].held + Unbooked(b) = Sum(GrantsOf(b), Remaining)
        /\ account[b].available + account[b].held + Debited(b) = Credited(b)
        /\ Unbooked(b)' = Unbooked(b) /\ Unbooked(b) \in Nat
    BY <1>6, <1>20a, RowFields, UnbookedTyped DEF CreditInv, AccountOK
  <2>2. /\ Credited(b) \in Nat /\ Debited(b) \in Nat
        /\ Credited(b)' = Credited(b) /\ Debited(b)' = Debited(b) + used
    <3>1. Credited(b) \in Nat /\ Debited(b) \in Nat
      BY SumsAreTyped
    <3>2. CASE n > 0
      <4>1. /\ Credited(b)' = Credited(b)
                + IF entry.account = b /\ entry.amount > 0 THEN entry.amount ELSE 0
            /\ Debited(b)' = Debited(b)
                + IF entry.account = b /\ entry.amount < 0 THEN -entry.amount ELSE 0
        BY <1>17, <3>2, EntryAdded
      <4>2. ~(entry.amount > 0) /\ entry.amount < 0 /\ -entry.amount = n
        BY <1>16, <3>2
      <4>3. Credited(b)' = Credited(b) + 0 /\ Debited(b)' = Debited(b) + used
        BY <1>16, <4>1, <4>2
      <4> QED BY <3>1, <4>3
    <3>3. CASE n = 0
      <4>1. Credited(b)' = Credited(b) /\ Debited(b)' = Debited(b)
        BY <1>17, <3>3 DEF Credited, Debited
      <4>2. used = 0 BY <3>3
      <4> QED BY <3>1, <4>1, <4>2
    <3> QED BY <3>2, <3>3
  <2>3. Sum(GrantsOf(b), Remaining) = Sum(GrantsOf(b)', Remaining') + used
        /\ Sum(GrantsOf(b)', Remaining') \in Nat
    <3>1. GrantsOf(b)' = GrantsOf(b) BY <1>11 DEF GrantsOf
    <3>2. IsFiniteSet(GrantsOf(b)) /\ GrantsOf(b) \subseteq Grants BY SumsAreFinite
    <3>3. \A g \in GrantsOf(b) : /\ Remaining'[g] \in Nat /\ share[g] \in Nat
                                 /\ Remaining[g] = Remaining'[g] + share[g]
      <4>1. ASSUME NEW g \in GrantsOf(b)
            PROVE  /\ Remaining'[g] \in Nat /\ share[g] \in Nat
                   /\ Remaining[g] = Remaining'[g] + share[g]
        <5>1. /\ Remaining[g] = grant[g].remaining /\ Remaining'[g] = grant[g].remaining - share[g]
              /\ share[g] \in Nat /\ grant[g].remaining \in Nat
              /\ grant[g].remaining - share[g] \in Nat
          BY <1>7, <1>11, <3>2 DEF Remaining
        <5> QED BY <5>1
      <4> QED BY <4>1
    <3>4. Sum(GrantsOf(b), Remaining) = Sum(GrantsOf(b), Remaining') + Sum(GrantsOf(b), share)
      BY <3>2, <3>3, SumAdd
    <3>5. Sum(GrantsOf(b), Remaining') \in Nat
      <4>1. \A g \in GrantsOf(b) : Remaining'[g] \in Int BY <3>3
      <4> QED BY <3>2, <4>1, SumType
    <3>6. Sum(GrantsOf(b), share) = used
      <4>1. CASE a = b
        <5>1. IsFiniteSet(Grants) /\ GrantsOf(b) \in SUBSET Grants BY <3>2, Given
        <5>2. \A g \in Grants : share[g] \in Nat BY <1>7
        <5>3. \A g \in Grants \ GrantsOf(b) : share[g] = 0
          BY <1>7, <4>1 DEF GrantsOf
        <5>4. Sum(Grants, share) = Sum(GrantsOf(b), share)
          BY <5>1, <5>2, <5>3, SumWithoutZeros
        <5> QED BY <1>4, <4>1, <5>4
      <4>2. CASE a # b
        <5>1. \A g \in GrantsOf(b) : share[g] = 0
          BY <1>7, <3>2, <4>2 DEF GrantsOf
        <5> QED BY <4>2, <5>1, SumZero
      <4> QED BY <4>1, <4>2
    <3> QED BY <3>1, <3>4, <3>5, <3>6
  <2>4. CASE a = b
    <3>1. /\ account'[b].available = account[b].available + Sum(Grants, released)
          /\ account'[b].held = account[b].held - requested
          /\ requested = n + Sum(Grants, released) /\ Sum(Grants, released) \in Nat
          /\ requested \in Nat /\ used = n
      BY <1>6, <1>8, <1>14, <2>4
    <3>2. account'[b].held = Sum(HoldsOf(b)', Requested')
      <4>1. HoldsOf(b)' = HoldsOf(b) \ {h} /\ h \in HoldsOf(b) /\ IsFiniteSet(HoldsOf(b))
        BY <1>3, <1>13, <1>22, <2>4, SumsAreFinite DEF HoldsOf
      <4>2. HoldsOf(b) \subseteq Holds BY SumsAreFinite
      <4>3. \A k \in HoldsOf(b) : Requested[k] \in Nat /\ Requested'[k] = Requested[k]
        BY <1>13, <4>2, SumsAreFinite DEF Requested
      <4>4. /\ Sum(HoldsOf(b), Requested) = Requested[h] + Sum(HoldsOf(b) \ {h}, Requested)
            /\ Sum(HoldsOf(b) \ {h}, Requested) \in Nat
        BY <4>1, <4>3, SumRemove
      <4>5. Sum(HoldsOf(b) \ {h}, Requested') = Sum(HoldsOf(b) \ {h}, Requested)
        BY <4>3, SumEqual
      <4>6. Requested[h] = requested BY DEF Requested
      <4>7. account[b].held = requested + Sum(HoldsOf(b) \ {h}, Requested)
        BY <2>1, <4>4, <4>6
      <4>8. account[b].held - requested = Sum(HoldsOf(b) \ {h}, Requested)
        BY <2>1, <3>1, <4>4, <4>7
      <4> QED BY <3>1, <4>1, <4>5, <4>8
    <3> DEFINE back == Sum(Grants, released)
    <3>3. account'[b].available + account'[b].held = account[b].available + account[b].held - n
      BY <2>1, <3>1
    <3>4. account'[b].available + account'[b].held + Unbooked(b)' = Sum(GrantsOf(b)', Remaining')
      BY <2>1, <2>3, <3>1, <3>3
    <3>5. account'[b].available + account'[b].held + Debited(b)' = Credited(b)'
      BY <2>1, <2>2, <3>1, <3>3
    <3> QED BY <3>2, <3>4, <3>5 DEF AccountOK
  <2>5. CASE a # b
    <3>1. account'[b] = account[b] /\ used = 0 BY <1>14, <2>5
    <3>2. HoldsOf(b)' = HoldsOf(b)
      BY <1>3, <1>13, <1>22, <2>5, SumsAreFinite DEF HoldsOf
    <3>3. \A k \in HoldsOf(b) : Requested'[k] = Requested[k]
      BY <1>13, SumsAreFinite DEF Requested
    <3>4. Sum(HoldsOf(b), Requested') = Sum(HoldsOf(b), Requested) BY <3>3, SumEqual
    <3>5. Sum(GrantsOf(b)', Remaining') = Sum(GrantsOf(b), Remaining)
          /\ Debited(b)' = Debited(b) /\ Credited(b)' = Credited(b)
      BY <2>2, <2>3, <3>1
    <3> QED BY <2>1, <3>1, <3>2, <3>4, <3>5 DEF AccountOK
  <2> QED BY <2>4, <2>5
<1> QED BY <1>19, <1>20, <1>20a, <1>21, <1>23, <1>24, <1>25 DEF CreditInv

-------------------------------------------------------------------------------
(* The tables start empty. *)
LEMMA InitCredit == EntitlementsInit => CreditInv /\ RestTyped
<1> SUFFICES ASSUME EntitlementsInit PROVE CreditInv /\ RestTyped
  OBVIOUS
<1>1. CreditTyped /\ RestTyped
  <2>1. NoGrant \in GrantRows
    <3>1. 0 \in Amounts \cup {0} /\ Never \in 0 .. Never BY Given
    <3> QED BY <3>1 DEF NoGrant, GrantRows
  <2>2. NoHold \in HoldRows
    <3>1. 0 \in 0 .. MaxTime BY Given
    <3> QED BY <3>1 DEF NoHold, HoldRows
  <2>3. NoUsage \in UsageRows BY DEF NoUsage, UsageRows
  <2>4. NoRows \in [Grants -> AllocationRows] BY DEF NoRows, AllocationRows
  <2>5. CreditTyped
    BY <2>1, <2>2, <2>3, <2>4 DEF EntitlementsInit, CreditTyped, AccountRows
  <2>6. RestTyped
    <3>1. 0 \in 0 .. MaxTime /\ 0 \in 0 .. MaxRedemptions BY EntitlementsAssumption
    <3> QED BY <3>1 DEF EntitlementsInit, RestTyped
  <2> QED BY <2>5, <2>6
<1>2. journal = {} /\ ActiveHolds = {} /\ \A a : HoldsOf(a) = {}
  BY DEF EntitlementsInit, ActiveHolds, HoldsOf, NoHold
<1>3. \A a \in Accounts : GrantsOf(a) = {}
  BY Given DEF EntitlementsInit, GrantsOf, NoGrant
<1>4. IsFiniteSet(journal) /\ \A e \in journal : EntryOK(e)
  BY <1>2, FS_EmptySet
<1>5. ASSUME NEW g \in Grants PROVE GrantOK(g) /\ IssueOK(g)
  <2>1. Reserved(g) = 0 BY <1>2, SumEmpty DEF Reserved
  <2> QED BY <2>1 DEF GrantOK, IssueOK, EntitlementsInit, NoGrant
<1>6. ASSUME NEW h \in Holds PROVE HoldOK(h)
  BY DEF HoldOK, EntitlementsInit, NoHold
<1>7. ASSUME NEW a \in Accounts PROVE AccountOK(a)
  <2> DEFINE none == {e \in journal : e.account = a /\ e.amount > 0}
             less == {e \in journal : e.account = a /\ e.amount < 0}
  <2>1. account[a].available = 0 /\ account[a].held = 0 BY DEF EntitlementsInit
  <2>2. none = {} /\ less = {} BY <1>2
  <2>3. Credited(a) = 0 /\ Debited(a) = 0 BY <2>2, SumEmpty DEF Credited, Debited
  <2>4. Uncredited(a) = {} BY <1>3 DEF Uncredited
  <2>5. /\ Sum(HoldsOf(a), Requested) = 0 /\ Sum(GrantsOf(a), Remaining) = 0
        /\ Unbooked(a) = 0
    BY <1>2, <1>3, <2>4, SumEmpty DEF Unbooked
  <2> QED BY <2>1, <2>3, <2>5 DEF AccountOK
<1> QED BY <1>1, <1>4, <1>5, <1>6, <1>7 DEF CreditInv

(* A step that leaves the credit tables alone keeps what is said of them. *)
LEMMA CreditKept ==
  ASSUME CreditInv, UNCHANGED <<account, grant, hold, allocation, journal>>,
         usage' \in [Usages -> UsageRows]
  PROVE  CreditInv'
<1>1. \A e \in journal' : EntryOK(e)' BY GrantsKept DEF CreditInv, EntryOK
<1>2. \A g \in Grants : GrantOK(g)' BY HoldsKept DEF CreditInv, GrantOK
<1>2a. \A g \in Grants : IssueOK(g)' BY GrantsKept DEF CreditInv
<1>3. \A h \in Holds : HoldOK(h)' BY HoldsKept DEF CreditInv, HoldOK
<1>4. \A a \in Accounts : AccountOK(a)' BY HoldsKept, GrantsKept DEF CreditInv, AccountOK
<1> QED BY <1>1, <1>2, <1>2a, <1>3, <1>4 DEF CreditInv, CreditTyped

(***************************************************************************)
(* What transactions that are not the invocation's own may do to its hold: *)
(* nothing, but that an expiry batch ends it.                              *)
(***************************************************************************)
Undisturbed(i) ==
  /\ hold'[i].captured = hold[i].captured
  /\ \/ hold'[i].status = hold[i].status
     \/ hold[i].status = "active" /\ hold'[i].status = "expired"
  /\ usage'[i] = usage[i]
  /\ DebitsOf(i)' = DebitsOf(i)

(* An entry that is no debit of i adds nothing to its debits. *)
LEMMA DebitsKept ==
  ASSUME NEW i, NEW e, e.kind # "debit" \/ e.source # i, journal' = journal \cup {e}
  PROVE  DebitsOf(i)' = DebitsOf(i)
BY DEF DebitsOf

(* Granting disturbs no hold. *)
LEMMA CreditDisturbsNone ==
  ASSUME NEW i, NEW a, NEW source, NEW n, UNCHANGED <<hold, usage>>,
         Book(a, n, source) \/ UNCHANGED journal
  PROVE  Undisturbed(i)
<1>1. PICK e : e = Entry(a, "grant", n, source) OBVIOUS
<1>2. e.kind # "debit" BY <1>1 DEF Entry
<1>3. journal' = journal \cup {e} \/ journal' = journal BY <1>1 DEF Book
<1>4. DebitsOf(i)' = DebitsOf(i) BY <1>2, <1>3, DebitsKept DEF DebitsOf
<1> QED BY <1>4 DEF Undisturbed

(* Neither does the expiry of a grant, nor a refund. *)
LEMMA WithdrawalDisturbsNone ==
  ASSUME NEW i, NEW g, NEW r, NEW n, ExpireGrant(g) \/ ReverseCredits(r, g, n)
  PROVE  Undisturbed(i)
<1>1. PICK e : e = IF ExpireGrant(g) THEN Entry(grant[g].account, "expiry", -grant[g].remaining, g)
                   ELSE Entry(grant[g].account, "reversal", -n, r)
  OBVIOUS
<1>2. e.kind # "debit" BY <1>1 DEF Entry
<1>3. journal' = journal \cup {e} /\ UNCHANGED <<hold, usage>>
  BY <1>1 DEF ExpireGrant, ReverseCredits
<1> QED BY <1>2, <1>3, DebitsKept DEF Undisturbed

(* A new hold disturbs no other. *)
LEMMA AuthorizeDisturbsOne ==
  ASSUME CreditInv, NEW i \in Holds, NEW h \in Holds, h # i, NEW a, NEW n,
         AuthorizeUsage(h, a, n)
  PROVE  Undisturbed(i)
BY DEF AuthorizeUsage, Undisturbed, DebitsOf, CreditInv, CreditTyped

(* Holds that end disturb no other, and an expiry no hold at all. *)
LEMMA EndHoldsDisturbs ==
  ASSUME CreditInv, NEW i \in Holds, NEW ended \in SUBSET ActiveHolds, NEW status,
         EndHolds(ended, status), i \notin ended \/ status = "expired"
  PROVE  Undisturbed(i)
<1>1. hold[i] \in HoldRows BY RowFields DEF CreditInv
<1>2. hold'[i] = IF i \in ended THEN [hold[i] EXCEPT !.status = status] ELSE hold[i]
  BY DEF EndHolds
<1>3. i \in ended => hold[i].status = "active" BY DEF ActiveHolds
<1>4. hold'[i].captured = hold[i].captured
  BY <1>1, <1>2 DEF HoldRows
<1>5. i \in ended => hold'[i].status = status
  BY <1>1, <1>2 DEF HoldRows
<1>6. DebitsOf(i)' = DebitsOf(i) /\ usage' = usage BY DEF EndHolds, DebitsOf
<1> QED BY <1>2, <1>3, <1>4, <1>5, <1>6 DEF Undisturbed

(* A settlement disturbs no hold but its own. *)
LEMMA SettleDisturbsOne ==
  ASSUME CreditInv, NEW i \in Holds \cap Usages, NEW h \in Holds, h # i, NEW u \in Usages, u # i,
         NEW rows \in [Usages -> UsageRows], rows[i] = usage[i], NEW n,
         SettleUsage(h, u, rows, n)
  PROVE  Undisturbed(i)
<1>1. hold'[i] = hold[i] BY DEF SettleUsage, CreditInv, CreditTyped
<1>2. usage'[i] = usage[i] BY DEF SettleUsage
<1>3. journal' = journal \cup {Entry(hold[h].account, "debit", -m, h) : m \in {n} \ {0}}
  BY DEF SettleUsage
<1>4. \A m : Entry(hold[h].account, "debit", -m, h).source = h BY DEF Entry
<1>5. DebitsOf(i)' = DebitsOf(i) BY <1>3, <1>4 DEF DebitsOf
<1> QED BY <1>1, <1>2, <1>5 DEF Undisturbed

(* A grant of any kind keeps the books, and its campaign its types. *)
LEMMA GrantStepsKeep ==
  ASSUME CreditInv, RestTyped, GrantSteps
  PROVE  CreditInv' /\ RestTyped' /\ \A i : Undisturbed(i)
<1>1. ASSUME NEW p \in Periods, NEW g \in Grants, NEW n \in Amounts, NEW t \in 0 .. MaxTime,
             SubscriptionGrant(p, g, n, t)
      PROVE  CreditInv' /\ RestTyped' /\ \A i : Undisturbed(i)
  <2>1. /\ UNCHANGED <<hold, usage>>
        /\ Book(Subscriber[p], n, p) \/ UNCHANGED journal
    BY <1>1 DEF SubscriptionGrant
  <2>2. RestTyped' BY <1>1 DEF SubscriptionGrant, RestTyped, redeemVars
  <2> QED BY <1>1, <2>1, <2>2, SubscriptionGrantKeeps, CreditDisturbsNone
<1>2. ASSUME NEW a \in Accounts, NEW g \in Grants, NEW n \in Amounts,
             AdminGrant(a, g, n) \/ FulfillSettlement(a, g, n)
      PROVE  CreditInv' /\ RestTyped' /\ \A i : Undisturbed(i)
  <2>1. PICK paid \in BOOLEAN : Credit(a, g, paid, n)
    BY <1>2 DEF AdminGrant, FulfillSettlement
  <2>2. RestTyped' BY <1>2 DEF AdminGrant, FulfillSettlement, Credit, RestTyped, redeemVars
  <2>3. UNCHANGED <<hold, usage>> /\ Book(a, n, g) BY <2>1 DEF Credit
  <2> QED BY <2>1, <2>2, <2>3, CreditKeeps, CreditDisturbsNone
<1>3. ASSUME NEW a \in Accounts, NEW g \in Grants, NEW c \in Codes, Redeem(a, g, c)
      PROVE  CreditInv' /\ RestTyped' /\ \A i : Undisturbed(i)
  <2>1. Credit(a, g, FALSE, campaign.credit) /\ campaign.credit \in Amounts \cup {0}
    BY <1>3 DEF Redeem, RestTyped
  <2>2. RestTyped'
    <3>1. campaign.count + 1 \in 0 .. MaxRedemptions
      BY <1>3, EntitlementsAssumption DEF Redeem, RestTyped
    <3>2. now' = now BY <2>1 DEF Credit
    <3> QED BY <1>3, <3>1, <3>2 DEF Redeem, RestTyped
  <2>3. UNCHANGED <<hold, usage>> /\ Book(a, campaign.credit, g) BY <2>1 DEF Credit
  <2> QED BY <2>1, <2>2, <2>3, CreditKeeps, CreditDisturbsNone
<1>4. ASSUME NEW g \in Grants, ExpireGrant(g)
      PROVE  CreditInv' /\ RestTyped' /\ \A i : Undisturbed(i)
  <2>1. RestTyped' BY <1>4 DEF ExpireGrant, RestTyped, redeemVars
  <2> QED BY <1>4, <2>1, ExpireGrantKeeps, WithdrawalDisturbsNone
<1>5. ASSUME NEW g \in Grants, NEW r \in Refunds, NEW n \in Amounts, ReverseCredits(r, g, n)
      PROVE  CreditInv' /\ RestTyped' /\ \A i : Undisturbed(i)
  <2>1. RestTyped' BY <1>5 DEF ReverseCredits, RestTyped, redeemVars
  <2> QED BY <1>5, <2>1, ReverseCreditsKeeps, WithdrawalDisturbsNone
<1>6. ASSUME \/ \E n \in Amounts : CreateCampaign(n)
             \/ \E codes \in SUBSET Codes \ {{}} : IssueCodes(codes)
             \/ \E c \in Codes : DisableCode(c)
      PROVE  CreditInv' /\ RestTyped' /\ \A i : Undisturbed(i)
  <2>1. UNCHANGED <<now, account, grant, hold, allocation, usage, journal>>
    BY <1>6 DEF CreateCampaign, IssueCodes, DisableCode, creditVars
  <2>2. CreditInv' BY <2>1, CreditKept DEF CreditInv, CreditTyped
  <2>3. RestTyped'
    <3>1. ASSUME NEW n \in Amounts, CreateCampaign(n) PROVE RestTyped'
      <4>1. 0 \in 0 .. MaxRedemptions BY EntitlementsAssumption
      <4> QED BY <3>1, <4>1, <2>1 DEF CreateCampaign, RestTyped
    <3>2. ASSUME NEW codes \in SUBSET Codes \ {{}}, IssueCodes(codes) PROVE RestTyped'
      BY <3>2, <2>1 DEF IssueCodes, RestTyped
    <3>3. ASSUME NEW c \in Codes, DisableCode(c) PROVE RestTyped'
      BY <3>3, <2>1 DEF DisableCode, RestTyped
    <3> QED BY <1>6, <3>1, <3>2, <3>3
  <2> QED BY <2>1, <2>2, <2>3 DEF Undisturbed, DebitsOf
<1> QED BY <1>1, <1>2, <1>3, <1>4, <1>5, <1>6 DEF GrantSteps

(* A step of the entitlements alone keeps the books and disturbs no admission. *)
LEMMA EntitlementStepsKeep ==
  ASSUME CreditInv, RestTyped, EntitlementSteps
  PROVE  CreditInv' /\ RestTyped' /\ \A i \in Invocations : Undisturbed(i)
<1> DEFINE kept == CreditInv' /\ RestTyped' /\ \A i \in Invocations : Undisturbed(i)
<1>0. /\ Invocations \subseteq Holds /\ Invocations \subseteq Usages
      /\ \A h \in Direct : h \in Holds /\ \A i \in Invocations : h # i
      /\ now \in Nat
  BY AdmissionsAssumption, Given DEF Direct, RestTyped
<1>1. CASE Tick
  <2>1. UNCHANGED <<account, grant, hold, allocation, usage, journal>> BY <1>1 DEF Tick, creditVars
  <2>2. CreditInv' BY <2>1, CreditKept DEF CreditInv, CreditTyped
  <2>3. RestTyped'
    <3>1. now + 1 \in 0 .. MaxTime BY <1>1, Given DEF Tick, RestTyped
    <3> QED BY <1>1, <3>1 DEF Tick, RestTyped, redeemVars
  <2> QED BY <2>1, <2>2, <2>3 DEF Undisturbed, DebitsOf
<1>2. CASE GrantSteps BY <1>2, GrantStepsKeep
<1>3. CASE ExpireExpiredHolds
  <2>1. PICK ended \in Selections : EndHolds(ended, "expired")
    BY <1>3 DEF ExpireExpiredHolds
  <2>2. ended \in SUBSET ActiveHolds BY DEF Selections, Due
  <2>3. UNCHANGED <<now, redeemVars>> BY <1>3 DEF ExpireExpiredHolds
  <2>4. RestTyped' BY <2>3 DEF RestTyped, redeemVars
  <2>5. CreditInv' BY <2>1, <2>2, EndHoldsKeeps
  <2>6. \A i \in Invocations : Undisturbed(i)
    BY <1>0, <2>1, <2>2, EndHoldsDisturbs
  <2> QED BY <2>4, <2>5, <2>6
<1>4. CASE DirectSteps
  <2>0. RestTyped' BY <1>4 DEF DirectSteps, RestTyped, redeemVars
  <2>1. ASSUME NEW h \in Direct, NEW a \in Accounts, NEW n \in Micros \ {0}, AuthorizeUsage(h, a, n)
        PROVE  kept
    <3>1. n \in Nat BY EntitlementsAssumption DEF Micros
    <3>2. CreditInv' BY <1>0, <2>1, <3>1, AuthorizeUsageKeeps
    <3>3. \A i \in Invocations : Undisturbed(i) BY <1>0, <2>1, AuthorizeDisturbsOne
    <3> QED BY <2>0, <3>2, <3>3
  <2>2. ASSUME NEW u \in Usages \ Invocations, NEW a \in Accounts, RecordUsageEvent(u, a)
        PROVE  kept
    <3>1. UNCHANGED <<account, grant, hold, allocation, journal>> BY <2>2 DEF RecordUsageEvent
    <3>2. usage \in [Usages -> UsageRows] BY DEF CreditInv, CreditTyped
    <3>3. /\ usage' \in [Usages -> UsageRows]
          /\ \A i \in Invocations : usage'[i] = usage[i]
      BY <1>0, <2>2, <3>2 DEF RecordUsageEvent, UsageRows
    <3>4. CreditInv' BY <3>1, <3>3, CreditKept
    <3>5. \A i \in Invocations : Undisturbed(i) BY <3>1, <3>3 DEF Undisturbed, DebitsOf
    <3> QED BY <2>0, <3>4, <3>5
  <2>3. ASSUME NEW h \in Direct, NEW u \in Usages \ Invocations, NEW n \in Micros,
               SettleUsage(h, u, usage, n)
        PROVE  kept
    <3>1. n \in Nat BY EntitlementsAssumption DEF Micros
    <3>2. usage \in [Usages -> UsageRows] BY DEF CreditInv, CreditTyped
    <3>3. CreditInv' BY <1>0, <2>3, <3>1, <3>2, SettleUsageKeeps
    <3>4. \A i \in Invocations : Undisturbed(i)
      BY <1>0, <2>3, <3>2, SettleDisturbsOne
    <3> QED BY <2>0, <3>3, <3>4
  <2>4. ASSUME NEW h \in Direct, ReleaseUsage(h)
        PROVE  kept
    <3>1. EndHolds({h}, "released") /\ {h} \in SUBSET ActiveHolds
      BY <1>0, <2>4 DEF ReleaseUsage, CanRelease, ActiveHolds
    <3>2. CreditInv' BY <3>1, EndHoldsKeeps
    <3>3. \A i \in Invocations : i \in Holds /\ i \notin {h} BY <1>0
    <3>4. \A i \in Invocations : Undisturbed(i) BY <3>1, <3>3, EndHoldsDisturbs
    <3> QED BY <2>0, <3>2, <3>4
  <2> QED BY <1>4, <2>1, <2>2, <2>3, <2>4 DEF DirectSteps
<1> QED BY <1>1, <1>2, <1>3, <1>4 DEF EntitlementSteps

-------------------------------------------------------------------------------
(* The types of admissions and receipts; no payload and no status is None. *)
StoryTyped ==
  /\ admission \in [Invocations -> [status : {"absent", "held", "captured", "released", "unknown"},
                                    amount : Prices \cup {0}]]
  /\ receipt \in [{"capture", "release"} -> [Invocations -> Payloads \cup {None}]]

(* A price is a number. *)
LEMMA PricesAreNatural ==
  ASSUME NEW n \in Prices \cup {0}
  PROVE  n \in Nat
<1>1. Prices \subseteq Nat BY AdmissionsAssumption
<1> QED BY <1>1

(* What steps may do to the status of an admission: an end is final. *)
Advances == \A i \in Invocations :
  admission[i].status \in {"captured", "released"} => admission'[i].status = admission[i].status

(* An admission that is not written keeps its story when its hold is left alone. *)
LEMMA AdmissionKept ==
  ASSUME CreditInv, NEW i \in Invocations, AdmissionOK(i), Undisturbed(i),
         admission'[i] = admission[i],
         receipt'["capture"][i] = receipt["capture"][i],
         receipt'["release"][i] = receipt["release"][i]
  PROVE  AdmissionOK(i)'
BY DEF AdmissionOK, Undisturbed

(* Nothing is said of a hold, an event or a debit of an admission that is not there. *)
LEMMA NoDebits ==
  ASSUME CreditInv, NEW i, hold[i].status # "captured"
  PROVE  DebitsOf(i) = {}
BY DEF CreditInv, EntryOK, DebitsOf

(***************************************************************************)
(* capture, as a call or for an event: the admission is captured after it, *)
(* with its hold, its usage event and one debit, or was before.            *)
(***************************************************************************)
LEMMA CaptureKeeps ==
  ASSUME Inv, NEW i \in Invocations, NEW payload \in Payloads, Capture(i, payload)
  PROVE  /\ CreditInv' /\ StoryTyped' /\ \A k \in Invocations : AdmissionOK(k)'
         /\ admission'[i].status = "captured" /\ Advances
<1> DEFINE over == Replays("capture", i, payload) \/ admission[i].status = "captured"
           n == admission[i].amount
<1>1. /\ CreditInv /\ StoryTyped /\ \A k \in Invocations : AdmissionOK(k)
      /\ payload # None /\ Prices \subseteq Nat
      /\ Invocations \subseteq Holds /\ Invocations \subseteq Usages
      /\ n \in Nat /\ usage \in [Usages -> UsageRows]
  <2>1. StoryTyped /\ CreditInv /\ \A k \in Invocations : AdmissionOK(k)
    BY DEF Inv, StoryInv, StoryTyped
  <2>2. usage \in [Usages -> UsageRows] BY <2>1 DEF CreditInv, CreditTyped
  <2>3. n \in Prices \cup {0} BY <2>1 DEF StoryTyped
  <2>4. n \in Nat BY <2>3, PricesAreNatural
  <2> HIDE DEF n
  <2> QED BY <2>1, <2>2, <2>4, AdmissionsAssumption
<1>2. /\ receipt' = [receipt EXCEPT !["capture"][i] = payload]
      /\ receipt' \in [{"capture", "release"} -> [Invocations -> Payloads \cup {None}]]
      /\ receipt'["capture"][i] = payload /\ receipt'["release"] = receipt["release"]
      /\ \A k \in Invocations \ {i} : receipt'["capture"][k] = receipt["capture"][k]
  BY <1>1 DEF Capture, StoryTyped
<1>3. CASE over
  <2>1. UNCHANGED <<creditVars, admission>> BY <1>3 DEF Capture
  <2>2. UNCHANGED <<account, grant, hold, allocation, usage, journal>> BY <2>1 DEF creditVars
  <2>3. CreditInv' BY <1>1, <2>2, CreditKept
  <2>4. \A k : Undisturbed(k) BY <2>2 DEF Undisturbed, DebitsOf
  <2>5. admission[i].status = "captured"
    BY <1>1, <1>3 DEF Replays, AdmissionOK
  <2>6. AdmissionOK(i)' BY <1>1, <1>2, <2>1, <2>2, <2>5 DEF AdmissionOK, DebitsOf
  <2>7. \A k \in Invocations \ {i} : AdmissionOK(k)'
    BY <1>1, <1>2, <2>1, <2>4, AdmissionKept
  <2> QED BY <1>1, <1>2, <2>1, <2>3, <2>5, <2>6, <2>7 DEF StoryTyped, Advances
<1>4. CASE ~over
  <2>1. /\ SettleUsage(i, i, EnsuredUsage(i), n)
        /\ MarkAdmission(i, "captured")
        /\ admission[i].status \in {"held", "unknown"}
        /\ CanEnsureUsage(i)
    BY <1>4 DEF Capture, CanCapture
  <2>2. /\ EnsuredUsage(i) \in [Usages -> UsageRows]
        /\ \A k \in Usages \ {i} : EnsuredUsage(i)[k] = usage[k]
    <3>1. hold[i].account \in Accounts \cup {None}
      BY <1>1, RowFields DEF CreditInv, HoldRows
    <3> QED BY <1>1, <3>1 DEF EnsuredUsage, UsageRows
  <2>3. CreditInv' BY <1>1, <2>1, <2>2, SettleUsageKeeps
  <2>4. \A k \in Invocations \ {i} : Undisturbed(k)
    BY <1>1, <2>1, <2>2, SettleDisturbsOne
  <2>5. /\ admission' = [admission EXCEPT ![i].status = "captured"]
        /\ admission'[i].status = "captured" /\ admission'[i].amount = n
        /\ \A k \in Invocations \ {i} : admission'[k] = admission[k]
        /\ admission' \in [Invocations -> [status : {"absent", "held", "captured", "released", "unknown"},
                                           amount : Prices \cup {0}]]
    BY <1>1, <2>1 DEF MarkAdmission, StoryTyped
  <2>6. \A k \in Invocations \ {i} : AdmissionOK(k)'
    BY <1>1, <1>2, <2>4, <2>5, AdmissionKept
  <2>7. hold[i].status = "active" /\ n > 0
    <3>1. hold[i].status = "active" BY <2>1 DEF SettleUsage, CanSettle
    <3>2. n # 0 BY <1>1, <3>1 DEF AdmissionOK
    <3> QED BY <1>1, <3>1, <3>2
  <2>8. /\ hold'[i].status = "captured" /\ hold'[i].captured = n
        /\ usage'[i].status = "settled" /\ usage'[i].hold = i
    <3>1. hold' = [hold EXCEPT ![i].status = "captured", ![i].captured = n]
          /\ usage' = [EnsuredUsage(i) EXCEPT ![i].status = "settled", ![i].hold = i]
      BY <2>1 DEF SettleUsage
    <3>2. hold[i] \in HoldRows /\ EnsuredUsage(i)[i] \in UsageRows /\ hold \in [Holds -> HoldRows]
      BY <1>1, <2>2, RowFields DEF CreditInv, CreditTyped
    <3>3. hold'[i] = [hold[i] EXCEPT !.status = "captured", !.captured = n]
          /\ usage'[i] = [EnsuredUsage(i)[i] EXCEPT !.status = "settled", !.hold = i]
      BY <1>1, <2>2, <3>1, <3>2
    <3> QED BY <3>2, <3>3 DEF HoldRows, UsageRows
  <2>9. {e.amount : e \in DebitsOf(i)'} = {-n}
    <3>1. DebitsOf(i) = {} BY <1>1, <2>7, NoDebits
    <3>2. PICK entry : entry = Entry(hold[i].account, "debit", -n, i) OBVIOUS
    <3>3. journal' = journal \cup {Entry(hold[i].account, "debit", -m, i) : m \in {n} \ {0}}
      BY <2>1 DEF SettleUsage
    <3>4. {n} \ {0} = {n} BY <2>7
    <3>5. journal' = journal \cup {entry} BY <3>2, <3>3, <3>4
    <3>6. entry.kind = "debit" /\ entry.source = i /\ entry.amount = -n BY <3>2 DEF Entry
    <3>7. DebitsOf(i)' = {entry} BY <3>1, <3>5, <3>6 DEF DebitsOf
    <3> QED BY <3>6, <3>7
  <2>10. receipt'["release"][i] = None
    <3>1. receipt["release"][i] = None BY <1>1, <2>1 DEF AdmissionOK
    <3> QED BY <1>2, <3>1
  <2>11. AdmissionOK(i)'
    BY <2>5, <2>7, <2>8, <2>9, <2>10 DEF AdmissionOK
  <2>12. Advances BY <2>1, <2>5 DEF Advances
  <2> QED BY <1>2, <2>3, <2>5, <2>6, <2>11, <2>12 DEF StoryTyped
<1> QED BY <1>3, <1>4

(* release, as a call or for an event: the admission is released after it with its hold. *)
LEMMA ReleaseKeeps ==
  ASSUME Inv, NEW i \in Invocations, NEW payload \in Payloads, Release(i, payload)
  PROVE  /\ CreditInv' /\ StoryTyped' /\ \A k \in Invocations : AdmissionOK(k)'
         /\ admission'[i].status = "released" /\ Advances
<1> DEFINE over == Replays("release", i, payload) \/ admission[i].status = "released"
<1>1. /\ CreditInv /\ StoryTyped /\ \A k \in Invocations : AdmissionOK(k)
      /\ payload # None /\ Prices \subseteq Nat /\ admission[i].amount \in Nat
      /\ Invocations \subseteq Holds
  <2>1. StoryTyped /\ CreditInv /\ \A k \in Invocations : AdmissionOK(k)
    BY DEF Inv, StoryInv, StoryTyped
  <2>2. admission[i].amount \in Prices \cup {0} BY <2>1 DEF StoryTyped
  <2>3. admission[i].amount \in Nat BY <2>2, PricesAreNatural
  <2> QED BY <2>1, <2>3, AdmissionsAssumption
<1>2. /\ receipt' = [receipt EXCEPT !["release"][i] = payload]
      /\ receipt' \in [{"capture", "release"} -> [Invocations -> Payloads \cup {None}]]
      /\ receipt'["release"][i] = payload /\ receipt'["capture"] = receipt["capture"]
      /\ \A k \in Invocations \ {i} : receipt'["release"][k] = receipt["release"][k]
  BY <1>1 DEF Release, StoryTyped
<1>3. CASE over
  <2>1. UNCHANGED <<creditVars, admission>> BY <1>3 DEF Release
  <2>2. UNCHANGED <<account, grant, hold, allocation, usage, journal>> BY <2>1 DEF creditVars
  <2>3. CreditInv' BY <1>1, <2>2, CreditKept DEF CreditInv, CreditTyped
  <2>4. \A k : Undisturbed(k) BY <2>2 DEF Undisturbed, DebitsOf
  <2>5. admission[i].status = "released"
    BY <1>1, <1>3 DEF Replays, AdmissionOK
  <2>6. AdmissionOK(i)' BY <1>1, <1>2, <2>1, <2>2, <2>5 DEF AdmissionOK, DebitsOf
  <2>7. \A k \in Invocations \ {i} : AdmissionOK(k)'
    BY <1>1, <1>2, <2>1, <2>4, AdmissionKept
  <2> QED BY <1>1, <1>2, <2>1, <2>3, <2>5, <2>6, <2>7 DEF StoryTyped, Advances
<1>4. CASE ~over
  <2>1. /\ EndHolds({i}, "released") /\ hold[i].status = "active"
        /\ MarkAdmission(i, "released")
        /\ admission[i].status \in {"held", "unknown"}
    BY <1>4 DEF Release, CanReleaseAdmission, ReleaseUsage, CanRelease
  <2>2. {i} \in SUBSET ActiveHolds /\ \A k \in Invocations \ {i} : k \in Holds /\ k \notin {i}
    BY <1>1, <2>1 DEF ActiveHolds
  <2>3. CreditInv' BY <1>1, <2>1, <2>2, EndHoldsKeeps
  <2>4. \A k \in Invocations \ {i} : Undisturbed(k)
    BY <1>1, <2>1, <2>2, EndHoldsDisturbs
  <2>5. /\ admission' = [admission EXCEPT ![i].status = "released"]
        /\ admission'[i].status = "released" /\ admission'[i].amount = admission[i].amount
        /\ \A k \in Invocations \ {i} : admission'[k] = admission[k]
        /\ admission' \in [Invocations -> [status : {"absent", "held", "captured", "released", "unknown"},
                                           amount : Prices \cup {0}]]
    BY <1>1, <2>1 DEF MarkAdmission, StoryTyped
  <2>6. \A k \in Invocations \ {i} : AdmissionOK(k)'
    BY <1>1, <1>2, <2>4, <2>5, AdmissionKept
  <2>7. admission[i].amount > 0
    <3>1. admission[i].amount # 0 BY <1>1, <2>1 DEF AdmissionOK
    <3> QED BY <1>1, <3>1
  <2>8. hold'[i].status = "released"
    <3>1. hold'[i] = [hold[i] EXCEPT !.status = "released"] BY <1>1, <2>1 DEF EndHolds
    <3>2. hold[i] \in HoldRows BY <1>1, RowFields DEF CreditInv
    <3> QED BY <3>1, <3>2 DEF HoldRows
  <2>9. receipt'["capture"][i] = None
    <3>1. receipt["capture"][i] = None BY <1>1, <2>1 DEF AdmissionOK
    <3> QED BY <1>2, <3>1
  <2>10. AdmissionOK(i)'
    BY <2>5, <2>7, <2>8, <2>9 DEF AdmissionOK
  <2>11. Advances BY <2>1, <2>5 DEF Advances
  <2> QED BY <1>2, <2>3, <2>5, <2>6, <2>10, <2>11 DEF StoryTyped
<1> QED BY <1>3, <1>4

(* An event that is not written keeps its word: the end of an admission is final. *)
LEMMA EventsKept ==
  ASSUME Inv, StoryTyped', Advances, UNCHANGED event
  PROVE  \A e \in Events : EventOK(e)'
<1>1. \A e \in Events : EventOK(e) /\ EventOf[e] \in Invocations
  BY AdmissionsAssumption DEF Inv, StoryInv
<1> QED BY <1>1 DEF EventOK, Advances

(* A step of the entitlements alone leaves every story as it is told. *)
LEMMA EntitlementStepsKeepInv ==
  ASSUME Inv, EntitlementSteps
  PROVE  Inv'
<1>1. CreditInv /\ RestTyped /\ \A i \in Invocations : AdmissionOK(i)
  BY DEF Inv, StoryInv
<1>2. UNCHANGED <<admission, receipt, event>> BY DEF EntitlementSteps, admissionVars
<1>3. CreditInv' /\ RestTyped' /\ \A i \in Invocations : Undisturbed(i)
  BY <1>1, EntitlementStepsKeep
<1>4. \A i \in Invocations : AdmissionOK(i)' BY <1>1, <1>2, <1>3, AdmissionKept
<1>5. \A e \in Events : EventOK(e)' BY <1>2 DEF Inv, StoryInv, EventOK
<1>6. StoryInv' BY <1>2, <1>4, <1>5 DEF Inv, StoryInv
<1> QED BY <1>3, <1>6 DEF Inv

(* An admission begins with its hold, or free and captured. *)
LEMMA CreateAdmissionKeeps ==
  ASSUME Inv, NEW i \in Invocations, NEW a \in Accounts, NEW n \in Prices,
         CreateAdmission(i, a, n)
  PROVE  Inv'
<1>1. /\ CreditInv /\ RestTyped /\ StoryTyped /\ \A k \in Invocations : AdmissionOK(k)
      /\ n \in Nat /\ Invocations \subseteq Holds
  <2>1. n \in Nat BY PricesAreNatural
  <2> QED BY <2>1, AdmissionsAssumption DEF Inv, StoryInv, StoryTyped
<1>2. /\ admission[i].status = "absent" /\ admission[i].amount = 0 /\ hold[i].status = "absent"
      /\ receipt["capture"][i] = None /\ receipt["release"][i] = None
      /\ UNCHANGED <<now, redeemVars, receipt, event>>
  BY <1>1 DEF CreateAdmission, AdmissionOK
<1>3. RestTyped' BY <1>1, <1>2 DEF RestTyped, redeemVars
<1>4. CASE n = 0
  <2>1. /\ admission' = [admission EXCEPT ![i].status = "captured"]
        /\ UNCHANGED <<account, grant, hold, allocation, usage, journal>>
    BY <1>4 DEF CreateAdmission, AdmitFree, creditVars
  <2>2. CreditInv' BY <1>1, <2>1, CreditKept DEF CreditInv, CreditTyped
  <2>3. \A k \in Invocations : Undisturbed(k) BY <2>1 DEF Undisturbed, DebitsOf
  <2>4. /\ admission'[i].status = "captured" /\ admission'[i].amount = 0
        /\ \A k \in Invocations \ {i} : admission'[k] = admission[k]
        /\ StoryTyped'
    BY <1>1, <1>2, <2>1 DEF StoryTyped
  <2>5. AdmissionOK(i)' BY <1>2, <2>1, <2>4 DEF AdmissionOK
  <2>6. \A k \in Invocations \ {i} : AdmissionOK(k)'
    BY <1>1, <1>2, <2>3, <2>4, AdmissionKept
  <2>7. Advances BY <1>2, <2>4 DEF Advances
  <2>8. \A e \in Events : EventOK(e)' BY <1>2, <2>4, <2>7, EventsKept
  <2>9. StoryInv'
    BY <1>2, <2>4, <2>5, <2>6, <2>8 DEF Inv, StoryInv, StoryTyped
  <2> QED BY <1>3, <2>2, <2>9 DEF Inv
<1>5. CASE n # 0
  <2>1. /\ AuthorizeUsage(i, a, n)
        /\ admission' = [admission EXCEPT ![i] = [status |-> "held", amount |-> n]]
    BY <1>5 DEF CreateAdmission, AdmitAgainstHold
  <2>2. CreditInv'
    <3>1. now \in Nat BY <1>1, Given DEF RestTyped
    <3> QED BY <1>1, <2>1, <3>1, AuthorizeUsageKeeps
  <2>3. \A k \in Invocations \ {i} : Undisturbed(k) BY <1>1, <2>1, AuthorizeDisturbsOne
  <2>4. /\ admission'[i].status = "held" /\ admission'[i].amount = n
        /\ \A k \in Invocations \ {i} : admission'[k] = admission[k]
        /\ StoryTyped'
    BY <1>1, <1>2, <2>1 DEF StoryTyped
  <2>5. hold'[i].status = "active"
    <3>1. hold'[i] = [NoHold EXCEPT !.status = "active", !.account = a, !.requested = n,
                                   !.expires = now + Ttl]
      BY <1>1, <2>1 DEF AuthorizeUsage, CreditInv, CreditTyped
    <3> QED BY <3>1 DEF NoHold
  <2>6. AdmissionOK(i)' BY <1>1, <1>2, <1>5, <2>4, <2>5 DEF AdmissionOK
  <2>7. \A k \in Invocations \ {i} : AdmissionOK(k)'
    BY <1>1, <1>2, <2>3, <2>4, AdmissionKept
  <2>8. Advances BY <1>2, <2>4 DEF Advances
  <2>9. \A e \in Events : EventOK(e)' BY <1>2, <2>4, <2>8, EventsKept
  <2>10. StoryInv'
    BY <1>2, <2>4, <2>6, <2>7, <2>9 DEF Inv, StoryInv, StoryTyped
  <2> QED BY <1>3, <2>2, <2>10 DEF Inv
<1> QED BY <1>4, <1>5

(* A call of capture or release keeps the books and the stories. *)
LEMMA CallsKeep ==
  ASSUME Inv, NEW i \in Invocations, NEW p \in Payloads, CallCapture(i, p) \/ CallRelease(i, p)
  PROVE  Inv'
<1>1. (Capture(i, p) \/ Release(i, p)) /\ UNCHANGED <<now, redeemVars, event>>
  BY DEF CallCapture, CallRelease
<1>2. CreditInv' /\ StoryTyped' /\ (\A k \in Invocations : AdmissionOK(k)') /\ Advances
  BY <1>1, CaptureKeeps, ReleaseKeeps
<1>3. RestTyped' BY <1>1 DEF Inv, RestTyped, redeemVars
<1>4. \A e \in Events : EventOK(e)' BY <1>1, <1>2, EventsKept
<1>5. StoryInv' BY <1>1, <1>2, <1>4 DEF Inv, StoryInv, StoryTyped
<1> QED BY <1>2, <1>3, <1>5 DEF Inv

(* An event is recorded before it says anything of its admission. *)
LEMMA RecordExecutionEventKeeps ==
  ASSUME Inv, NEW e \in Events, NEW kind \in Kinds, NEW p \in Payloads,
         RecordExecutionEvent(e, kind, p)
  PROVE  Inv'
<1>1. /\ event' = [event EXCEPT ![e] = [status |-> "received", kind |-> kind, payload |-> p]]
      /\ UNCHANGED <<now, account, grant, hold, allocation, usage, journal, code, campaign,
                     admission, receipt>>
  BY DEF RecordExecutionEvent, entitlementVars, creditVars, redeemVars
<1>2. CreditInv' BY <1>1, CreditKept DEF Inv, CreditInv, CreditTyped
<1>3. RestTyped' BY <1>1 DEF Inv, RestTyped
<1>4. \A k \in Invocations : AdmissionOK(k)'
  BY <1>1 DEF Inv, StoryInv, AdmissionOK, DebitsOf
<1>5. event' \in [Events -> [status : {"absent", "received", "processed"}, kind : Kinds \cup {"none"},
                             payload : Payloads \cup {None}]]
  BY <1>1 DEF Inv, StoryInv
<1>6. \A k \in Events : EventOK(k)' BY <1>1 DEF Inv, StoryInv, EventOK
<1>7. StoryInv' BY <1>1, <1>4, <1>5, <1>6 DEF Inv, StoryInv
<1> QED BY <1>2, <1>3, <1>7 DEF Inv

(***************************************************************************)
(* An event is processed in one transaction with its effect: an accepted   *)
(* one captures, a rejected one releases, an unknown one only marks, and   *)
(* what had been processed before stays true.                              *)
(***************************************************************************)
LEMMA ProcessExecutionEventKeeps ==
  ASSUME Inv, NEW e \in Events, ProcessExecutionEvent(e), UNCHANGED <<now, redeemVars>>
  PROVE  Inv'
<1> DEFINE i == EventOf[e]
           effective == /\ event[e].kind = "accepted" => admission'[i].status = "captured"
                        /\ event[e].kind = "rejected" => admission'[i].status = "released"
           kept == CreditInv' /\ StoryTyped' /\ (\A k \in Invocations : AdmissionOK(k)') /\ Advances
<1>1. /\ CreditInv /\ StoryTyped /\ \A k \in Invocations : AdmissionOK(k)
      /\ \A k \in Events : EventOK(k)
      /\ event \in [Events -> [status : {"absent", "received", "processed"}, kind : Kinds \cup {"none"},
                               payload : Payloads \cup {None}]]
  BY DEF Inv, StoryInv, StoryTyped
<1>2. /\ event[e].status = "received" /\ event[e].payload \in Payloads
      /\ admission[i].status # "absent"
  BY <1>1 DEF ProcessExecutionEvent, CanProcess, EventOK
<1>3. \A k \in Events : EventOf[k] \in Invocations BY AdmissionsAssumption
<1>4. i \in Invocations BY <1>3
<1>5. event' = [event EXCEPT ![e].status = "processed"] /\ Effect(e)
  BY DEF ProcessExecutionEvent
<1>6. kept /\ effective
  <2>1. CASE event[e].kind = "accepted"
    <3>1. Capture(i, event[e].payload) BY <1>5, <2>1 DEF Effect
    <3> QED BY <1>2, <1>4, <2>1, <3>1, CaptureKeeps
  <2>2. CASE event[e].kind = "rejected"
    <3>1. Release(i, event[e].payload) BY <1>5, <2>2 DEF Effect
    <3> QED BY <1>2, <1>4, <2>2, <3>1, ReleaseKeeps
  <2>3. CASE event[e].kind = "unknown" /\ admission[i].status = "held"
    <3>1. /\ MarkAdmission(i, "unknown") /\ UNCHANGED <<creditVars, receipt>>
      BY <1>5, <2>3 DEF Effect
    <3>2. /\ admission' = [admission EXCEPT ![i].status = "unknown"]
          /\ UNCHANGED <<account, grant, hold, allocation, usage, journal, receipt>>
      BY <3>1 DEF MarkAdmission, creditVars
    <3>3. CreditInv' BY <1>1, <3>2, CreditKept DEF CreditInv, CreditTyped
    <3>4. /\ admission'[i].status = "unknown" /\ admission'[i].amount = admission[i].amount
          /\ \A k \in Invocations \ {i} : admission'[k] = admission[k]
          /\ StoryTyped'
      BY <1>1, <1>4, <3>2 DEF StoryTyped
    <3>5. \A k \in Invocations : Undisturbed(k) BY <3>2 DEF Undisturbed, DebitsOf
    <3>6. \A k \in Invocations \ {i} : AdmissionOK(k)'
      BY <1>1, <3>2, <3>4, <3>5, AdmissionKept
    <3>7. AdmissionOK(i)'
      <4>1. admission[i].amount \in Nat /\ admission[i].amount # 0
        <5>1. admission[i].amount \in Prices \cup {0} BY <1>1, <1>4 DEF StoryTyped
        <5>2. admission[i].amount \in Nat BY <5>1, PricesAreNatural
        <5> QED BY <1>1, <1>4, <2>3, <5>2 DEF AdmissionOK
      <4>2. hold[i].status \in {"active", "expired"}
        BY <1>1, <1>4, <2>3, <4>1 DEF AdmissionOK
      <4>3. receipt["capture"][i] = None /\ receipt["release"][i] = None
        BY <1>1, <1>4, <2>3 DEF AdmissionOK
      <4> QED BY <3>2, <3>4, <4>1, <4>2, <4>3 DEF AdmissionOK
    <3>8. Advances BY <2>3, <3>4 DEF Advances
    <3> QED BY <2>3, <3>3, <3>4, <3>6, <3>7, <3>8
  <2>4. CASE /\ event[e].kind \notin {"accepted", "rejected"}
             /\ ~(event[e].kind = "unknown" /\ admission[i].status = "held")
    <3>1. UNCHANGED <<account, grant, hold, allocation, usage, journal, admission, receipt>>
      BY <1>5, <2>4 DEF Effect, creditVars
    <3>2. CreditInv' BY <1>1, <3>1, CreditKept DEF CreditInv, CreditTyped
    <3>3. \A k \in Invocations : AdmissionOK(k)' BY <1>1, <3>1 DEF AdmissionOK, DebitsOf
    <3>4. StoryTyped' /\ Advances BY <1>1, <3>1 DEF StoryTyped, Advances
    <3> QED BY <2>4, <3>2, <3>3, <3>4
  <2> QED BY <2>1, <2>2, <2>3, <2>4
<1>7. /\ event'[e].kind = event[e].kind /\ event'[e].payload = event[e].payload
      /\ \A k \in Events \ {e} : event'[k] = event[k]
      /\ event' \in [Events -> [status : {"absent", "received", "processed"}, kind : Kinds \cup {"none"},
                                payload : Payloads \cup {None}]]
  BY <1>1, <1>5
<1>8. EventOK(e)' BY <1>1, <1>2, <1>6, <1>7 DEF EventOK
<1>9. \A k \in Events \ {e} : EventOK(k)' BY <1>1, <1>3, <1>6, <1>7 DEF EventOK, Advances
<1>10. RestTyped' BY DEF Inv, RestTyped, redeemVars
<1>11. StoryInv' BY <1>6, <1>7, <1>8, <1>9 DEF StoryInv, StoryTyped
<1> QED BY <1>6, <1>10, <1>11 DEF Inv

(* Nothing of the invariant changes while the batch script only looks at its rows. *)
LEMMA InvKept ==
  ASSUME Inv, UNCHANGED <<now, account, grant, hold, allocation, usage, journal, code, campaign,
                          admission, receipt, event>>
  PROVE  Inv'
<1>1. CreditInv' BY CreditKept DEF Inv, CreditInv, CreditTyped
<1>2. RestTyped' BY DEF Inv, RestTyped
<1>3. /\ StoryTyped'
      /\ event' \in [Events -> [status : {"absent", "received", "processed"}, kind : Kinds \cup {"none"},
                                payload : Payloads \cup {None}]]
  BY DEF Inv, StoryInv, StoryTyped
<1>4. \A i \in Invocations : AdmissionOK(i)' BY Zenon DEF Inv, StoryInv, AdmissionOK, DebitsOf
<1>5. \A e \in Events : EventOK(e)' BY Zenon DEF Inv, StoryInv, EventOK
<1>6. StoryInv' BY <1>3, <1>4, <1>5 DEF StoryInv, StoryTyped
<1> QED BY <1>1, <1>2, <1>6 DEF Inv

(* Before anything is admitted there is nothing to match. *)
LEMMA InitInv == Init => Inv
<1> SUFFICES ASSUME Init PROVE Inv
  OBVIOUS
<1>1. CreditInv /\ RestTyped BY InitCredit DEF Init
<1>2. hold = [h \in Holds |-> NoHold] /\ Invocations \subseteq Holds
  BY AdmissionsAssumption DEF Init, EntitlementsInit
<1>3. \A i \in Invocations : AdmissionOK(i)
  BY <1>2 DEF Init, AdmissionOK, NoAdmission, NoHold
<1>4. \A e \in Events : EventOK(e) BY DEF Init, EventOK, NoEvent
<1>5. StoryInv BY <1>3, <1>4 DEF Init, StoryInv, NoAdmission, NoEvent
<1> QED BY <1>1, <1>5 DEF Inv

(* Every step of the service, of its workers and of the clock keeps the invariant. *)
LEMMA NextInv == Inv /\ [Next]_vars => Inv'
<1> SUFFICES ASSUME Inv, [Next]_vars PROVE Inv'
  OBVIOUS
<1>1. CASE EntitlementSteps BY <1>1, EntitlementStepsKeepInv
<1>2. ASSUME NEW i \in Invocations, NEW a \in Accounts, NEW n \in Prices, CreateAdmission(i, a, n)
      PROVE  Inv'
  BY <1>2, CreateAdmissionKeeps
<1>3. ASSUME NEW i \in Invocations, NEW p \in Payloads, CallCapture(i, p) \/ CallRelease(i, p)
      PROVE  Inv'
  BY <1>3, CallsKeep
<1>4. ASSUME NEW e \in Events, NEW k \in Kinds, NEW p \in Payloads, RecordExecutionEvent(e, k, p)
      PROVE  Inv'
  BY <1>4, RecordExecutionEventKeeps
<1>5. ASSUME NEW w \in Workers, StartPass(w) \/ CrashPass(w)
      PROVE  Inv'
  BY <1>5, InvKept DEF StartPass, CrashPass, entitlementVars, creditVars, redeemVars
<1>6. ASSUME NEW w \in Workers, NEW e \in Events, StepPass(w, e)
      PROVE  Inv'
  <2>1. UNCHANGED <<now, redeemVars>> BY <1>6 DEF StepPass
  <2>2. CASE CanProcess(e)
    <3>1. ProcessExecutionEvent(e) BY <1>6, <2>2 DEF StepPass
    <3> QED BY <2>1, <3>1, ProcessExecutionEventKeeps
  <2>3. CASE ~CanProcess(e)
    <3>1. UNCHANGED <<creditVars, admission, receipt, event>> BY <1>6, <2>3 DEF StepPass
    <3> QED BY <2>1, <3>1, InvKept DEF creditVars, redeemVars
  <2> QED BY <2>2, <2>3
<1>7. CASE UNCHANGED vars
  BY <1>7, InvKept DEF vars, admissionVars, entitlementVars, creditVars, redeemVars
<1> QED BY <1>1, <1>2, <1>3, <1>4, <1>5, <1>6, <1>7 DEF Next

-------------------------------------------------------------------------------
(* The invariant holds in every state of every behaviour. *)
THEOREM Invariant == Spec => []Inv
BY InitInv, NextInv, PTL DEF Spec

(* The tables of the entitlements always have their types. *)
THEOREM TablesAreTyped == Spec => []EntitlementsTypeOK
<1>1. Inv => EntitlementsTypeOK BY TypeIs DEF Inv, CreditInv
<1> QED BY <1>1, Invariant, PTL

(***************************************************************************)
(* What reconciliation would compute is what the invariant says: for the   *)
(* allocations too, since an active hold has reserved all it requested.    *)
(***************************************************************************)
LEMMA InvImpliesDrift == Inv => DriftIsExplained
<1> SUFFICES ASSUME Inv PROVE DriftIsExplained
  OBVIOUS
<1>1. CreditInv BY DEF Inv
<1>2. ASSUME NEW a \in Accounts PROVE a \in AccountDrifts <=> Unbooked(a) # 0
  <2> DEFINE rows == [h \in Holds |-> Sum(Grants, [g \in Grants |-> Open(h, g)])]
  <2>1. AccountOK(a) BY <1>1 DEF CreditInv
  <2>2. ASSUME NEW h \in HoldsOf(a) PROVE Requested[h] = rows[h]
    <3>1. h \in Holds /\ h \in ActiveHolds /\ hold[h].status = "active"
      BY DEF HoldsOf, ActiveHolds
    <3>2. Sum(Grants, Rows(h)) = hold[h].requested BY <1>1, <3>1 DEF CreditInv, HoldOK
    <3>3. \A g \in Grants : Open(h, g) = Rows(h)[g]
      BY <1>1, <3>1, SumsAreFinite DEF Rows
    <3>4. \A g \in Grants : [k \in Grants |-> Open(h, k)][g] = Rows(h)[g] BY <3>3
    <3>5. Sum(Grants, [k \in Grants |-> Open(h, k)]) = Sum(Grants, Rows(h))
      BY <3>4, SumEqual
    <3>6. rows[h] = hold[h].requested BY <3>1, <3>2, <3>5
    <3> QED BY <3>1, <3>6 DEF Requested
  <2>3. Sum(HoldsOf(a), Requested) = Sum(HoldsOf(a), rows) BY <2>2, SumEqual
  <2>4. account[a].held = Sum(HoldsOf(a), rows) BY <2>1, <2>3 DEF AccountOK
  <2>5. a \in AccountDrifts
          <=> account[a].available + account[a].held # Sum(GrantsOf(a), Remaining)
    BY <2>1, <2>4
       DEF AccountDrifts, AccountOK, HoldsOf, Requested, Remaining, Credited, Debited
  <2>6. /\ account[a].available \in Nat /\ account[a].held \in Nat /\ Unbooked(a) \in Nat
        /\ account[a].available + account[a].held + Unbooked(a) = Sum(GrantsOf(a), Remaining)
    BY <1>1, <2>1, RowFields, UnbookedTyped DEF CreditInv, AccountOK
  <2> QED BY <2>5, <2>6
<1>3. ASSUME NEW a \in Accounts PROVE Unbooked(a) # 0 <=> Uncredited(a) # {}
  <2>1. Uncredited(a) = {} => Unbooked(a) = 0 BY SumEmpty DEF Unbooked
  <2>2. ASSUME NEW g \in Uncredited(a) PROVE Unbooked(a) > 0
    <3>1. /\ IsFiniteSet(Uncredited(a)) /\ Unbooked(a) \in Nat
          /\ \A k \in Uncredited(a) : Original[k] \in Nat
          /\ Original[g] = grant[g].original
      BY <1>1, UnbookedTyped DEF GrantsOf
    <3>2. Original[g] > 0 BY <1>1, <3>1 DEF CreditInv, IssueOK, Uncredited, GrantsOf
    <3>3. Original[g] <= Sum(Uncredited(a), Original) BY <3>1, SumBoundsRow
    <3> QED BY <3>1, <3>2, <3>3 DEF Unbooked
  <2> QED BY <2>1, <2>2
<1>4. ASSUME NEW a \in Accounts
      PROVE  /\ account[a].available >= 0
             /\ account[a].available + account[a].held + Unbooked(a) = Sum(GrantsOf(a), Remaining)
  <2>1. account[a].available \in Nat BY <1>1, RowFields DEF CreditInv
  <2>2. AccountOK(a) BY <1>1 DEF CreditInv
  <2> QED BY <2>1, <2>2 DEF AccountOK
<1> QED BY <1>2, <1>3, <1>4 DEF DriftIsExplained, Unbooked, Original, Remaining

(***************************************************************************)
(* The books drift by what was granted for a period that another program   *)
(* had been granted before and by nothing else, and no account is overdrawn. *)
(***************************************************************************)
THEOREM DriftIsAlwaysExplained == Spec => []DriftIsExplained
BY InvImpliesDrift, Invariant, PTL

(* What the invariant says of admissions and of processed events. *)
LEMMA InvImpliesStories == Inv => AdmissionsMatchHolds /\ ProcessedEventsHold
<1> SUFFICES ASSUME Inv PROVE AdmissionsMatchHolds /\ ProcessedEventsHold
  OBVIOUS
<1>1. ASSUME NEW i \in Invocations
      PROVE  /\ admission[i].amount \in Nat /\ AdmissionOK(i)
             /\ hold[i].status # "captured" => DebitsOf(i) = {}
  <2>1. admission[i].amount \in Prices \cup {0} BY DEF Inv, StoryInv
  <2>2. admission[i].amount \in Nat BY <2>1, PricesAreNatural
  <2>3. CreditInv /\ AdmissionOK(i) BY DEF Inv, StoryInv
  <2> QED BY <2>2, <2>3, NoDebits
<1>2. AdmissionsMatchHolds BY <1>1 DEF AdmissionsMatchHolds, AdmissionOK, DebitsOf
<1>3. ProcessedEventsHold BY DEF Inv, StoryInv, EventOK, ProcessedEventsHold
<1> QED BY <1>2, <1>3

(* An admission and its hold never tell different stories. *)
THEOREM AdmissionsAlwaysMatchHolds == Spec => []AdmissionsMatchHolds
BY InvImpliesStories, Invariant, PTL

(* An event that has been processed has had its way, and keeps it. *)
THEOREM ProcessedEventsAlwaysHold == Spec => []ProcessedEventsHold
BY InvImpliesStories, Invariant, PTL

(* What the invariant says of the reservations of an account. *)
LEMMA InvImpliesBacked == Inv => ReservationsAreBacked
<1> SUFFICES ASSUME Inv, NEW h \in ActiveHolds, ~Refunded(h), NEW g \in Grants,
                    allocation[h][g].held > 0
             PROVE  Reserved(g) <= grant[g].remaining
  BY DEF ReservationsAreBacked
<1>1. GrantOK(g) /\ grant[g].reversed \in Nat
  <2>1. GrantOK(g) /\ CreditTyped BY DEF Inv, CreditInv
  <2>2. grant[g] \in GrantRows BY <2>1, RowFields
  <2> QED BY <2>1, <2>2 DEF GrantRows
<1>2. ~(grant[g].reversed > 0) BY DEF Refunded
<1>3. grant[g].reversed = 0 BY <1>1, <1>2
<1> QED BY <1>1, <1>3 DEF GrantOK

(* As long as no refund has touched its grants, an active hold can be captured from them. *)
THEOREM ReservationsAreAlwaysBacked == Spec => []ReservationsAreBacked
BY InvImpliesBacked, Invariant, PTL
===============================================================================
