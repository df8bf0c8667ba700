--------------------------- MODULE CreditLedgerProofs --------------------------
(***************************************************************************)
(* Proofs about the credit ledger, for any number of accounts, grants and  *)
(* holds, any bounds on amounts and time, and any skew of the clocks.      *)
(*                                                                         *)
(* The type invariant is not inductive alone: that an expiring grant keeps *)
(* an amount of its type, and leaves the account non-negative, needs       *)
(* GrantsCoverHolds, and that one needs that the rows of active holds are  *)
(* untouched and that a grant row that does not exist has no amount. Cover *)
(* is the conjunction of these, and proves HoldsAreBacked and that finished *)
(* holds are final.                                                        *)
(*                                                                         *)
(* What the ledger's sums say needs more: that the rows of each hold add up *)
(* to what the hold says, that no hold reserves of a grant that is missing *)
(* or pending, and that only expired grants have an expiry in the journal. *)
(* Books is Cover and these. From Books follow, in this order, that the    *)
(* available balance is what the grants have free (AvailableIsFreeCredit), *)
(* that the ledger never locks itself (NeverCorrupt), that no micro is lost *)
(* (LotConserved), that credit is taken in burn order, and that debits are *)
(* captures.                                                               *)
(*                                                                         *)
(* Readers change nothing of the ledger, so what is true of it is true for *)
(* them: on top of Books, every journal is numbered without a gap and      *)
(* covers what its grants still have, and from that follows that pages are *)
(* the history.                                                            *)
(***************************************************************************)
EXTENDS CreditReads, CreditAmountsProofs

\* An active hold has an account, and its allocations are as reserve wrote them.
ActiveUntouched ==
  \A h \in ActiveHolds :
    /\ hold[h].account \in Accounts
    /\ \A g \in Grants : allocation[h][g].captured = 0 /\ allocation[h][g].released = 0

AbsentIsEmpty == \A g \in Grants : grant[g].status = "absent" => grant[g].original = 0

Cover ==
  /\ TypeOK /\ IsFiniteSet(journal)
  /\ ActiveUntouched /\ AbsentIsEmpty /\ GrantsCoverHolds

-------------------------------------------------------------------------------
(***************************************************************************)
(* What active holds reserve of a grant, step by step.                     *)
(***************************************************************************)
LEMMA HoldsFinite ==
  \A S \in SUBSET Holds : IsFiniteSet(S)
BY LedgerAssumption, FS_Subset

(* So is every set of grants.                                              *)
LEMMA GrantsFinite ==
  \A S \in SUBSET Grants : IsFiniteSet(S)
BY LedgerAssumption, FS_Subset

(* An active hold reserves of each grant what it was allocated, a natural. *)
LEMMA OpenIsHeld ==
  ASSUME TypeOK, ActiveUntouched, NEW h \in ActiveHolds, NEW g \in Grants
  PROVE  Open(h, g) = allocation[h][g].held /\ Open(h, g) \in Nat
<1>1. /\ allocation[h][g].held \in Nat
      /\ allocation[h][g].captured = 0 /\ allocation[h][g].released = 0
  BY LedgerAssumption DEF TypeOK, AllocationRows, ActiveUntouched, ActiveHolds, Micros
<1> QED BY <1>1 DEF Open

(* What is reserved of a grant is a natural.                               *)
LEMMA ReservedNat ==
  ASSUME TypeOK, ActiveUntouched, NEW g \in Grants
  PROVE  Reserved(g) \in Nat
<1>1. IsFiniteSet(ActiveHolds)
  BY HoldsFinite DEF ActiveHolds
<1>2. \A h \in ActiveHolds : [k \in Holds |-> Open(k, g)][h] \in Int
  BY OpenIsHeld DEF ActiveHolds
<1> QED BY <1>1, <1>2, SumType DEF Reserved

(* A step that leaves holds and allocations alone reserves what it did.    *)
LEMMA ReservedKept ==
  ASSUME UNCHANGED <<hold, allocation>>, NEW g \in Grants
  PROVE  Reserved(g)' = Reserved(g)
<1>1. ActiveHolds' = ActiveHolds
  BY DEF ActiveHolds
<1>2. \A h \in ActiveHolds :
        [k \in Holds |-> Open(k, g)']  [h] = [k \in Holds |-> Open(k, g)][h]
  BY DEF Open, ActiveHolds
<1>3. Sum(ActiveHolds, [k \in Holds |-> Open(k, g)'])
        = Sum(ActiveHolds, [k \in Holds |-> Open(k, g)])
  BY <1>2, SumEqual
<1> QED BY <1>1, <1>3 DEF Reserved

(* A new hold adds its allocation of a grant to what is reserved of it.    *)
LEMMA ReservedGrows ==
  ASSUME TypeOK, ActiveUntouched, NEW h \in Holds, hold[h].status = "absent",
         hold'[h].status = "active", NEW g \in Grants,
         \A k \in Holds \ {h} : hold'[k] = hold[k] /\ allocation'[k] = allocation[k],
         allocation'[h][g].held \in Nat,
         allocation'[h][g].captured = 0, allocation'[h][g].released = 0
  PROVE  Reserved(g)' = Reserved(g) + allocation'[h][g].held
<1> DEFINE f == [k \in Holds |-> Open(k, g)]
           f1 == [k \in Holds |-> Open(k, g)']
<1>1. ActiveHolds' \ {h} = ActiveHolds /\ h \in ActiveHolds' /\ h \notin ActiveHolds
  BY DEF ActiveHolds
<1>2. \A k \in ActiveHolds : f1[k] = f[k] /\ f[k] \in Nat
  <2> TAKE k \in ActiveHolds
  <2>1. allocation'[k] = allocation[k]
    BY <1>1 DEF ActiveHolds
  <2>2. Open(k, g)' = Open(k, g)
    BY <2>1 DEF Open
  <2> QED BY <2>2, OpenIsHeld DEF ActiveHolds
<1>3. f1[h] = allocation'[h][g].held
  BY DEF Open
<1>4. \A k \in ActiveHolds' : f1[k] \in Nat
  BY <1>1, <1>2, <1>3
<1>5. IsFiniteSet(ActiveHolds')
  BY HoldsFinite DEF ActiveHolds
<1> HIDE DEF f, f1
<1>6. Sum(ActiveHolds', f1) = f1[h] + Sum(ActiveHolds' \ {h}, f1)
  BY <1>1, <1>4, <1>5, SumRemove
<1>7. Sum(ActiveHolds, f1) = Sum(ActiveHolds, f)
  BY <1>2, SumEqual
<1>8. Reserved(g)' = Sum(ActiveHolds', f1) /\ Reserved(g) = Sum(ActiveHolds, f)
  BY DEF Reserved, f, f1
<1>9. Reserved(g) \in Nat
  BY ReservedNat
<1>10. Sum(ActiveHolds' \ {h}, f1) = Reserved(g)
  BY <1>1, <1>7, <1>8
<1> QED BY <1>3, <1>6, <1>8, <1>9, <1>10

(* A finished hold takes its allocation of a grant off what is reserved.   *)
LEMMA ReservedShrinks ==
  ASSUME TypeOK, ActiveUntouched, NEW h \in ActiveHolds, hold'[h].status # "active",
         NEW g \in Grants,
         \A k \in Holds \ {h} : hold'[k] = hold[k] /\ allocation'[k] = allocation[k]
  PROVE  Reserved(g) = Reserved(g)' + allocation[h][g].held /\ Reserved(g)' \in Nat
<1> DEFINE f == [k \in Holds |-> Open(k, g)]
           f1 == [k \in Holds |-> Open(k, g)']
<1>1. ActiveHolds' = ActiveHolds \ {h} /\ h \in Holds
  BY DEF ActiveHolds
<1>2. \A k \in ActiveHolds \ {h} : f1[k] = f[k]
  <2> TAKE k \in ActiveHolds \ {h}
  <2>1. allocation'[k] = allocation[k] /\ k \in Holds
    BY <1>1 DEF ActiveHolds
  <2>2. Open(k, g)' = Open(k, g)
    BY <2>1 DEF Open
  <2> QED BY <2>1, <2>2
<1>3. \A k \in ActiveHolds : f[k] \in Nat
  BY OpenIsHeld DEF ActiveHolds
<1>4. f[h] = allocation[h][g].held
  BY <1>1, OpenIsHeld
<1>5. IsFiniteSet(ActiveHolds)
  BY HoldsFinite DEF ActiveHolds
<1> HIDE DEF f, f1
<1>6. Sum(ActiveHolds, f) = f[h] + Sum(ActiveHolds \ {h}, f)
         /\ Sum(ActiveHolds \ {h}, f) \in Nat
  BY <1>3, <1>5, SumRemove
<1>7. Sum(ActiveHolds \ {h}, f1) = Sum(ActiveHolds \ {h}, f)
  BY <1>2, SumEqual
<1>8. Reserved(g)' = Sum(ActiveHolds', f1) /\ Reserved(g) = Sum(ActiveHolds, f)
  BY DEF Reserved, f, f1
<1>9. allocation[h][g].held \in Nat
  BY OpenIsHeld
<1> QED BY <1>1, <1>4, <1>6, <1>7, <1>8, <1>9

-------------------------------------------------------------------------------
(***************************************************************************)
(* What a refresh computes.                                                *)
(***************************************************************************)
(* The next sequence number is a positive number.                          *)
LEMMA NextSeqPositive ==
  ASSUME Cover, NEW a \in Accounts
  PROVE  NextSeq(a) \in Nat \ {0}
<1> DEFINE seqs == {e.seq : e \in Entries(a)}
<1>1. IsFiniteSet(Entries(a))
  BY FS_Subset DEF Cover, Entries
<1>2. IsFiniteSet(seqs)
  <2> DEFINE seqOf == [e \in Entries(a) |-> e.seq]
  <2>1. IsFiniteSet({seqOf[e] : e \in Entries(a)})
    <3> HIDE DEF seqOf
    <3> QED BY <1>1, ImageFinite
  <2>2. seqs = {seqOf[e] : e \in Entries(a)}
    OBVIOUS
  <2> QED BY <2>1, <2>2
<1>3. seqs \subseteq Nat
  BY DEF Cover, TypeOK, JournalRows, Entries
<1> HIDE DEF seqs
<1>4. IsFiniteSet({0} \cup seqs)
  BY <1>2, FS_AddElement
<1>5. \E m \in {0} \cup seqs : \A n \in {0} \cup seqs : n <= m
  BY <1>3, <1>4, LargestNatural
<1>6. Max({0} \cup seqs) \in {0} \cup seqs
  BY <1>3, <1>5 DEF Max
<1> QED BY <1>3, <1>6 DEF NextSeq, seqs

(* What lapses with a grant is free in it, and a natural.                  *)
LEMMA ExpiredAvailableNat ==
  ASSUME Cover, NEW g \in Grants
  PROVE  ExpiredAvailable[g] \in Nat /\ ExpiredAvailable[g] <= grant[g].remaining
<1>1. grant[g].remaining \in Nat /\ Reserved(g) \in Nat /\ Reserved(g) <= grant[g].remaining
  BY LedgerAssumption, ReservedNat DEF Cover, TypeOK, GrantRows, Micros, GrantsCoverHolds
<1> QED BY <1>1 DEF ExpiredAvailable, Free

(* What a refresh adds to the balance is an integer.                       *)
LEMMA RefreshDeltaInt ==
  ASSUME Cover, NEW a \in Accounts, NEW t
  PROVE  RefreshDelta(a, t) \in Int
<1>1. IsFiniteSet(Opening(a, t)) /\ IsFiniteSet(Lapsing(a, t))
  BY GrantsFinite DEF Opening, Lapsing, GrantsOf
<1>2. \A g \in Opening(a, t) : Remaining[g] \in Int
  BY LedgerAssumption DEF Cover, TypeOK, GrantRows, Micros, Remaining, Opening, GrantsOf
<1>3. \A g \in Lapsing(a, t) : ExpiredAvailable[g] \in Int
  BY ExpiredAvailableNat DEF Lapsing, GrantsOf
<1>4. Sum(Opening(a, t), Remaining) \in Nat /\ Sum(Lapsing(a, t), ExpiredAvailable) \in Nat
  BY <1>1, <1>2, <1>3, SumType
<1> QED BY <1>4 DEF RefreshDelta

(* A refreshed grant keeps its identity and still covers its holds.        *)
LEMMA RefreshedGrantsCover ==
  ASSUME Cover, NEW a \in Accounts, NEW t, NEW g \in Grants
  PROVE  LET row == RefreshedGrants(a, t)[g]
         IN  /\ row \in GrantRows
             /\ row.account = grant[g].account /\ row.original = grant[g].original
             /\ row.status = "absent" => grant[g].status = "absent"
             /\ Reserved(g) <= row.remaining /\ row.remaining <= row.original
<1>1. /\ grant[g] \in GrantRows /\ grant[g].remaining \in 0 .. MaxMicros
      /\ grant[g].original \in 0 .. MaxMicros
  BY DEF Cover, TypeOK, GrantRows, Micros
<1>2. Reserved(g) \in Nat /\ Reserved(g) <= grant[g].remaining
        /\ grant[g].remaining <= grant[g].original
  BY ReservedNat DEF Cover, GrantsCoverHolds
<1>3. Reserved(g) \in Micros
  BY LedgerAssumption, <1>1, <1>2 DEF Micros
<1> DEFINE opened == [grant[g] EXCEPT !.status = "active"]
           lapsed == [grant[g] EXCEPT !.status = "expired", !.remaining = Reserved(g)]
<1>4. /\ opened \in GrantRows /\ opened.account = grant[g].account
      /\ opened.original = grant[g].original /\ opened.remaining = grant[g].remaining
      /\ opened.status = "active"
  BY <1>1 DEF GrantRows
<1>5. /\ lapsed \in GrantRows /\ lapsed.account = grant[g].account
      /\ lapsed.original = grant[g].original /\ lapsed.remaining = Reserved(g)
      /\ lapsed.status = "expired"
  BY <1>1, <1>3 DEF GrantRows
<1> HIDE DEF opened, lapsed
<1>6. RefreshedGrants(a, t)[g] \in {opened, lapsed, grant[g]}
  BY DEF RefreshedGrants, opened, lapsed
<1>7. Reserved(g) <= Reserved(g) /\ Reserved(g) <= grant[g].original
  BY <1>1, <1>2
<1> QED BY <1>1, <1>2, <1>4, <1>5, <1>6, <1>7

(* The expiry entries of a refresh are journal rows, finitely many.        *)
LEMMA RefreshEntriesType ==
  ASSUME Cover, NEW a \in Accounts, NEW t
  PROVE  RefreshEntries(a, t) \subseteq JournalRows /\ IsFiniteSet(RefreshEntries(a, t))
<1> DEFINE written == {g \in Lapsing(a, t) : ExpiredAvailable[g] > 0}
           seq(g) == NextSeq(a) + Cardinality({k \in written : k < g})
           entry == [g \in written |->
                       Entry(a, seq(g), "expiry", ExpiredAvailable[g], g)]
<1>1. written \subseteq Grants
  BY DEF Lapsing, GrantsOf
<1>2. \A g \in written : seq(g) \in Nat \ {0}
  <2> TAKE g \in written
  <2>1. IsFiniteSet({k \in written : k < g})
    BY <1>1, GrantsFinite
  <2>2. Cardinality({k \in written : k < g}) \in Nat
    BY <2>1, FS_CardinalityType
  <2> QED BY <2>2, NextSeqPositive
<1>3. \A g \in written : ExpiredAvailable[g] \in Micros \ {0}
  <2> TAKE g \in written
  <2>1. grant[g].remaining \in 0 .. MaxMicros
    BY <1>1 DEF Cover, TypeOK, GrantRows, Micros
  <2>2. ExpiredAvailable[g] \in Nat /\ ExpiredAvailable[g] <= grant[g].remaining
    BY <1>1, ExpiredAvailableNat
  <2>3. ExpiredAvailable[g] > 0
    OBVIOUS
  <2> QED BY LedgerAssumption, <2>1, <2>2, <2>3 DEF Micros
<1>4. RefreshEntries(a, t) = {entry[g] : g \in written}
  BY DEF RefreshEntries
<1>5. \A g \in written : entry[g] \in JournalRows
  BY <1>1, <1>2, <1>3 DEF Entry, JournalRows
<1>6. IsFiniteSet(written)
  BY <1>1, GrantsFinite
<1> HIDE DEF written, entry
<1>7. IsFiniteSet({entry[g] : g \in written})
  BY <1>6, ImageFinite
<1> QED BY <1>4, <1>5, <1>7

-------------------------------------------------------------------------------
(***************************************************************************)
(* Cover holds initially and is kept by every operation.                   *)
(***************************************************************************)
LEMMA InitCover == Init => Cover
<1> SUFFICES ASSUME Init PROVE Cover
  OBVIOUS
<1> USE LedgerAssumption DEF Init
<1>1. ActiveHolds = {}
  BY DEF ActiveHolds, NoHold
<1>2. TypeOK
  BY DEF TypeOK, AccountRows, GrantRows, HoldRows, AllocationRows, JournalRows,
         NoAccount, NoGrant, NoHold, NoAllocation, Micros, Never
<1>3. IsFiniteSet(journal)
  BY FS_EmptySet
<1>4. ActiveUntouched
  BY <1>1 DEF ActiveUntouched
<1>5. AbsentIsEmpty
  BY DEF AbsentIsEmpty, NoGrant
<1>6. \A g \in Grants : Reserved(g) = 0
  BY <1>1, SumEmpty DEF Reserved
<1>7. GrantsCoverHolds
  BY <1>6 DEF GrantsCoverHolds, NoGrant
<1> QED BY <1>2, <1>3, <1>4, <1>5, <1>7 DEF Cover

(* What a step that leaves holds and allocations alone has to establish.   *)
LEMMA HoldsAloneCover ==
  ASSUME Cover, UNCHANGED <<hold, allocation>>, TypeOK', IsFiniteSet(journal)',
         AbsentIsEmpty',
         \A g \in Grants : Reserved(g) <= grant'[g].remaining
                              /\ grant'[g].remaining <= grant'[g].original
  PROVE  Cover'
<1>1. ActiveUntouched'
  BY DEF Cover, ActiveUntouched, ActiveHolds
<1>2. GrantsCoverHolds'
  BY ReservedKept DEF GrantsCoverHolds
<1> QED BY <1>1, <1>2 DEF Cover

(* Opening, disabling, and time: nothing that Cover speaks of changes.     *)
LEMMA OpenMyAccountCover ==
  ASSUME Cover, NEW a \in Accounts, OpenMyAccount(a)
  PROVE  Cover'
<1>1. account' \in [Accounts -> AccountRows]
  BY DEF OpenMyAccount, Cover, TypeOK, AccountRows
<1>2. TypeOK'
  BY <1>1 DEF OpenMyAccount, Cover, TypeOK
<1>3. IsFiniteSet(journal)' /\ AbsentIsEmpty'
  BY DEF OpenMyAccount, Cover, AbsentIsEmpty
<1>4. \A g \in Grants : Reserved(g) <= grant'[g].remaining
                           /\ grant'[g].remaining <= grant'[g].original
  BY DEF OpenMyAccount, Cover, GrantsCoverHolds
<1> QED BY <1>2, <1>3, <1>4, HoldsAloneCover DEF OpenMyAccount

(* An account that is disabled keeps its amounts. *)
LEMMA DisableAccountCover ==
  ASSUME Cover, NEW a \in Accounts, DisableAccount(a)
  PROVE  Cover'
<1>1. account' \in [Accounts -> AccountRows]
  BY DEF DisableAccount, Cover, TypeOK, AccountRows
<1>2. TypeOK'
  BY <1>1 DEF DisableAccount, Cover, TypeOK
<1>3. IsFiniteSet(journal)' /\ AbsentIsEmpty'
  BY DEF DisableAccount, Cover, AbsentIsEmpty
<1>4. \A g \in Grants : Reserved(g) <= grant'[g].remaining
                           /\ grant'[g].remaining <= grant'[g].original
  BY DEF DisableAccount, Cover, GrantsCoverHolds
<1> QED BY <1>2, <1>3, <1>4, HoldsAloneCover DEF DisableAccount

(* The clock changes no row. *)
LEMMA TickCover ==
  ASSUME Cover, Tick
  PROVE  Cover'
<1>1. now' \in 0 .. MaxTime
  BY LedgerAssumption DEF Tick, Cover, TypeOK
<1>2. TypeOK'
  BY <1>1 DEF Tick, Cover, TypeOK
<1>3. IsFiniteSet(journal)' /\ AbsentIsEmpty'
  BY DEF Tick, Cover, AbsentIsEmpty
<1>4. \A g \in Grants : Reserved(g) <= grant'[g].remaining
                           /\ grant'[g].remaining <= grant'[g].original
  BY DEF Tick, Cover, GrantsCoverHolds
<1> QED BY <1>2, <1>3, <1>4, HoldsAloneCover DEF Tick

(* Of a grant that does not exist nothing is reserved, so the new row      *)
(* covers what is reserved of it whatever its amount.                      *)
LEMMA GrantCreditCover ==
  ASSUME Cover, NEW a \in Accounts, NEW g \in Grants, NEW amount \in Micros \ {0},
         NEW effective \in 0 .. MaxTime, NEW expires \in 1 .. Never, NEW t \in Later,
         GrantCredit(a, g, amount, effective, expires, t)
  PROVE  Cover'
<1> DEFINE row == [status |-> IF effective <= now + AppSkew THEN "active" ELSE "pending",
                   account |-> a, original |-> amount, remaining |-> amount,
                   effective |-> effective, expires |-> expires]
<1>a. amount \in Nat /\ amount > 0
  BY LedgerAssumption DEF Micros
<1>1. row \in GrantRows /\ row.original = amount /\ row.remaining = amount
        /\ row.status # "absent"
  BY LedgerAssumption DEF GrantRows, Never
<1>2. grant' = [grant EXCEPT ![g] = row]
  BY DEF GrantCredit
<1> HIDE DEF row
<1>3. account' \in [Accounts -> AccountRows]
  <2> DEFINE increment == IF effective <= t + AppSkew THEN amount ELSE 0
  <2>1. increment \in Nat
    BY <1>a
  <2>2. account' = [account EXCEPT ![a].status = "active",
                                   ![a].available = @ + increment]
    BY DEF GrantCredit
  <2>3. account[a] \in AccountRows /\ account \in [Accounts -> AccountRows]
    BY DEF Cover, TypeOK
  <2> HIDE DEF increment
  <2>4. account[a].available + increment \in Nat
    BY <2>1, <2>3 DEF AccountRows
  <2>5. [account[a] EXCEPT !.status = "active", !.available = @ + increment] \in AccountRows
    BY <2>3, <2>4 DEF AccountRows
  <2>6. account' = [account EXCEPT ![a] =
                      [account[a] EXCEPT !.status = "active", !.available = @ + increment]]
    BY <2>2, <2>3
  <2> QED BY <2>3, <2>5, <2>6
<1>4. Entry(a, NextSeq(a), "grant", amount, g) \in JournalRows
  BY NextSeqPositive DEF Entry, JournalRows
<1>5. journal' \subseteq JournalRows /\ IsFiniteSet(journal')
  <2>1. journal' = journal \cup {Entry(a, NextSeq(a), "grant", amount, g)}
    BY DEF GrantCredit
  <2> QED BY <1>4, <2>1, FS_AddElement DEF Cover, TypeOK
<1>6. TypeOK'
  <2>1. now' \in 0 .. MaxTime
    BY LedgerAssumption DEF GrantCredit, Later, Cover, TypeOK
  <2>2. grant' \in [Grants -> GrantRows]
    BY <1>1, <1>2 DEF Cover, TypeOK
  <2>3. early' \subseteq Grants
    BY DEF GrantCredit, Cover, TypeOK
  <2> QED BY <1>3, <1>5, <2>1, <2>2, <2>3 DEF GrantCredit, Cover, TypeOK
<1>7. AbsentIsEmpty'
  BY <1>1, <1>2 DEF AbsentIsEmpty, Cover, TypeOK
<1>8. ASSUME NEW k \in Grants
      PROVE  Reserved(k) <= grant'[k].remaining /\ grant'[k].remaining <= grant'[k].original
  <2>1. Reserved(k) <= grant[k].remaining /\ grant[k].remaining <= grant[k].original
    BY DEF Cover, GrantsCoverHolds
  <2>2. CASE k # g
    BY <1>2, <2>1, <2>2 DEF Cover, TypeOK
  <2>3. CASE k = g
    <3>1. grant[g].original = 0
      BY DEF GrantCredit, Cover, AbsentIsEmpty
    <3>2. Reserved(g) \in Nat /\ grant[g].remaining \in Nat
      BY LedgerAssumption, ReservedNat DEF Cover, TypeOK, GrantRows, Micros
    <3>3. Reserved(g) <= amount
      BY <1>a, <2>1, <2>3, <3>1, <3>2
    <3>4. grant'[g] = row
      BY <1>2 DEF Cover, TypeOK
    <3> QED BY <1>a, <1>1, <2>3, <3>3, <3>4
  <2> QED BY <2>2, <2>3
<1> QED BY <1>5, <1>6, <1>7, <1>8, HoldsAloneCover DEF GrantCredit

(* What a refresh leaves in the account row is an account row.             *)
LEMMA RefreshedAvailableNat ==
  ASSUME Cover, NEW a \in Accounts, NEW t, RefreshCommits(a, t)
  PROVE  account[a].available + RefreshDelta(a, t) \in Nat
<1>1. account[a].available \in Nat
  BY DEF Cover, TypeOK, AccountRows
<1>2. RefreshDelta(a, t) \in Int
  BY RefreshDeltaInt
<1> QED BY <1>1, <1>2 DEF RefreshCommits

(* The journal after a refresh, and its grants, have their types.          *)
LEMMA RefreshedJournalType ==
  ASSUME Cover, NEW a \in Accounts, NEW t
  PROVE  /\ journal \cup RefreshEntries(a, t) \subseteq JournalRows
         /\ IsFiniteSet(journal \cup RefreshEntries(a, t))
BY RefreshEntriesType, FS_Union DEF Cover, TypeOK

(* Refreshed grants are rows of the table. *)
LEMMA RefreshedGrantsType ==
  ASSUME Cover, NEW a \in Accounts, NEW t
  PROVE  RefreshedGrants(a, t) \in [Grants -> GrantRows]
<1>1. RefreshedGrants(a, t) = [g \in Grants |-> RefreshedGrants(a, t)[g]]
  BY DEF RefreshedGrants
<1>2. \A g \in Grants : RefreshedGrants(a, t)[g] \in GrantRows
  BY RefreshedGrantsCover
<1> QED BY <1>1, <1>2

(* A refresh keeps Cover: it takes no grant below what is reserved of it.  *)
LEMMA RefreshGrantWindowsCover ==
  ASSUME Cover, NEW a \in Accounts, RefreshGrantWindows(a)
  PROVE  Cover'
<1>1. grant' \in [Grants -> GrantRows]
  BY RefreshedGrantsType DEF RefreshGrantWindows
<1>2. journal' \subseteq JournalRows /\ IsFiniteSet(journal')
  BY RefreshedJournalType DEF RefreshGrantWindows
<1>3. account' \in [Accounts -> AccountRows]
  <2>1. account[a].available + RefreshDelta(a, now) \in Nat
    BY RefreshedAvailableNat DEF RefreshGrantWindows
  <2>2. account[a] \in AccountRows /\ account \in [Accounts -> AccountRows]
    BY DEF Cover, TypeOK
  <2>3. account' = [account EXCEPT ![a] =
                      [account[a] EXCEPT !.available = account[a].available + RefreshDelta(a, now)]]
    BY <2>2 DEF RefreshGrantWindows
  <2> QED BY <2>1, <2>2, <2>3 DEF AccountRows
<1>4. TypeOK'
  BY <1>1, <1>2, <1>3 DEF RefreshGrantWindows, Cover, TypeOK
<1>5. AbsentIsEmpty'
  <2> SUFFICES ASSUME NEW g \in Grants, grant'[g].status = "absent"
               PROVE  grant'[g].original = 0
    BY DEF AbsentIsEmpty
  <2>1. grant[g].status = "absent" /\ grant'[g].original = grant[g].original
    BY RefreshedGrantsCover DEF RefreshGrantWindows
  <2> QED BY <2>1 DEF Cover, AbsentIsEmpty
<1>6. \A g \in Grants : Reserved(g) <= grant'[g].remaining
                           /\ grant'[g].remaining <= grant'[g].original
  BY RefreshedGrantsCover DEF RefreshGrantWindows
<1> QED BY <1>2, <1>4, <1>5, <1>6, HoldsAloneCover DEF RefreshGrantWindows

(* A reservation takes of a grant at most what it can still promise.       *)
LEMMA ShareBounds ==
  ASSUME Cover, NEW a \in Accounts, NEW requested \in Micros, NEW t, NEW g \in Grants
  PROVE  LET share == Greedy(Eligible(a, t), BurnsBefore, Allocatable(a), requested)
         IN  share[g] \in Micros
               /\ Reserved(g) + share[g] <= RefreshedGrants(a, now)[g].remaining
<1> DEFINE share == Greedy(Eligible(a, t), BurnsBefore, Allocatable(a), requested)
<1>1. /\ IsFiniteSet(Eligible(a, t)) /\ Eligible(a, t) \subseteq DOMAIN Allocatable(a)
      /\ g \in DOMAIN Allocatable(a)
  BY GrantsFinite DEF Eligible, GrantsOf, Allocatable
<1>2. \A k \in Grants : /\ Reserved(k) \in Nat /\ RefreshedGrants(a, now)[k].remaining \in Nat
                        /\ Reserved(k) <= RefreshedGrants(a, now)[k].remaining
  BY LedgerAssumption, ReservedNat, RefreshedGrantsCover DEF Cover, GrantRows, Micros
<1>3. \A k \in Grants : /\ Allocatable(a)[k] \in Nat
                        /\ Allocatable(a)[k] = RefreshedGrants(a, now)[k].remaining - Reserved(k)
  BY <1>2 DEF Allocatable
<1>4. requested \in Nat /\ requested <= MaxMicros
  BY LedgerAssumption DEF Micros
<1>5. \A k \in Eligible(a, t) : Allocatable(a)[k] \in Nat
  BY <1>3 DEF Eligible, GrantsOf
<1>6. /\ share[g] \in Nat /\ share[g] <= requested
      /\ g \in Eligible(a, t) => share[g] <= Allocatable(a)[g]
      /\ g \notin Eligible(a, t) => share[g] = 0
  BY <1>1, <1>4, <1>5, GreedyBounds
<1> HIDE DEF share
<1>7. share[g] \in Micros
  BY LedgerAssumption, <1>4, <1>6 DEF Micros
<1>8. Reserved(g) + share[g] <= RefreshedGrants(a, now)[g].remaining
  BY <1>2, <1>3, <1>6
<1> QED BY <1>7, <1>8 DEF share

(* A reservation keeps Cover: it shares out what a refresh left unreserved. *)
LEMMA ReserveCover ==
  ASSUME Cover, NEW a \in Accounts, NEW h \in Holds, NEW requested \in Micros \ {0},
         NEW t \in Later, Reserve(a, h, requested, t)
  PROVE  Cover'
<1> DEFINE share == Greedy(Eligible(a, t), BurnsBefore, Allocatable(a), requested)
           newHold == [NoHold EXCEPT !.status = "active", !.account = a,
                                     !.requested = requested]
           rows == [g \in Grants |-> [NoAllocation EXCEPT !.held = share[g]]]
<1>1. /\ hold[h].status = "absent"
      /\ hold' = [hold EXCEPT ![h] = newHold]
      /\ allocation' = [allocation EXCEPT ![h] = rows]
      /\ grant' = RefreshedGrants(a, now)
      /\ journal' = journal \cup RefreshEntries(a, now)
      /\ now' = t /\ early' = early
  BY DEF Reserve
<1>2. \A g \in Grants : share[g] \in Micros
                         /\ Reserved(g) + share[g] <= RefreshedGrants(a, now)[g].remaining
  BY ShareBounds
<1>3. 0 \in Micros /\ requested \in Nat
  BY LedgerAssumption DEF Micros
<1> HIDE DEF share
<1>4. newHold \in HoldRows /\ newHold.status = "active" /\ newHold.account = a
  BY <1>3 DEF NoHold, HoldRows
<1>5. rows \in [Grants -> AllocationRows] /\ \A g \in Grants :
        rows[g].held = share[g] /\ rows[g].captured = 0 /\ rows[g].released = 0
  BY <1>2, <1>3 DEF NoAllocation, AllocationRows
<1> HIDE DEF newHold, rows
<1>6. /\ hold'[h] = newHold /\ allocation'[h] = rows
      /\ \A k \in Holds \ {h} : hold'[k] = hold[k] /\ allocation'[k] = allocation[k]
  BY <1>1 DEF Cover, TypeOK
<1>7. account' \in [Accounts -> AccountRows]
  <2> DEFINE available == account[a].available + RefreshDelta(a, now)
  <2>1. available \in Nat /\ available >= requested
    BY RefreshedAvailableNat DEF Reserve
  <2>2. account[a] \in AccountRows /\ account \in [Accounts -> AccountRows]
    BY DEF Cover, TypeOK
  <2>3. account' = [account EXCEPT ![a] =
                      [account[a] EXCEPT !.available = available - requested,
                                         !.held = account[a].held + requested]]
    BY <2>2 DEF Reserve
  <2> HIDE DEF available
  <2>4. available - requested \in Nat /\ account[a].held + requested \in Nat
    BY <1>3, <2>1, <2>2 DEF AccountRows
  <2> QED BY <2>2, <2>3, <2>4 DEF AccountRows
<1>8. TypeOK'
  <2>1. now' \in 0 .. MaxTime
    BY LedgerAssumption, <1>1 DEF Later, Cover, TypeOK
  <2>2. hold' \in [Holds -> HoldRows] /\ allocation' \in [Holds -> [Grants -> AllocationRows]]
    BY <1>1, <1>4, <1>5 DEF Cover, TypeOK
  <2>3. grant' \in [Grants -> GrantRows]
    BY <1>1, RefreshedGrantsType
  <2>4. journal' \subseteq JournalRows /\ early' \subseteq Grants
    BY <1>1, RefreshedJournalType DEF Cover, TypeOK
  <2> QED BY <1>7, <2>1, <2>2, <2>3, <2>4 DEF TypeOK
<1>9. IsFiniteSet(journal')
  BY <1>1, RefreshedJournalType
<1>10. ActiveUntouched'
  BY <1>4, <1>5, <1>6 DEF Cover, ActiveUntouched, ActiveHolds
<1>11. AbsentIsEmpty'
  <2> SUFFICES ASSUME NEW g \in Grants, grant'[g].status = "absent"
               PROVE  grant'[g].original = 0
    BY DEF AbsentIsEmpty
  <2>1. grant[g].status = "absent" /\ grant'[g].original = grant[g].original
    BY <1>1, RefreshedGrantsCover
  <2> QED BY <2>1 DEF Cover, AbsentIsEmpty
<1>12. ASSUME NEW g \in Grants
       PROVE  Reserved(g)' <= grant'[g].remaining /\ grant'[g].remaining <= grant'[g].original
  <2>1. Reserved(g)' = Reserved(g) + share[g]
    <3>1. hold'[h].status = "active" /\ allocation'[h][g].held = share[g]
            /\ allocation'[h][g].captured = 0 /\ allocation'[h][g].released = 0
      BY <1>4, <1>5, <1>6
    <3>2. share[g] \in Nat
      BY LedgerAssumption, <1>2 DEF Micros
    <3> QED BY <1>1, <1>6, <3>1, <3>2, ReservedGrows DEF Cover
  <2>2. grant'[g].remaining <= grant'[g].original
    BY <1>1, RefreshedGrantsCover
  <2> QED BY <1>1, <1>2, <2>1, <2>2
<1>13. GrantsCoverHolds'
  BY <1>12 DEF GrantsCoverHolds
<1> QED BY <1>8, <1>9, <1>10, <1>11, <1>13 DEF Cover

(* Amounts are naturals, and the rest of an amount is an amount.           *)
LEMMA MicrosRest ==
  ASSUME NEW x \in Micros, NEW y \in Micros
  PROVE  x \in Nat /\ y \in Nat /\ (y <= x => x - y \in Micros /\ x - y \in Nat)
BY LedgerAssumption DEF Micros

(* A finished hold consumes of each grant at most what it had reserved.    *)
LEMMA UsedBounds ==
  ASSUME Cover, NEW h \in Holds, NEW actual \in Micros, NEW g \in Grants
  PROVE  LET held == [k \in Grants |-> allocation[h][k].held]
             used == Greedy(AllocationsOf(h), BurnsBefore, held, actual)
         IN  /\ used[g] \in Micros /\ used[g] <= held[g]
             /\ g \notin AllocationsOf(h) => used[g] = 0
<1> DEFINE held == [k \in Grants |-> allocation[h][k].held]
           used == Greedy(AllocationsOf(h), BurnsBefore, held, actual)
<1>1. IsFiniteSet(AllocationsOf(h)) /\ AllocationsOf(h) \subseteq Grants
  BY GrantsFinite DEF AllocationsOf
<1>2. \A k \in Grants : held[k] \in Micros /\ held[k] \in Nat
  BY LedgerAssumption DEF Cover, TypeOK, AllocationRows, Micros
<1>3. actual \in Nat /\ actual <= MaxMicros
  BY LedgerAssumption DEF Micros
<1>4. DOMAIN held = Grants
  OBVIOUS
<1> HIDE DEF held
<1>5. /\ used[g] \in Nat /\ used[g] <= actual
      /\ g \in AllocationsOf(h) => used[g] <= held[g]
      /\ g \notin AllocationsOf(h) => used[g] = 0
  BY <1>1, <1>2, <1>3, <1>4, GreedyBounds
<1> HIDE DEF used
<1>6. used[g] \in Micros /\ used[g] <= held[g]
  BY LedgerAssumption, <1>2, <1>3, <1>5 DEF Micros
<1> QED BY <1>5, <1>6 DEF used, held

(* A finished hold keeps Cover: it stops reserving more than it consumes.   *)
LEMMA FinishCover ==
  ASSUME Cover, NEW h \in Holds, NEW actual \in Micros,
         NEW terminal \in {"captured", "released"}, NEW source \in Sources,
         Finish(h, actual, terminal, source),
         journal' \subseteq JournalRows, IsFiniteSet(journal')
  PROVE  Cover'
<1> DEFINE held == [g \in Grants |-> allocation[h][g].held]
           used == Greedy(AllocationsOf(h), BurnsBefore, held, actual)
           rows == [g \in Grants |-> [held |-> held[g], captured |-> used[g],
                                      released |-> held[g] - used[g]]]
           newHold == [hold[h] EXCEPT !.status = terminal, !.source = source,
                         !.captured = actual, !.released = hold[h].requested - actual]
<1>1. hold[h].status = "active" /\ h \in ActiveHolds /\ hold[h] \in HoldRows
        /\ hold[h].account \in Accounts
  BY DEF Finish, Finishable, ActiveHolds, Cover, TypeOK, ActiveUntouched
<1>2. /\ hold' = [hold EXCEPT ![h] = newHold]
      /\ allocation' = [allocation EXCEPT ![h] = rows]
      /\ grant' = [g \in Grants |-> [grant[g] EXCEPT !.remaining = @ - used[g]]]
      /\ \A g \in AllocationsOf(h) : grant[g].remaining >= used[g]
      /\ UNCHANGED <<now, early>>
  <2>1. hold' = [hold EXCEPT ![h].status = terminal, ![h].source = source,
                             ![h].captured = actual,
                             ![h].released = hold[h].requested - actual]
    BY DEF Finish
  <2>2. hold' = [hold EXCEPT ![h] = newHold]
    BY <1>1, <2>1 DEF Cover, TypeOK
  <2> QED BY <2>2 DEF Finish
<1>3. \A g \in Grants : /\ used[g] \in Micros /\ used[g] <= held[g] /\ held[g] \in Micros
                        /\ g \notin AllocationsOf(h) => used[g] = 0
  BY UsedBounds DEF Cover, TypeOK, AllocationRows
<1>4. \A g \in Grants : held[g] = allocation[h][g].held
  OBVIOUS
<1> HIDE DEF used, held
<1>a. \A g \in Grants : held[g] \in Nat /\ used[g] \in Nat /\ held[g] - used[g] \in Micros
  BY <1>3, MicrosRest
<1>5. rows \in [Grants -> AllocationRows]
  BY <1>3, <1>a DEF AllocationRows
<1>6. newHold \in HoldRows /\ newHold.status # "active" /\ hold[h].requested - actual \in Nat
  <2>1. actual <= hold[h].requested /\ hold[h].requested \in Micros
    BY <1>1 DEF Finish, Finishable, HoldRows
  <2>2. hold[h].requested - actual \in Micros /\ hold[h].requested - actual \in Nat
    BY LedgerAssumption, <2>1 DEF Micros
  <2> QED BY <1>1, <2>2 DEF HoldRows
<1> HIDE DEF rows, newHold
<1>7. /\ hold'[h].status # "active"
      /\ \A k \in Holds \ {h} : hold'[k] = hold[k] /\ allocation'[k] = allocation[k]
  BY <1>2, <1>6 DEF Cover, TypeOK
<1>8. \A g \in Grants : /\ grant'[g] \in GrantRows
                        /\ grant'[g].remaining = grant[g].remaining - used[g]
                        /\ grant'[g].status = grant[g].status
                        /\ grant'[g].original = grant[g].original
  <2> TAKE g \in Grants
  <2>1. grant[g] \in GrantRows /\ grant[g].remaining \in Micros
    BY DEF Cover, TypeOK, GrantRows
  <2>2. grant'[g] = [grant[g] EXCEPT !.remaining = grant[g].remaining - used[g]]
    BY <1>2
  <2>3. grant[g].remaining \in Nat
    BY <2>1, MicrosRest
  <2>4. used[g] <= grant[g].remaining
    BY <1>2, <1>3, <1>a, <2>3
  <2>5. grant[g].remaining - used[g] \in Micros
    BY <1>3, <2>1, <2>4, MicrosRest
  <2> QED BY <2>1, <2>2, <2>5 DEF GrantRows
<1>9. account' \in [Accounts -> AccountRows]
  <2> DEFINE a == hold[h].account
             row == [account[a] EXCEPT
                       !.held = account[a].held - hold[h].requested,
                       !.available = account[a].available + (hold[h].requested - actual)]
  <2>1. account[a] \in AccountRows /\ account \in [Accounts -> AccountRows]
    BY <1>1 DEF Cover, TypeOK
  <2>2. account[a].held >= hold[h].requested /\ hold[h].requested \in Nat
    BY LedgerAssumption, <1>1 DEF Finish, Finishable, HoldRows, Micros
  <2>3. /\ account[a].held - hold[h].requested \in Nat
        /\ account[a].available + (hold[h].requested - actual) \in Nat
    BY <1>6, <2>1, <2>2 DEF AccountRows
  <2>4. row \in AccountRows
    BY <2>1, <2>3 DEF AccountRows
  <2>5. account' = [account EXCEPT ![a] = row]
    BY <2>1 DEF Finish, FinishedAccount
  <2> QED BY <2>1, <2>4, <2>5
<1>10. TypeOK'
  <2>1. hold' \in [Holds -> HoldRows] /\ allocation' \in [Holds -> [Grants -> AllocationRows]]
    BY <1>2, <1>5, <1>6 DEF Cover, TypeOK
  <2>2. grant' \in [Grants -> GrantRows]
    BY <1>2, <1>8
  <2> QED BY <1>2, <1>9, <2>1, <2>2 DEF Cover, TypeOK
<1>11. ActiveUntouched'
  BY <1>7 DEF Cover, ActiveUntouched, ActiveHolds
<1>12. AbsentIsEmpty'
  BY <1>8 DEF Cover, AbsentIsEmpty
<1>13. ASSUME NEW g \in Grants
       PROVE  Reserved(g)' <= grant'[g].remaining /\ grant'[g].remaining <= grant'[g].original
  <2>1. Reserved(g) = Reserved(g)' + held[g] /\ Reserved(g)' \in Nat
    BY <1>1, <1>4, <1>7, ReservedShrinks DEF Cover
  <2>2. Reserved(g) <= grant[g].remaining /\ grant[g].remaining <= grant[g].original
          /\ grant[g].remaining \in Nat /\ grant[g].original \in Nat
    BY LedgerAssumption DEF Cover, GrantsCoverHolds, TypeOK, GrantRows, Micros
  <2>3. held[g] \in Nat /\ used[g] \in Nat /\ used[g] <= held[g]
    BY <1>3, <1>a
  <2> QED BY <1>8, <2>1, <2>2, <2>3
<1>14. GrantsCoverHolds'
  BY <1>13 DEF GrantsCoverHolds
<1> QED BY <1>10, <1>11, <1>12, <1>14 DEF Cover

(* A capture keeps the cover. *)
LEMMA CaptureCover ==
  ASSUME Cover, NEW h \in Holds, NEW actual \in Micros, NEW source \in Sources,
         Capture(h, actual, source)
  PROVE  Cover'
<1>1. Finish(h, actual, "captured", source)
        /\ journal' = journal \cup DebitEntries(h, actual, source)
  BY DEF Capture
<1>2. h \in ActiveHolds /\ hold[h].account \in Accounts
  BY <1>1 DEF Finish, Finishable, ActiveHolds, Cover, ActiveUntouched
<1>3. DebitEntries(h, actual, source) \subseteq JournalRows
        /\ IsFiniteSet(DebitEntries(h, actual, source))
  <2>1. CASE actual = 0
    BY <2>1, FS_EmptySet DEF DebitEntries
  <2>2. CASE actual # 0
    <3> DEFINE entry == Entry(hold[h].account, NextSeq(hold[h].account), "debit",
                              actual, source)
    <3>1. entry \in JournalRows
      BY <1>2, <2>2, NextSeqPositive DEF Entry, JournalRows
    <3>2. DebitEntries(h, actual, source) = {entry}
      BY <2>2 DEF DebitEntries
    <3> HIDE DEF entry
    <3> QED BY <3>1, <3>2, FS_Singleton
  <2> QED BY <2>1, <2>2
<1>4. journal' \subseteq JournalRows /\ IsFiniteSet(journal')
  BY <1>1, <1>3, FS_Union DEF Cover, TypeOK
<1> QED BY <1>1, <1>4, FinishCover

(* A release keeps the cover. *)
LEMMA ReleaseCover ==
  ASSUME Cover, NEW h \in Holds, NEW source \in Sources, Release(h, source)
  PROVE  Cover'
<1>1. Finish(h, 0, "released", source) /\ journal' = journal
  BY DEF Release
<1>2. 0 \in Micros
  BY LedgerAssumption DEF Micros
<1>3. journal' \subseteq JournalRows /\ IsFiniteSet(journal')
  BY <1>1 DEF Cover, TypeOK
<1> QED BY <1>1, <1>2, <1>3, FinishCover

-------------------------------------------------------------------------------
(***************************************************************************)
(* The theorems.                                                           *)
(***************************************************************************)
(* Cover is an inductive invariant of the ledger.                          *)
THEOREM CoverInvariant == Spec => []Cover
<1>1. Init => Cover
  BY InitCover
<1>2. ASSUME Cover, [Next]_vars PROVE Cover'
  <2>1. ASSUME NEW a \in Accounts, OpenMyAccount(a) PROVE Cover'
    BY <1>2, <2>1, OpenMyAccountCover
  <2>2. ASSUME NEW a \in Accounts, DisableAccount(a) PROVE Cover'
    BY <1>2, <2>2, DisableAccountCover
  <2>3. ASSUME NEW a \in Accounts, RefreshGrantWindows(a) PROVE Cover'
    BY <1>2, <2>3, RefreshGrantWindowsCover
  <2>4. ASSUME NEW a \in Accounts, NEW g \in Grants, NEW amount \in Micros \ {0},
               NEW effective \in 0 .. MaxTime, NEW expires \in 1 .. Never, NEW t \in Later,
               GrantCredit(a, g, amount, effective, expires, t)
        PROVE  Cover'
    BY <1>2, <2>4, GrantCreditCover
  <2>5. ASSUME NEW a \in Accounts, NEW h \in Holds, NEW requested \in Micros \ {0},
               NEW t \in Later, Reserve(a, h, requested, t)
        PROVE  Cover'
    BY <1>2, <2>5, ReserveCover
  <2>6. ASSUME NEW h \in Holds, NEW source \in Sources, NEW actual \in Micros,
               Capture(h, actual, source)
        PROVE  Cover'
    BY <1>2, <2>6, CaptureCover
  <2>7. ASSUME NEW h \in Holds, NEW source \in Sources, Release(h, source)
        PROVE  Cover'
    BY <1>2, <2>7, ReleaseCover
  <2>8. CASE Tick
    BY <1>2, <2>8, TickCover
  <2>9. CASE UNCHANGED vars
    <3>1. UNCHANGED <<hold, allocation>> /\ TypeOK' /\ IsFiniteSet(journal)' /\ AbsentIsEmpty'
      BY <1>2, <2>9 DEF vars, Cover, TypeOK, AbsentIsEmpty
    <3>2. \A g \in Grants : Reserved(g) <= grant'[g].remaining
                             /\ grant'[g].remaining <= grant'[g].original
      BY <1>2, <2>9 DEF vars, Cover, GrantsCoverHolds
    <3> QED BY <1>2, <3>1, <3>2, HoldsAloneCover
  <2> QED BY <1>2, <2>1, <2>2, <2>3, <2>4, <2>5, <2>6, <2>7, <2>8, <2>9 DEF Next
<1> QED BY <1>1, <1>2, PTL DEF Spec

(***************************************************************************)
(* Every row keeps its type: no balance or remainder becomes negative, so  *)
(* no CHECK constraint of the schema refuses a write of the repository.    *)
(***************************************************************************)
THEOREM TypeCorrect == Spec => []TypeOK
BY CoverInvariant, PTL DEF Cover

(***************************************************************************)
(* No grant is promised twice, for any number of holds, any order of their *)
(* captures and releases, and any expiry in between.                       *)
(***************************************************************************)
THEOREM GrantsAlwaysCoverHolds == Spec => []GrantsCoverHolds
BY CoverInvariant, PTL DEF Cover

(***************************************************************************)
(* A captured or released hold and its allocations never change again.     *)
(***************************************************************************)
THEOREM TerminalHoldsAreFinal == Spec => TerminalIsFinal
<1>1. ASSUME TypeOK, [Next]_vars, NEW h \in Holds,
             hold[h].status \in {"captured", "released"}
      PROVE  hold'[h] = hold[h] /\ allocation'[h] = allocation[h]
  <2>1. CASE UNCHANGED <<hold, allocation>>
    BY <2>1
  <2>2. ASSUME NEW a \in Accounts, NEW k \in Holds, NEW requested \in Micros \ {0},
               NEW t \in Later, Reserve(a, k, requested, t)
        PROVE  hold'[h] = hold[h] /\ allocation'[h] = allocation[h]
    <3>1. k # h
      BY <1>1, <2>2 DEF Reserve
    <3> QED BY <1>1, <2>2, <3>1 DEF Reserve, TypeOK
  <2>3. ASSUME NEW k \in Holds, NEW actual \in Micros, NEW terminal, NEW source,
               Finish(k, actual, terminal, source)
        PROVE  hold'[h] = hold[h] /\ allocation'[h] = allocation[h]
    <3>1. k # h
      BY <1>1, <2>3 DEF Finish, Finishable
    <3> QED BY <1>1, <2>3, <3>1 DEF Finish, TypeOK
  <2>4. 0 \in Micros
    BY LedgerAssumption DEF Micros
  <2>5. ASSUME NEW a \in Accounts,
               \/ OpenMyAccount(a) \/ DisableAccount(a) \/ RefreshGrantWindows(a)
               \/ \E g \in Grants, amount \in Micros \ {0}, effective \in 0 .. MaxTime,
                     expires \in 1 .. Never, t \in Later :
                       GrantCredit(a, g, amount, effective, expires, t)
        PROVE  UNCHANGED <<hold, allocation>>
    BY <2>5 DEF OpenMyAccount, DisableAccount, RefreshGrantWindows, GrantCredit
  <2>6. ASSUME NEW k \in Holds, NEW source \in Sources,
               (\E actual \in Micros : Capture(k, actual, source)) \/ Release(k, source)
        PROVE  hold'[h] = hold[h] /\ allocation'[h] = allocation[h]
    BY <2>3, <2>4, <2>6 DEF Capture, Release
  <2>7. CASE Tick \/ UNCHANGED vars
    BY <2>7 DEF Tick, vars
  <2> QED BY <1>1, <2>1, <2>2, <2>5, <2>6, <2>7 DEF Next
<1>2. TypeOK /\ [Next]_vars =>
        [\A h \in Holds : hold[h].status \in {"captured", "released"} =>
           hold'[h] = hold[h] /\ allocation'[h] = allocation[h]]_vars
  BY <1>1
<1> QED BY <1>2, TypeCorrect, PTL DEF Spec, TerminalIsFinal

(***************************************************************************)
(* held_micros is exactly what the active holds of the account requested,  *)
(* although reserve and finishHold only ever add to it and subtract.       *)
(***************************************************************************)
THEOREM HeldAlwaysIsActiveHolds == Spec => []HeldIsActiveHolds
<1>1. Init => HeldIsActiveHolds
  <2> SUFFICES ASSUME Init, NEW a \in Accounts PROVE account[a].held = Sum(HoldsOf(a), Requested)
    BY DEF HeldIsActiveHolds
  <2>1. HoldsOf(a) = {}
    BY DEF Init, HoldsOf, ActiveHolds, NoHold
  <2> QED BY <2>1, SumEmpty DEF Init, NoAccount
<1>2. ASSUME Cover, HeldIsActiveHolds, [Next]_vars PROVE HeldIsActiveHolds'
  <2>a. \A b \in Accounts : /\ IsFiniteSet(HoldsOf(b))
                            /\ \A k \in HoldsOf(b) : Requested[k] \in Nat
                            /\ account[b].held \in Nat
    BY <1>2, HoldsFinite, LedgerAssumption
       DEF HoldsOf, ActiveHolds, Requested, Cover, TypeOK, HoldRows, AccountRows, Micros
  <2>1. ASSUME UNCHANGED hold, \A b \in Accounts : account'[b].held = account[b].held
        PROVE  HeldIsActiveHolds'
    BY <1>2, <2>1 DEF HeldIsActiveHolds, HoldsOf, ActiveHolds, Requested
  <2>2. ASSUME NEW a \in Accounts, NEW h \in Holds, NEW requested \in Micros \ {0},
               NEW t \in Later, Reserve(a, h, requested, t)
        PROVE  HeldIsActiveHolds'
    <3> SUFFICES ASSUME NEW b \in Accounts PROVE account'[b].held = Sum(HoldsOf(b), Requested)'
      BY DEF HeldIsActiveHolds
    <3>1. /\ hold'[h].status = "active" /\ hold'[h].account = a /\ hold'[h].requested = requested
          /\ hold[h].status = "absent" /\ \A k \in Holds \ {h} : hold'[k] = hold[k]
      BY <1>2, <2>2 DEF Reserve, NoHold, Cover, TypeOK
    <3>2. /\ account'[a].held = account[a].held + requested
          /\ \A c \in Accounts \ {a} : account'[c].held = account[c].held
      BY <1>2, <2>2 DEF Reserve, Cover, TypeOK, AccountRows
    <3>3. requested \in Nat
      BY LedgerAssumption DEF Micros
    <3>4. \A k \in HoldsOf(b) : Requested'[k] = Requested[k]
      BY <3>1 DEF HoldsOf, ActiveHolds, Requested
    <3>5. CASE b # a
      <4>1. HoldsOf(b)' = HoldsOf(b)
        BY <3>1, <3>5 DEF HoldsOf, ActiveHolds
      <4>2. Sum(HoldsOf(b), Requested') = Sum(HoldsOf(b), Requested)
        BY <3>4, SumEqual
      <4> QED BY <1>2, <3>2, <3>5, <4>1, <4>2 DEF HeldIsActiveHolds
    <3>6. CASE b = a
      <4>1. HoldsOf(a)' = HoldsOf(a) \cup {h} /\ h \notin HoldsOf(a)
        BY <3>1 DEF HoldsOf, ActiveHolds
      <4>2. Requested'[h] = requested
        BY <3>1 DEF Requested
      <4>3. Sum(HoldsOf(a) \cup {h}, Requested') = Sum(HoldsOf(a), Requested) + Requested'[h]
        <5>1. IsFiniteSet(HoldsOf(a)) /\ Requested'[h] \in Nat
          BY <2>a, <3>3, <4>2
        <5>2. \A k \in HoldsOf(a) : Requested[k] \in Nat /\ Requested'[k] = Requested[k]
          BY <2>a, <3>4, <3>6
        <5> QED BY <4>1, <5>1, <5>2, SumInsert
      <4> QED BY <1>2, <3>2, <3>6, <4>1, <4>2, <4>3 DEF HeldIsActiveHolds
    <3> QED BY <3>5, <3>6
  <2>3. ASSUME NEW h \in Holds, NEW actual \in Micros, NEW terminal \in {"captured", "released"},
               NEW source \in Sources, Finish(h, actual, terminal, source)
        PROVE  HeldIsActiveHolds'
    <3> DEFINE a == hold[h].account
    <3> SUFFICES ASSUME NEW b \in Accounts PROVE account'[b].held = Sum(HoldsOf(b), Requested)'
      BY DEF HeldIsActiveHolds
    <3>1. /\ hold[h].status = "active" /\ a \in Accounts /\ hold'[h].status # "active"
          /\ \A k \in Holds \ {h} : hold'[k] = hold[k]
      BY <1>2, <2>3 DEF Finish, Finishable, Cover, TypeOK, HoldRows, ActiveUntouched, ActiveHolds
    <3>2. /\ account'[a].held = account[a].held - hold[h].requested
          /\ \A c \in Accounts \ {a} : account'[c].held = account[c].held
      <4>1. account' = FinishedAccount(h, actual) BY <2>3 DEF Finish
      <4>2. account \in [Accounts -> AccountRows] BY <1>2 DEF Cover, TypeOK
      <4> HIDE <1>2, <2>3
      <4> QED BY <3>1, <4>1, <4>2 DEF FinishedAccount, AccountRows
    <3>3. \A k \in HoldsOf(b) \ {h} : Requested'[k] = Requested[k]
      BY <3>1 DEF HoldsOf, ActiveHolds, Requested
    <3>4. HoldsOf(b)' = HoldsOf(b) \ {h}
      BY <3>1 DEF HoldsOf, ActiveHolds
    <3>5. Sum(HoldsOf(b) \ {h}, Requested') = Sum(HoldsOf(b) \ {h}, Requested)
      BY <3>3, SumEqual
    <3>6. CASE b # a
      <4>1. HoldsOf(b) \ {h} = HoldsOf(b)
        BY <3>6 DEF HoldsOf
      <4> QED BY <1>2, <3>2, <3>4, <3>5, <3>6, <4>1 DEF HeldIsActiveHolds
    <3>7. CASE b = a
      <4>1. h \in HoldsOf(a) /\ Requested[h] = hold[h].requested
        BY <3>1 DEF HoldsOf, ActiveHolds, Requested
      <4>2. /\ Sum(HoldsOf(a), Requested) = Requested[h] + Sum(HoldsOf(a) \ {h}, Requested)
            /\ Sum(HoldsOf(a) \ {h}, Requested) \in Nat
        BY <2>a, <3>1, <4>1, SumRemove
      <4>3. account[a].held = Sum(HoldsOf(a), Requested) /\ Requested[h] \in Nat
        BY <1>2, <2>a, <3>1, <4>1 DEF HeldIsActiveHolds
      <4>4. account'[b].held = Sum(HoldsOf(a) \ {h}, Requested)
        BY <3>2, <3>7, <4>1, <4>2, <4>3
      <4> QED BY <3>4, <3>5, <3>7, <4>4
    <3> QED BY <3>6, <3>7
  <2>4. ASSUME NEW a \in Accounts,
               \/ OpenMyAccount(a) \/ DisableAccount(a) \/ RefreshGrantWindows(a)
               \/ \E g \in Grants, amount \in Micros \ {0}, effective \in 0 .. MaxTime,
                     expires \in 1 .. Never, t \in Later :
                       GrantCredit(a, g, amount, effective, expires, t)
        PROVE  HeldIsActiveHolds'
    <3>1. UNCHANGED hold
      BY <2>4 DEF OpenMyAccount, DisableAccount, RefreshGrantWindows, GrantCredit
    <3>2. account \in [Accounts -> AccountRows]
      BY <1>2 DEF Cover, TypeOK
    <3>3. CASE OpenMyAccount(a) \/ DisableAccount(a)
      BY <2>1, <3>1, <3>2, <3>3 DEF OpenMyAccount, DisableAccount, AccountRows
    <3>4. CASE RefreshGrantWindows(a)
      BY <2>1, <3>1, <3>2, <3>4 DEF RefreshGrantWindows, AccountRows
    <3>5. ASSUME NEW g \in Grants, NEW amount \in Micros \ {0}, NEW effective \in 0 .. MaxTime,
                 NEW expires \in 1 .. Never, NEW t \in Later,
                 GrantCredit(a, g, amount, effective, expires, t)
          PROVE  HeldIsActiveHolds'
      BY <2>1, <3>1, <3>2, <3>5 DEF GrantCredit, AccountRows
    <3> QED BY <2>4, <3>3, <3>4, <3>5
  <2>5. ASSUME NEW k \in Holds, NEW source \in Sources,
               (\E actual \in Micros : Capture(k, actual, source)) \/ Release(k, source)
        PROVE  HeldIsActiveHolds'
    <3>1. 0 \in Micros
      BY LedgerAssumption DEF Micros
    <3> QED BY <2>3, <2>5, <3>1 DEF Capture, Release
  <2>6. CASE Tick \/ UNCHANGED vars
    BY <2>1, <2>6 DEF Tick, vars
  <2> QED BY <1>2, <2>2, <2>4, <2>5, <2>6 DEF Next
<1> QED BY <1>1, <1>2, CoverInvariant, PTL DEF Spec

(***************************************************************************)
(* What a reservation took is in the account and in the grants, together,  *)
(* in every reachable state: for any number of accounts, grants and holds. *)
(***************************************************************************)
THEOREM HoldsAreAlwaysBacked == Spec => []HoldsAreBacked
<1>1. HeldIsActiveHolds /\ GrantsCoverHolds => HoldsAreBacked
  BY DEF HoldsAreBacked
<1> QED BY <1>1, HeldAlwaysIsActiveHolds, GrantsAlwaysCoverHolds, PTL

-------------------------------------------------------------------------------
(***************************************************************************)
(* Where every micro is. Beyond Cover: a hold that exists is what          *)
(* #finishHold expects, one that does not has reserved nothing; a grant    *)
(* that never was active is untouched; only expired grants have an expiry  *)
(* in the journal.                                                         *)
(***************************************************************************)
Booked(h) ==
  /\ \A g \in Grants : allocation[h][g].captured + allocation[h][g].released <= allocation[h][g].held
  /\ hold[h].status = "absent" => \A g \in Grants : allocation[h][g].held = 0
  /\ hold[h].status # "absent" =>
       /\ HoldIntact(h)
       /\ Total(h, "held") = hold[h].requested
       /\ Total(h, "captured") = hold[h].captured
       /\ Total(h, "released") = hold[h].released
       /\ hold[h].account \in Accounts
       /\ \A g \in AllocationsOf(h) :
            /\ grant[g].account = hold[h].account
            /\ hold[h].status # "active" =>
                 allocation[h][g].captured + allocation[h][g].released = allocation[h][g].held

Lot(g) ==
  /\ grant[g].status = "absent" => grant[g].account = None /\ g \notin early
  /\ grant[g].status \in {"absent", "pending"} =>
       /\ grant[g].remaining = grant[g].original
       /\ \A h \in Holds : allocation[h][g].held = 0

ExpiriesAreFinal ==
  \A e \in journal : e.kind = "expiry" => e.source \in Grants /\ grant[e.source].status = "expired"

Books == Cover /\ ExpiriesAreFinal /\ (\A h \in Holds : Booked(h)) /\ (\A g \in Grants : Lot(g))

(* What a hold was allocated in all, as sums of its rows.                  *)
LEMMA TotalIs ==
  ASSUME NEW h \in Holds
  PROVE  /\ Total(h, "held") = Sum(AllocationsOf(h), [g \in Grants |-> allocation[h][g].held])
         /\ Total(h, "captured") = Sum(AllocationsOf(h), [g \in Grants |-> allocation[h][g].captured])
         /\ Total(h, "released") = Sum(AllocationsOf(h), [g \in Grants |-> allocation[h][g].released])
BY DEF Total

(* Every amount of a row is a natural. *)
LEMMA RowTypes ==
  ASSUME TypeOK
  PROVE  /\ \A g \in Grants : grant[g].remaining \in Nat /\ grant[g].original \in Nat
         /\ \A h \in Holds : /\ hold[h].requested \in Nat /\ hold[h].captured \in Nat
                             /\ hold[h].released \in Nat
         /\ \A h \in Holds, g \in Grants :
              /\ allocation[h][g].held \in Nat /\ allocation[h][g].captured \in Nat
              /\ allocation[h][g].released \in Nat
         /\ \A a \in Accounts : account[a].available \in Nat /\ account[a].held \in Nat
BY LedgerAssumption DEF TypeOK, GrantRows, HoldRows, AllocationRows, AccountRows, Micros

(***************************************************************************)
(* What a finished hold changes.                                           *)
(***************************************************************************)
Used(h, actual) ==
  Greedy(AllocationsOf(h), BurnsBefore, [g \in Grants |-> allocation[h][g].held], actual)

(* A finished hold: its rows are settled grant by grant, and nothing else.  *)
LEMMA FinishMeans ==
  ASSUME Cover, NEW h \in Holds, NEW actual \in Micros,
         NEW terminal \in {"captured", "released"}, NEW source \in Sources,
         Finish(h, actual, terminal, source)
  PROVE  /\ hold[h].status = "active" /\ hold[h].account \in Accounts /\ FinishIntact(h)
         /\ hold[h].requested \in Nat /\ actual \in Nat /\ actual <= hold[h].requested
         /\ hold'[h].status = terminal /\ hold'[h].source = source /\ hold'[h].captured = actual
         /\ hold'[h].released = hold[h].requested - actual
         /\ hold'[h].requested = hold[h].requested /\ hold'[h].account = hold[h].account
         /\ \A k \in Holds \ {h} : hold'[k] = hold[k] /\ allocation'[k] = allocation[k]
         /\ \A g \in Grants : /\ allocation'[h][g].held = allocation[h][g].held
                              /\ allocation'[h][g].captured = Used(h, actual)[g]
                              /\ allocation'[h][g].released
                                   = allocation[h][g].held - Used(h, actual)[g]
                              /\ Used(h, actual)[g] \in Nat
                              /\ Used(h, actual)[g] <= allocation[h][g].held
                              /\ g \notin AllocationsOf(h) => Used(h, actual)[g] = 0
         /\ Sum(AllocationsOf(h), Used(h, actual)) = actual
         /\ \A g \in Grants : /\ grant'[g].remaining = grant[g].remaining - Used(h, actual)[g]
                              /\ grant'[g].status = grant[g].status
                              /\ grant'[g].account = grant[g].account
                              /\ grant'[g].original = grant[g].original
                              /\ grant'[g].expires = grant[g].expires
                              /\ grant'[g].effective = grant[g].effective
                              /\ Reserved(g) = Reserved(g)' + allocation[h][g].held
                              /\ Reserved(g)' \in Nat
         /\ account'[hold[h].account].available
              = account[hold[h].account].available + (hold[h].requested - actual)
         /\ \A a \in Accounts \ {hold[h].account} : account'[a].available = account[a].available
         /\ UNCHANGED <<now, early>>
<1> DEFINE held == [g \in Grants |-> allocation[h][g].held]
           used == Greedy(AllocationsOf(h), BurnsBefore, held, actual)
           rows == [g \in Grants |-> [held |-> held[g], captured |-> used[g],
                                      released |-> held[g] - used[g]]]
<1>1. /\ hold[h].status = "active" /\ h \in ActiveHolds /\ hold[h] \in HoldRows
      /\ hold[h].account \in Accounts /\ FinishIntact(h) /\ actual <= hold[h].requested
      /\ hold[h].requested \in Nat /\ actual \in Nat
  BY LedgerAssumption DEF Finish, Finishable, ActiveHolds, Cover, TypeOK, ActiveUntouched, HoldRows, Micros
<1>2. \A g \in Grants : /\ used[g] \in Nat /\ used[g] <= held[g]
                        /\ g \notin AllocationsOf(h) => used[g] = 0
  BY UsedBounds, MicrosRest
<1>3. used = Used(h, actual) BY DEF Used
<1>4. /\ allocation' = [allocation EXCEPT ![h] = rows]
      /\ Sum(AllocationsOf(h), used) = actual
      /\ grant' = [g \in Grants |-> [grant[g] EXCEPT !.remaining = @ - used[g]]]
      /\ UNCHANGED <<now, early>>
  BY DEF Finish
<1>5. \A g \in Grants : held[g] = allocation[h][g].held
  OBVIOUS
<1> HIDE DEF used, held
<1>6. /\ hold'[h].status = terminal /\ hold'[h].source = source /\ hold'[h].captured = actual
      /\ hold'[h].released = hold[h].requested - actual
      /\ hold'[h].requested = hold[h].requested /\ hold'[h].account = hold[h].account
      /\ \A k \in Holds \ {h} : hold'[k] = hold[k]
  BY <1>1 DEF Finish, Cover, TypeOK, HoldRows
<1>7. /\ \A g \in Grants : /\ allocation'[h][g].held = held[g]
                           /\ allocation'[h][g].captured = used[g]
                           /\ allocation'[h][g].released = held[g] - used[g]
      /\ \A k \in Holds \ {h} : allocation'[k] = allocation[k]
  BY <1>4 DEF Cover, TypeOK
<1>8. \A g \in Grants : /\ grant'[g].remaining = grant[g].remaining - used[g]
                        /\ grant'[g].status = grant[g].status
                        /\ grant'[g].account = grant[g].account
                        /\ grant'[g].original = grant[g].original
                        /\ grant'[g].expires = grant[g].expires
                        /\ grant'[g].effective = grant[g].effective
  BY <1>4 DEF Cover, TypeOK, GrantRows
<1>9. \A g \in Grants : /\ Reserved(g) = Reserved(g)' + allocation[h][g].held
                        /\ Reserved(g)' \in Nat
  BY <1>1, <1>6, <1>7, ReservedShrinks DEF Cover
<1>10. /\ account'[hold[h].account].available
             = account[hold[h].account].available + (hold[h].requested - actual)
       /\ \A a \in Accounts \ {hold[h].account} : account'[a].available = account[a].available
  BY <1>1 DEF Finish, FinishedAccount, Cover, TypeOK, AccountRows
<1> QED BY <1>1, <1>2, <1>3, <1>4, <1>5, <1>6, <1>7, <1>8, <1>9, <1>10

(***************************************************************************)
(* What a refresh changes, grant by grant.                                 *)
(***************************************************************************)
LEMMA RefreshedIs ==
  ASSUME Cover, NEW a \in Accounts, NEW t \in Int, NEW g \in Grants
  PROVE  LET row == RefreshedGrants(a, t)[g]
         IN  /\ row.account = grant[g].account /\ row.original = grant[g].original
             /\ row.effective = grant[g].effective /\ row.expires = grant[g].expires
             /\ g \in Opening(a, t) =>
                  /\ grant[g].status = "pending" /\ row.status = "active"
                  /\ row.remaining = grant[g].remaining
             /\ g \in Lapsing(a, t) =>
                  /\ grant[g].status \in {"active", "pending"} /\ row.status = "expired"
                  /\ row.remaining = Reserved(g)
             /\ g \notin Opening(a, t) \cup Lapsing(a, t) =>
                  row.status = grant[g].status /\ row.remaining = grant[g].remaining
             /\ g \in Opening(a, t) => g \notin Lapsing(a, t)
<1>1. grant[g] \in GrantRows BY DEF Cover, TypeOK
<1>2. g \in Opening(a, t) => g \notin Lapsing(a, t)
  BY <1>1, LedgerAssumption DEF Opening, Lapsing, InWindow, GrantRows, Never
<1>3. RefreshedGrants(a, t)[g] =
        IF g \in Opening(a, t) THEN [grant[g] EXCEPT !.status = "active"]
        ELSE IF g \in Lapsing(a, t)
             THEN [grant[g] EXCEPT !.status = "expired", !.remaining = Reserved(g)]
             ELSE grant[g]
  BY DEF RefreshedGrants
<1>4. g \in Opening(a, t) => grant[g].status = "pending"
  BY DEF Opening
<1>5. g \in Lapsing(a, t) => grant[g].status \in {"active", "pending"}
  BY DEF Lapsing
<1> QED BY <1>1, <1>2, <1>3, <1>4, <1>5 DEF GrantRows

(***************************************************************************)
(* What a reservation changes, on top of the refresh it begins with.       *)
(***************************************************************************)
Share(a, requested, t) == Greedy(Eligible(a, t), BurnsBefore, Allocatable(a), requested)

(* A reservation: one new hold, whose shares are exactly what it requested. *)
LEMMA ReserveMeans ==
  ASSUME Cover, NEW a \in Accounts, NEW h \in Holds, NEW requested \in Micros \ {0},
         NEW t \in Later, Reserve(a, h, requested, t)
  PROVE  /\ hold[h].status = "absent" /\ requested \in Nat /\ RefreshCommits(a, now)
         /\ hold'[h].status = "active" /\ hold'[h].source = None /\ hold'[h].captured = 0
         /\ hold'[h].released = 0 /\ hold'[h].requested = requested /\ hold'[h].account = a
         /\ \A k \in Holds \ {h} : hold'[k] = hold[k] /\ allocation'[k] = allocation[k]
         /\ \A g \in Grants : /\ allocation'[h][g].held = Share(a, requested, t)[g]
                              /\ allocation'[h][g].captured = 0
                              /\ allocation'[h][g].released = 0
                              /\ Share(a, requested, t)[g] \in Nat
                              /\ g \notin Eligible(a, t) => Share(a, requested, t)[g] = 0
                              /\ Reserved(g)' = Reserved(g) + Share(a, requested, t)[g]
         /\ Sum(Eligible(a, t), Share(a, requested, t)) = requested
         /\ grant' = RefreshedGrants(a, now)
         /\ journal' = journal \cup RefreshEntries(a, now)
         /\ account'[a].available = account[a].available + RefreshDelta(a, now) - requested
         /\ \A b \in Accounts \ {a} : account'[b].available = account[b].available
         /\ now' = t /\ t \in Int /\ early' = early
<1> DEFINE share == Greedy(Eligible(a, t), BurnsBefore, Allocatable(a), requested)
           newHold == [NoHold EXCEPT !.status = "active", !.account = a,
                                     !.requested = requested]
           rows == [g \in Grants |-> [NoAllocation EXCEPT !.held = share[g]]]
<1>1. /\ hold[h].status = "absent" /\ RefreshCommits(a, now)
      /\ hold' = [hold EXCEPT ![h] = newHold]
      /\ allocation' = [allocation EXCEPT ![h] = rows]
      /\ grant' = RefreshedGrants(a, now)
      /\ journal' = journal \cup RefreshEntries(a, now)
      /\ now' = t /\ early' = early
      /\ Sum(Eligible(a, t), share) = requested
  BY DEF Reserve
<1>2. \A g \in Grants : share[g] \in Nat /\ (g \notin Eligible(a, t) => share[g] = 0)
  <2>1. \A g \in Grants : share[g] \in Nat BY ShareBounds, LedgerAssumption DEF Micros
  <2>2. \A g \in Grants : g \notin Eligible(a, t) => share[g] = 0
    BY DEF Greedy, Allocatable
  <2> QED BY <2>1, <2>2
<1>3. share = Share(a, requested, t) BY DEF Share
<1> HIDE DEF share
<1>4. /\ newHold.status = "active" /\ newHold.account = a /\ newHold.requested = requested
      /\ newHold.source = None /\ newHold.captured = 0 /\ newHold.released = 0
  BY DEF NoHold
<1>5. \A g \in Grants : rows[g].held = share[g] /\ rows[g].captured = 0 /\ rows[g].released = 0
  BY DEF NoAllocation
<1> HIDE DEF newHold, rows
<1>6. /\ hold'[h] = newHold /\ allocation'[h] = rows
      /\ \A k \in Holds \ {h} : hold'[k] = hold[k] /\ allocation'[k] = allocation[k]
  BY <1>1 DEF Cover, TypeOK
<1>7. \A g \in Grants : Reserved(g)' = Reserved(g) + share[g]
  BY <1>1, <1>2, <1>4, <1>5, <1>6, ReservedGrows DEF Cover
<1>8. /\ account'[a].available = account[a].available + RefreshDelta(a, now) - requested
      /\ \A b \in Accounts \ {a} : account'[b].available = account[b].available
  <2> DEFINE refreshed == account[a].available + RefreshDelta(a, now)
             row == [account[a] EXCEPT !.available = refreshed - requested,
                                       !.held = account[a].held + requested]
  <2>1. account[a] \in AccountRows /\ account \in [Accounts -> AccountRows]
    BY DEF Cover, TypeOK
  <2>2. account' = [account EXCEPT ![a] = row]
    BY <2>1 DEF Reserve
  <2>3. row.available = refreshed - requested
    BY <2>1 DEF AccountRows
  <2>4. refreshed = account[a].available + RefreshDelta(a, now)
    OBVIOUS
  <2>5. account[a].available \in Int /\ RefreshDelta(a, now) \in Int /\ requested \in Int
    BY LedgerAssumption, <2>1, RefreshDeltaInt DEF AccountRows, Micros
  <2> HIDE DEF row
  <2>6. account'[a] = row /\ \A b \in Accounts \ {a} : account'[b] = account[b]
    BY <2>1, <2>2
  <2> HIDE DEF refreshed
  <2>7. account'[a].available = refreshed - requested
    BY <2>3, <2>6
  <2>8. account'[a].available = account[a].available + RefreshDelta(a, now) - requested
    BY <2>7, <2>4, <2>5
  <2>9. \A b \in Accounts \ {a} : account'[b].available = account[b].available
    BY <2>6
  <2> QED BY <2>8, <2>9
<1>9. t \in Int /\ requested \in Nat
  BY LedgerAssumption DEF Later, Cover, TypeOK, Micros
<1> QED BY <1>1, <1>2, <1>3, <1>4, <1>5, <1>6, <1>7, <1>8, <1>9

(* What a grant changes: one row, which did not exist.                     *)
LEMMA GrantCreditMeans ==
  ASSUME Cover, NEW a \in Accounts, NEW g \in Grants, NEW amount \in Micros \ {0},
         NEW effective \in 0 .. MaxTime, NEW expires \in 1 .. Never, NEW t \in Later,
         GrantCredit(a, g, amount, effective, expires, t)
  PROVE  LET active == effective <= now + AppSkew
             counted == effective <= t + AppSkew
         IN  /\ grant[g].status = "absent" /\ amount \in Nat /\ (active => counted)
             /\ grant'[g].status = IF active THEN "active" ELSE "pending"
             /\ grant'[g].account = a /\ grant'[g].original = amount /\ grant'[g].remaining = amount
             /\ \A k \in Grants \ {g} : grant'[k] = grant[k]
             /\ account'[a].available = account[a].available + (IF counted THEN amount ELSE 0)
             /\ \A b \in Accounts \ {a} : account'[b].available = account[b].available
             /\ early' = early \cup (IF counted /\ ~active THEN {g} ELSE {})
             /\ journal' = journal \cup {Entry(a, NextSeq(a), "grant", amount, g)}
             /\ UNCHANGED <<hold, allocation>>
<1>1. /\ grant' = [grant EXCEPT ![g] =
                     [status |-> IF effective <= now + AppSkew THEN "active" ELSE "pending",
                      account |-> a, original |-> amount, remaining |-> amount,
                      effective |-> effective, expires |-> expires]]
      /\ grant[g].status = "absent"
      /\ early' = early \cup (IF effective <= t + AppSkew /\ ~(effective <= now + AppSkew)
                              THEN {g} ELSE {})
      /\ journal' = journal \cup {Entry(a, NextSeq(a), "grant", amount, g)}
      /\ UNCHANGED <<hold, allocation>>
  BY DEF GrantCredit
<1>2. /\ grant'[g].status = IF effective <= now + AppSkew THEN "active" ELSE "pending"
      /\ grant'[g].account = a /\ grant'[g].original = amount /\ grant'[g].remaining = amount
      /\ \A k \in Grants \ {g} : grant'[k] = grant[k]
  BY <1>1 DEF Cover, TypeOK
<1>3. /\ account'[a].available = account[a].available
                                 + (IF effective <= t + AppSkew THEN amount ELSE 0)
      /\ \A b \in Accounts \ {a} : account'[b].available = account[b].available
  BY DEF GrantCredit, Cover, TypeOK, AccountRows
<1>4. amount \in Nat /\ (effective <= now + AppSkew => effective <= t + AppSkew)
  BY LedgerAssumption DEF Later, Cover, TypeOK, Micros
<1> QED BY <1>1, <1>2, <1>3, <1>4

(* A hold whose rows stay, and whose grants keep their account, stays      *)
(* intact.                                                                 *)
LEMMA BookedKept ==
  ASSUME NEW h \in Holds, Booked(h), hold'[h] = hold[h], allocation'[h] = allocation[h],
         \A g \in AllocationsOf(h) : grant'[g].account = grant[g].account
  PROVE  Booked(h)'
<1>1. AllocationsOf(h)' = AllocationsOf(h)
  BY DEF AllocationsOf
<1>2. HoldIntact(h)' = HoldIntact(h)
  BY DEF HoldIntact
<1>3. /\ Total(h, "held")' = Total(h, "held")
      /\ Total(h, "captured")' = Total(h, "captured")
      /\ Total(h, "released")' = Total(h, "released")
  BY <1>1 DEF Total
<1> QED BY <1>1, <1>2, <1>3 DEF Booked

(* An empty ledger is in order.                                            *)
LEMMA InitBooks == Init => Books
<1> SUFFICES ASSUME Init PROVE Books
  OBVIOUS
<1>1. Cover
  BY InitCover
<1>2. ExpiriesAreFinal
  BY DEF Init, ExpiriesAreFinal
<1>3. ASSUME NEW h \in Holds PROVE Booked(h)
  <2>1. hold[h].status = "absent"
    BY DEF Init, NoHold
  <2>2. \A g \in Grants : /\ allocation[h][g].held = 0 /\ allocation[h][g].captured = 0
                          /\ allocation[h][g].released = 0
    BY DEF Init, NoAllocation
  <2> QED BY <2>1, <2>2 DEF Booked
<1>4. ASSUME NEW g \in Grants PROVE Lot(g)
  BY DEF Init, Lot, NoGrant, NoAllocation
<1> QED BY <1>1, <1>2, <1>3, <1>4 DEF Books

(* Steps that change neither holds nor grants nor the journal.             *)
LEMMA AloneBooks ==
  ASSUME Books, Cover', UNCHANGED <<hold, allocation, grant, journal, early>>
  PROVE  Books'
<1>1. ExpiriesAreFinal'
  BY DEF Books, ExpiriesAreFinal
<1>2. \A h \in Holds : Booked(h)'
  BY BookedKept DEF Books
<1>3. \A g \in Grants : Lot(g)'
  BY DEF Books, Lot
<1> QED BY <1>1, <1>2, <1>3 DEF Books

(* A new grant has no hold on it yet.                                      *)
LEMMA GrantCreditBooks ==
  ASSUME Books, Cover', NEW a \in Accounts, NEW g \in Grants, NEW amount \in Micros \ {0},
         NEW effective \in 0 .. MaxTime, NEW expires \in 1 .. Never, NEW t \in Later,
         GrantCredit(a, g, amount, effective, expires, t)
  PROVE  Books'
<1>1. /\ grant[g].status = "absent" /\ amount \in Nat
      /\ grant'[g].status \in {"active", "pending"}
      /\ grant'[g].original = amount /\ grant'[g].remaining = amount
      /\ \A k \in Grants \ {g} : grant'[k] = grant[k]
      /\ early' \subseteq early \cup {g}
      /\ journal' = journal \cup {Entry(a, NextSeq(a), "grant", amount, g)}
      /\ UNCHANGED <<hold, allocation>>
  BY GrantCreditMeans DEF Books
<1>2. \A h \in Holds : allocation[h][g].held = 0
  BY <1>1 DEF Books, Lot
<1>3. ASSUME NEW h \in Holds PROVE Booked(h)'
  <2>1. \A k \in AllocationsOf(h) : grant'[k].account = grant[k].account
    BY <1>1, <1>2 DEF AllocationsOf
  <2> QED BY <1>1, <2>1, BookedKept DEF Books
<1>4. ASSUME NEW k \in Grants PROVE Lot(k)'
  BY <1>1, <1>2 DEF Books, Lot
<1>5. ExpiriesAreFinal'
  BY <1>1 DEF Books, ExpiriesAreFinal, Entry
<1> QED BY <1>3, <1>4, <1>5 DEF Books

(* A refresh journals one expiry for each lapsing grant that held credit:  *)
(* of that grant, and of what was free in it.                              *)
LEMMA RefreshEntriesAre ==
  ASSUME NEW a, NEW t
  PROVE  /\ \A e \in RefreshEntries(a, t) :
              /\ e.source \in Lapsing(a, t) /\ e.kind = "expiry"
              /\ e.amount = ExpiredAvailable[e.source] /\ e.amount > 0
         /\ \A g \in Lapsing(a, t) : ExpiredAvailable[g] > 0 =>
              \E e \in RefreshEntries(a, t) : e.source = g
         /\ \A d, e \in RefreshEntries(a, t) : d.source = e.source => d = e
<1> DEFINE written == {g \in Lapsing(a, t) : ExpiredAvailable[g] > 0}
           seq(g) == NextSeq(a) + Cardinality({k \in written : k < g})
           entry(g) == Entry(a, seq(g), "expiry", ExpiredAvailable[g], g)
<1>1. RefreshEntries(a, t) = {entry(g) : g \in written}
  BY DEF RefreshEntries
<1> HIDE DEF seq
<1>2. \A g \in written : /\ entry(g).source = g /\ entry(g).kind = "expiry"
                         /\ entry(g).amount = ExpiredAvailable[g]
  BY DEF Entry
<1>3. \A g \in written : g \in Lapsing(a, t) /\ ExpiredAvailable[g] > 0
  OBVIOUS
<1>4. \A g \in Lapsing(a, t) : ExpiredAvailable[g] > 0 => g \in written
  OBVIOUS
<1> HIDE DEF entry, written
<1> QED BY <1>1, <1>2, <1>3, <1>4

(* After a refresh only expired grants have an expiry in the journal, and  *)
(* a grant that is pending or missing still is as it was.                  *)
LEMMA RefreshedBooks ==
  ASSUME Books, NEW a \in Accounts, NEW t \in Int
  PROVE  /\ \A e \in journal \cup RefreshEntries(a, t) : e.kind = "expiry" =>
              e.source \in Grants /\ RefreshedGrants(a, t)[e.source].status = "expired"
         /\ \A g \in Grants : RefreshedGrants(a, t)[g].status \in {"absent", "pending"} =>
              /\ RefreshedGrants(a, t)[g].status = grant[g].status
              /\ RefreshedGrants(a, t)[g].remaining = grant[g].remaining
<1>1. ASSUME NEW g \in Grants, RefreshedGrants(a, t)[g].status \in {"absent", "pending"}
      PROVE  /\ RefreshedGrants(a, t)[g].status = grant[g].status
             /\ RefreshedGrants(a, t)[g].remaining = grant[g].remaining
  BY <1>1, RefreshedIs DEF Books
<1>2. ASSUME NEW e \in journal, e.kind = "expiry"
      PROVE  e.source \in Grants /\ RefreshedGrants(a, t)[e.source].status = "expired"
  <2>1. e.source \in Grants /\ grant[e.source].status = "expired"
    BY <1>2 DEF Books, ExpiriesAreFinal
  <2>2. e.source \notin Opening(a, t) \cup Lapsing(a, t)
    BY <2>1 DEF Opening, Lapsing
  <2> QED BY <2>1, <2>2, RefreshedIs DEF Books
<1>3. ASSUME NEW e \in RefreshEntries(a, t)
      PROVE  e.source \in Grants /\ RefreshedGrants(a, t)[e.source].status = "expired"
  <2>1. e.source \in Lapsing(a, t)
    BY RefreshEntriesAre
  <2>2. e.source \in Grants
    BY <2>1 DEF Lapsing, GrantsOf
  <2> QED BY <2>1, <2>2, RefreshedIs DEF Books
<1> QED BY <1>1, <1>2, <1>3

(* A refresh journals expiries of the grants that it expires.              *)
LEMMA RefreshGrantWindowsBooks ==
  ASSUME Books, Cover', NEW a \in Accounts, RefreshGrantWindows(a)
  PROVE  Books'
<1>1. /\ grant' = RefreshedGrants(a, now)
      /\ journal' = journal \cup RefreshEntries(a, now)
      /\ UNCHANGED <<hold, allocation, early>>
  BY DEF RefreshGrantWindows
<1>2. now \in Int
  BY LedgerAssumption DEF Books, Cover, TypeOK
<1>3. ExpiriesAreFinal'
  BY <1>1, <1>2, RefreshedBooks DEF ExpiriesAreFinal
<1>4. \A g \in Grants : grant'[g].account = grant[g].account
                          /\ grant'[g].original = grant[g].original
  BY <1>1, <1>2, RefreshedIs DEF Books
<1>5. ASSUME NEW h \in Holds PROVE Booked(h)'
  <2>1. \A k \in AllocationsOf(h) : grant'[k].account = grant[k].account
    BY <1>4 DEF AllocationsOf
  <2> QED BY <1>1, <2>1, BookedKept DEF Books
<1>6. ASSUME NEW g \in Grants PROVE Lot(g)'
  <2>1. grant'[g].status \in {"absent", "pending"} =>
          grant'[g].status = grant[g].status /\ grant'[g].remaining = grant[g].remaining
    BY <1>1, <1>2, RefreshedBooks
  <2> QED BY <1>1, <1>4, <2>1 DEF Books, Lot
<1> QED BY <1>3, <1>5, <1>6 DEF Books

(* A reservation adds a hold whose rows add up, on active grants only.     *)
LEMMA ReserveBooks ==
  ASSUME Books, Cover', NEW a \in Accounts, NEW h \in Holds, NEW requested \in Micros \ {0},
         NEW t \in Later, Reserve(a, h, requested, t)
  PROVE  Books'
<1> DEFINE share == Share(a, requested, t)
           held == [g \in Grants |-> allocation'[h][g].held]
<1>1. /\ hold[h].status = "absent" /\ requested \in Nat
      /\ hold'[h].status = "active" /\ hold'[h].source = None /\ hold'[h].captured = 0
      /\ hold'[h].released = 0 /\ hold'[h].requested = requested /\ hold'[h].account = a
      /\ \A k \in Holds \ {h} : hold'[k] = hold[k] /\ allocation'[k] = allocation[k]
      /\ \A g \in Grants : /\ allocation'[h][g].held = share[g]
                           /\ allocation'[h][g].captured = 0
                           /\ allocation'[h][g].released = 0
                           /\ share[g] \in Nat
                           /\ g \notin Eligible(a, t) => share[g] = 0
      /\ Sum(Eligible(a, t), share) = requested
      /\ grant' = RefreshedGrants(a, now)
      /\ journal' = journal \cup RefreshEntries(a, now)
      /\ early' = early
  BY ReserveMeans DEF Books
<1>2. now \in Int
  BY LedgerAssumption DEF Books, Cover, TypeOK
<1> HIDE DEF share
<1>3. ExpiriesAreFinal'
  BY <1>1, <1>2, RefreshedBooks DEF ExpiriesAreFinal
<1>4. \A g \in Grants : grant'[g].account = grant[g].account
                          /\ grant'[g].original = grant[g].original
  BY <1>1, <1>2, RefreshedIs DEF Books
<1>5. ASSUME NEW k \in Holds \ {h} PROVE Booked(k)'
  <2>1. \A g \in AllocationsOf(k) : grant'[g].account = grant[g].account
    BY <1>4 DEF AllocationsOf
  <2> QED BY <1>1, <2>1, BookedKept DEF Books
<1>6. Booked(h)'
  <2>1. AllocationsOf(h)' = {g \in Grants : held[g] > 0}
    BY DEF AllocationsOf
  <2>2. \A g \in Grants : held[g] = share[g]
    BY <1>1
  <2> HIDE DEF held
  <2>3. AllocationsOf(h)' \subseteq Eligible(a, t) /\ Eligible(a, t) \subseteq Grants
    BY <1>1, <2>1, <2>2 DEF Eligible, GrantsOf
  <2>4. Sum(AllocationsOf(h)', held) = requested
    <3>1. Sum(AllocationsOf(h)', held) = Sum(AllocationsOf(h)', share)
      BY <2>1, <2>2, SumEqual
    <3>2. \A g \in Eligible(a, t) : share[g] \in Nat
      BY <1>1, <2>3
    <3>3. \A g \in Eligible(a, t) \ AllocationsOf(h)' : share[g] = 0
      BY <1>1, <2>1, <2>2, <2>3
    <3>4. IsFiniteSet(Eligible(a, t))
      BY <2>3, GrantsFinite
    <3>5. Sum(Eligible(a, t), share) = Sum(AllocationsOf(h)', share)
      BY <2>3, <3>2, <3>3, <3>4, SumWithoutZeros
    <3> QED BY <1>1, <3>1, <3>5
  <2>5. Total(h, "held")' = requested
    BY <2>4 DEF Total, held
  <2>6. Total(h, "captured")' = 0 /\ Total(h, "released")' = 0
    <3> DEFINE captured == [g \in Grants |-> allocation'[h][g].captured]
               released == [g \in Grants |-> allocation'[h][g].released]
    <3>1. \A g \in AllocationsOf(h)' : captured[g] = 0 /\ released[g] = 0
      BY <1>1, <2>1
    <3>2. Sum(AllocationsOf(h)', captured) = 0 /\ Sum(AllocationsOf(h)', released) = 0
      <4> HIDE DEF captured, released
      <4> QED BY <3>1, SumZero
    <3> QED BY <3>2 DEF Total
  <2>7. HoldIntact(h)'
    BY <1>1 DEF HoldIntact
  <2>8. \A g \in AllocationsOf(h)' : grant'[g].account = a
    BY <1>4, <2>3 DEF Eligible, GrantsOf
  <2>9. \A g \in Grants :
          allocation'[h][g].captured + allocation'[h][g].released <= allocation'[h][g].held
    BY <1>1
  <2> QED BY <1>1, <2>5, <2>6, <2>7, <2>8, <2>9 DEF Booked
<1>7. ASSUME NEW g \in Grants PROVE Lot(g)'
  <2>1. grant'[g].status \in {"absent", "pending"} =>
          /\ grant'[g].status = grant[g].status /\ grant'[g].remaining = grant[g].remaining
          /\ share[g] = 0
    BY <1>1, <1>2, RefreshedBooks DEF Eligible
  <2> QED BY <1>1, <1>4, <2>1 DEF Books, Lot
<1> QED BY <1>3, <1>5, <1>6, <1>7 DEF Books

(* A finished hold's rows add up to what it captured and released.         *)
LEMMA FinishBooks ==
  ASSUME Books, Cover', NEW h \in Holds, NEW actual \in Micros,
         NEW terminal \in {"captured", "released"}, NEW source \in Sources,
         Finish(h, actual, terminal, source), terminal = "released" => actual = 0,
         \A e \in journal' : e.kind = "expiry" => e \in journal
  PROVE  Books'
<1> DEFINE used == Used(h, actual)
           held == [g \in Grants |-> allocation[h][g].held]
           rest == [g \in Grants |-> allocation'[h][g].released]
           taken == [g \in Grants |-> allocation'[h][g].captured]
<1>1. /\ hold[h].status = "active" /\ hold[h].account \in Accounts /\ FinishIntact(h)
      /\ hold[h].requested \in Nat /\ actual \in Nat /\ actual <= hold[h].requested
      /\ hold'[h].status = terminal /\ hold'[h].source = source /\ hold'[h].captured = actual
      /\ hold'[h].released = hold[h].requested - actual
      /\ hold'[h].requested = hold[h].requested /\ hold'[h].account = hold[h].account
      /\ \A k \in Holds \ {h} : hold'[k] = hold[k] /\ allocation'[k] = allocation[k]
      /\ \A g \in Grants : /\ allocation'[h][g].held = allocation[h][g].held
                           /\ allocation'[h][g].captured = used[g]
                           /\ allocation'[h][g].released = allocation[h][g].held - used[g]
                           /\ used[g] \in Nat /\ used[g] <= allocation[h][g].held
                           /\ g \notin AllocationsOf(h) => used[g] = 0
      /\ Sum(AllocationsOf(h), used) = actual
      /\ \A g \in Grants : /\ grant'[g].remaining = grant[g].remaining - used[g]
                           /\ grant'[g].status = grant[g].status
                           /\ grant'[g].account = grant[g].account
                           /\ grant'[g].original = grant[g].original
      /\ UNCHANGED <<now, early>>
  BY FinishMeans DEF Books
<1> HIDE DEF used
<1>2. \A k \in Holds, g \in Grants : allocation[k][g].held \in Nat
  BY RowTypes DEF Books, Cover
<1>3. ExpiriesAreFinal'
  BY <1>1 DEF Books, ExpiriesAreFinal
<1>4. ASSUME NEW k \in Holds \ {h} PROVE Booked(k)'
  <2>1. \A g \in AllocationsOf(k) : grant'[g].account = grant[g].account
    BY <1>1 DEF AllocationsOf
  <2> QED BY <1>1, <2>1, BookedKept DEF Books
<1>5. Booked(h)'
  <2>1. /\ AllocationsOf(h)' = AllocationsOf(h) /\ AllocationsOf(h) \subseteq Grants
        /\ IsFiniteSet(AllocationsOf(h))
    BY <1>1, GrantsFinite DEF AllocationsOf
  <2>2. \A g \in Grants : /\ held[g] = allocation'[h][g].held /\ held[g] \in Nat
                          /\ taken[g] = used[g] /\ used[g] \in Nat
                          /\ rest[g] = held[g] - used[g] /\ rest[g] \in Nat
                          /\ held[g] = used[g] + rest[g]
    BY <1>1, <1>2
  <2>3. /\ Total(h, "held")' = Sum(AllocationsOf(h)', [g \in Grants |-> allocation'[h][g].held])
        /\ Total(h, "captured")' = Sum(AllocationsOf(h)', taken)
        /\ Total(h, "released")' = Sum(AllocationsOf(h)', rest)
    BY DEF Total
  <2>4. Total(h, "held") = Sum(AllocationsOf(h), held) /\ Total(h, "held") = hold[h].requested
    BY <1>1 DEF Total, FinishIntact
  <2>5. [g \in Grants |-> allocation'[h][g].held] = held
    BY <2>2
  <2> HIDE DEF held, rest, taken
  <2>6. Sum(AllocationsOf(h), held) = Sum(AllocationsOf(h), used) + Sum(AllocationsOf(h), rest)
    BY <2>1, <2>2, SumAdd
  <2>7. Sum(AllocationsOf(h), taken) = Sum(AllocationsOf(h), used)
    BY <2>1, <2>2, SumEqual
  <2>8. Sum(AllocationsOf(h), rest) \in Nat
    BY <2>1, <2>2, SumType
  <2>9. /\ Total(h, "held")' = hold[h].requested
        /\ Total(h, "captured")' = actual
        /\ Total(h, "released")' = hold[h].requested - actual
    BY <1>1, <2>1, <2>3, <2>4, <2>5, <2>6, <2>7, <2>8
  <2>10. HoldIntact(h)'
    BY <1>1, LedgerAssumption DEF HoldIntact
  <2>11. \A g \in AllocationsOf(h) : grant[g].account = hold[h].account
    BY <1>1 DEF Books, Booked
  <2>12. \A g \in Grants :
           allocation'[h][g].captured + allocation'[h][g].released = allocation'[h][g].held
    BY <1>1, <1>2
  <2>13. \A g \in Grants :
           allocation'[h][g].captured + allocation'[h][g].released <= allocation'[h][g].held
    BY <1>1, <1>2
  <2> QED BY <1>1, <2>1, <2>9, <2>10, <2>11, <2>12, <2>13 DEF Booked
<1>6. ASSUME NEW g \in Grants PROVE Lot(g)'
  <2>1. grant[g].status \in {"absent", "pending"} => used[g] = 0
    BY <1>1 DEF Books, Lot, AllocationsOf
  <2>2. grant[g].remaining \in Nat
    BY RowTypes DEF Books, Cover
  <2>3. \A k \in Holds : allocation'[k][g].held = allocation[k][g].held
    BY <1>1
  <2> QED BY <1>1, <2>1, <2>2, <2>3 DEF Books, Lot
<1> QED BY <1>3, <1>4, <1>5, <1>6 DEF Books

(* Books is an inductive invariant, given Cover.                           *)
THEOREM BooksInvariant == Spec => []Books
<1>1. Init => Books
  BY InitBooks
<1>2. ASSUME Books, Cover', [Next]_vars PROVE Books'
  <2>1. ASSUME NEW a \in Accounts, OpenMyAccount(a) \/ DisableAccount(a) PROVE Books'
    BY <1>2, <2>1, AloneBooks DEF OpenMyAccount, DisableAccount
  <2>2. ASSUME NEW a \in Accounts, RefreshGrantWindows(a) PROVE Books'
    BY <1>2, <2>2, RefreshGrantWindowsBooks
  <2>3. ASSUME NEW a \in Accounts, NEW g \in Grants, NEW amount \in Micros \ {0},
               NEW effective \in 0 .. MaxTime, NEW expires \in 1 .. Never, NEW t \in Later,
               GrantCredit(a, g, amount, effective, expires, t)
        PROVE  Books'
    BY <1>2, <2>3, GrantCreditBooks
  <2>4. ASSUME NEW a \in Accounts, NEW h \in Holds, NEW requested \in Micros \ {0},
               NEW t \in Later, Reserve(a, h, requested, t)
        PROVE  Books'
    BY <1>2, <2>4, ReserveBooks
  <2>5. ASSUME NEW h \in Holds, NEW source \in Sources, NEW actual \in Micros,
               Capture(h, actual, source)
        PROVE  Books'
    <3>1. Finish(h, actual, "captured", source)
            /\ journal' = journal \cup DebitEntries(h, actual, source)
      BY <2>5 DEF Capture
    <3>2. \A e \in journal' : e.kind = "expiry" => e \in journal
      BY <3>1 DEF DebitEntries, Entry
    <3> QED BY <1>2, <3>1, <3>2, FinishBooks
  <2>6. ASSUME NEW h \in Holds, NEW source \in Sources, Release(h, source)
        PROVE  Books'
    <3>1. Finish(h, 0, "released", source) /\ journal' = journal /\ 0 \in Micros
      BY <2>6, LedgerAssumption DEF Release, Micros
    <3> QED BY <1>2, <3>1, FinishBooks
  <2>7. CASE Tick \/ UNCHANGED vars
    BY <1>2, <2>7, AloneBooks DEF Tick, vars
  <2> QED BY <1>2, <2>1, <2>2, <2>3, <2>4, <2>5, <2>6, <2>7 DEF Next
<1> QED BY <1>1, <1>2, CoverInvariant, PTL DEF Spec

-------------------------------------------------------------------------------
(***************************************************************************)
(* The available balance, as one sum over the grants of the account.       *)
(***************************************************************************)
\* What grant g adds to the available balance of its account.
Value(g) == IF grant[g].status = "pending" THEN 0 ELSE Free(g)

Values == [g \in Grants |-> Value(g)]

Originals == [g \in Grants |-> grant[g].original]

\* The refreshed grants' part of the balance.
RefreshedValues(a, t) ==
  [g \in Grants |-> IF RefreshedGrants(a, t)[g].status = "pending" THEN 0
                    ELSE RefreshedGrants(a, t)[g].remaining - Reserved(g)]

Exact(a) ==
  account[a].available = Sum(GrantsOf(a), Values) + Sum(GrantsOf(a) \cap early, Originals)

(* An account has finitely many grants.                                    *)
LEMMA GrantsOfFinite ==
  ASSUME NEW a
  PROVE  GrantsOf(a) \subseteq Grants /\ IsFiniteSet(GrantsOf(a)) /\ IsFiniteSet(GrantsOf(a) \cap early)
<1>1. GrantsOf(a) \subseteq Grants /\ GrantsOf(a) \cap early \subseteq Grants
  BY DEF GrantsOf
<1> QED BY <1>1, GrantsFinite

(* What is free in a grant is a natural: its holds are covered.            *)
LEMMA FreeNat ==
  ASSUME Cover, NEW g \in Grants
  PROVE  /\ grant[g].remaining \in Nat /\ grant[g].original \in Nat /\ Reserved(g) \in Nat
         /\ Free(g) = grant[g].remaining - Reserved(g) /\ Free(g) \in Nat
         /\ Values[g] = Value(g) /\ Value(g) \in Nat /\ Originals[g] = grant[g].original
<1>1. grant[g].remaining \in Nat /\ grant[g].original \in Nat /\ Reserved(g) \in Nat
        /\ Reserved(g) <= grant[g].remaining
  BY RowTypes, ReservedNat DEF Cover, GrantsCoverHolds
<1>2. Free(g) = grant[g].remaining - Reserved(g) /\ Free(g) \in Nat
  BY <1>1 DEF Free
<1>3. Value(g) \in Nat
  BY <1>2 DEF Value
<1> QED BY <1>1, <1>2, <1>3 DEF Values, Originals

(* The sum over the grants that are not pending is the sum of the values.  *)
LEMMA ExactMeans ==
  ASSUME Cover
  PROVE  AvailableIsFreeCredit <=> \A a \in Accounts : Exact(a)
<1>1. ASSUME NEW a \in Accounts
      PROVE  Sum({g \in GrantsOf(a) : grant[g].status # "pending"}, [g \in Grants |-> Free(g)])
               = Sum(GrantsOf(a), Values)
  <2> DEFINE standing == {g \in GrantsOf(a) : grant[g].status # "pending"}
             free == [g \in Grants |-> Free(g)]
  <2>1. \A g \in standing : free[g] = Values[g]
    BY FreeNat, GrantsOfFinite DEF Value
  <2>2. \A g \in GrantsOf(a) : Values[g] \in Nat
    BY FreeNat, GrantsOfFinite
  <2>3. \A g \in GrantsOf(a) \ standing : Values[g] = 0
    BY FreeNat, GrantsOfFinite DEF Value
  <2>4. standing \in SUBSET GrantsOf(a)
    OBVIOUS
  <2> HIDE DEF standing, free
  <2>5. Sum(GrantsOf(a), Values) = Sum(standing, Values)
    BY <2>2, <2>3, <2>4, GrantsOfFinite, SumWithoutZeros
  <2>6. Sum(standing, free) = Sum(standing, Values)
    BY <2>1, SumEqual
  <2> QED BY <2>5, <2>6 DEF standing, free
<1> QED BY <1>1 DEF AvailableIsFreeCredit, Exact, Originals

(* A refresh moves the balance by what it opens and what lapses.           *)
LEMMA RefreshedValuesSum ==
  ASSUME Books, NEW a \in Accounts, NEW t \in Int
  PROVE  /\ \A g \in Grants : RefreshedValues(a, t)[g] \in Nat
         /\ \A g \in Grants \ GrantsOf(a) : RefreshedValues(a, t)[g] = Values[g]
         /\ Sum(GrantsOf(a), RefreshedValues(a, t)) = Sum(GrantsOf(a), Values) + RefreshDelta(a, t)
<1> DEFINE opens == [g \in Grants |-> IF g \in Opening(a, t) THEN grant[g].remaining ELSE 0]
           lapses == [g \in Grants |-> IF g \in Lapsing(a, t) THEN ExpiredAvailable[g] ELSE 0]
           both == [g \in Grants |-> Values[g] + opens[g]]
           after == RefreshedValues(a, t)
<1>1. Cover
  BY DEF Books
<1>2. GrantsOf(a) \subseteq Grants /\ IsFiniteSet(GrantsOf(a))
  BY GrantsOfFinite
<1>3. ASSUME NEW g \in Grants
      PROVE  /\ after[g] \in Nat /\ Values[g] \in Nat /\ opens[g] \in Nat /\ lapses[g] \in Nat
             /\ after[g] + lapses[g] = Values[g] + opens[g]
             /\ g \notin GrantsOf(a) => after[g] = Values[g]
  <2>1. /\ after[g] = IF RefreshedGrants(a, t)[g].status = "pending" THEN 0
                      ELSE RefreshedGrants(a, t)[g].remaining - Reserved(g)
        /\ opens[g] = IF g \in Opening(a, t) THEN grant[g].remaining ELSE 0
        /\ lapses[g] = IF g \in Lapsing(a, t) THEN ExpiredAvailable[g] ELSE 0
        /\ ExpiredAvailable[g] = IF grant[g].status = "active" THEN Free(g) ELSE 0
    BY DEF RefreshedValues, ExpiredAvailable
  <2>2. /\ grant[g].remaining \in Nat /\ Reserved(g) \in Nat
        /\ Free(g) = grant[g].remaining - Reserved(g) /\ Free(g) \in Nat
        /\ Values[g] = IF grant[g].status = "pending" THEN 0 ELSE Free(g)
    BY <1>1, FreeNat DEF Value
  <2>3. grant[g].status = "pending" => Reserved(g) = 0
    <3> SUFFICES ASSUME grant[g].status = "pending" PROVE Reserved(g) = 0
      OBVIOUS
    <3>1. \A h \in ActiveHolds : [k \in Holds |-> Open(k, g)][h] = 0
      BY <1>1, OpenIsHeld DEF Books, Lot, ActiveHolds, Cover
    <3> QED BY <3>1, SumZero DEF Reserved
  <2> HIDE DEF after, opens, lapses
  <2>4. CASE g \in Opening(a, t)
    <3>1. g \notin Lapsing(a, t) /\ grant[g].status = "pending" /\ g \in GrantsOf(a)
            /\ RefreshedGrants(a, t)[g].status = "active"
            /\ RefreshedGrants(a, t)[g].remaining = grant[g].remaining
      BY <1>1, <2>4, RefreshedIs DEF Opening
    <3> QED BY <2>1, <2>2, <2>3, <2>4, <3>1
  <2>5. CASE g \in Lapsing(a, t)
    <3>1. g \notin Opening(a, t) /\ grant[g].status \in {"active", "pending"} /\ g \in GrantsOf(a)
            /\ RefreshedGrants(a, t)[g].status = "expired"
            /\ RefreshedGrants(a, t)[g].remaining = Reserved(g)
      BY <1>1, <2>5, RefreshedIs DEF Lapsing
    <3> QED BY <2>1, <2>2, <2>3, <2>5, <3>1
  <2>6. CASE g \notin Opening(a, t) \cup Lapsing(a, t)
    <3>1. /\ RefreshedGrants(a, t)[g].status = grant[g].status
          /\ RefreshedGrants(a, t)[g].remaining = grant[g].remaining
      BY <1>1, <2>6, RefreshedIs
    <3> QED BY <2>1, <2>2, <2>6, <3>1
  <2>7. g \notin GrantsOf(a) => g \notin Opening(a, t) \cup Lapsing(a, t)
    BY DEF Opening, Lapsing
  <2>8. g \notin Opening(a, t) \cup Lapsing(a, t) => after[g] = Values[g]
    <3> SUFFICES ASSUME g \notin Opening(a, t) \cup Lapsing(a, t) PROVE after[g] = Values[g]
      OBVIOUS
    <3>1. /\ RefreshedGrants(a, t)[g].status = grant[g].status
          /\ RefreshedGrants(a, t)[g].remaining = grant[g].remaining
      BY <1>1, RefreshedIs
    <3> QED BY <2>1, <2>2, <3>1
  <2> QED BY <2>4, <2>5, <2>6, <2>7, <2>8
<1>4. \A g \in Opening(a, t) : opens[g] = Remaining[g] /\ g \in GrantsOf(a)
  BY DEF Opening, GrantsOf, Remaining
<1>5. \A g \in Lapsing(a, t) : lapses[g] = ExpiredAvailable[g] /\ g \in GrantsOf(a)
  BY DEF Lapsing, GrantsOf
<1>6. /\ \A g \in GrantsOf(a) \ Opening(a, t) : opens[g] = 0
      /\ \A g \in GrantsOf(a) \ Lapsing(a, t) : lapses[g] = 0
      /\ \A g \in Grants : both[g] = Values[g] + opens[g]
  BY <1>2
<1> HIDE DEF opens, lapses, both, after
<1>7. Sum(GrantsOf(a), opens) = Sum(Opening(a, t), Remaining)
  <2>1. \A g \in GrantsOf(a) : opens[g] \in Nat
    BY <1>2, <1>3
  <2>2. Sum(GrantsOf(a), opens) = Sum(Opening(a, t), opens)
    BY <1>2, <1>4, <1>6, <2>1, SumWithoutZeros
  <2>3. Sum(Opening(a, t), opens) = Sum(Opening(a, t), Remaining)
    BY <1>4, SumEqual
  <2> QED BY <2>2, <2>3
<1>8. Sum(GrantsOf(a), lapses) = Sum(Lapsing(a, t), ExpiredAvailable)
  <2>1. \A g \in GrantsOf(a) : lapses[g] \in Nat
    BY <1>2, <1>3
  <2>2. Sum(GrantsOf(a), lapses) = Sum(Lapsing(a, t), lapses)
    BY <1>2, <1>5, <1>6, <2>1, SumWithoutZeros
  <2>3. Sum(Lapsing(a, t), lapses) = Sum(Lapsing(a, t), ExpiredAvailable)
    BY <1>5, SumEqual
  <2> QED BY <2>2, <2>3
<1>9. \A g \in GrantsOf(a) : /\ Values[g] \in Nat /\ opens[g] \in Nat /\ after[g] \in Nat
                             /\ lapses[g] \in Nat
                             /\ both[g] = Values[g] + opens[g] /\ both[g] = after[g] + lapses[g]
  BY <1>2, <1>3, <1>6
<1>10. /\ Sum(GrantsOf(a), both) = Sum(GrantsOf(a), Values) + Sum(GrantsOf(a), opens)
       /\ Sum(GrantsOf(a), both) = Sum(GrantsOf(a), after) + Sum(GrantsOf(a), lapses)
  BY <1>2, <1>9, SumAdd
<1>11. /\ Sum(GrantsOf(a), Values) \in Nat /\ Sum(GrantsOf(a), opens) \in Nat
       /\ Sum(GrantsOf(a), after) \in Nat /\ Sum(GrantsOf(a), lapses) \in Nat
  BY <1>2, <1>9, SumType
<1>12. Sum(GrantsOf(a), after) = Sum(GrantsOf(a), Values) + RefreshDelta(a, t)
  BY <1>7, <1>8, <1>10, <1>11 DEF RefreshDelta
<1> QED BY <1>3, <1>12 DEF after

(* The sums of the balance, and the balance, are naturals.                 *)
LEMMA ExactTypes ==
  ASSUME Cover, NEW a \in Accounts
  PROVE  /\ Sum(GrantsOf(a), Values) \in Nat
         /\ Sum(GrantsOf(a) \cap early, Originals) \in Nat
         /\ account[a].available \in Nat
<1>1. \A g \in GrantsOf(a) : Values[g] \in Nat /\ Originals[g] \in Nat
  BY FreeNat, GrantsOfFinite
<1>2. \A g \in GrantsOf(a) : Values[g] \in Int /\ Originals[g] \in Int
  BY <1>1
<1>3. \A g \in GrantsOf(a) \cap early : Originals[g] \in Int
  BY <1>2
<1>4. account[a].available \in Nat
  BY RowTypes DEF Cover
<1>5. Sum(GrantsOf(a), Values) \in Nat
  BY <1>2, GrantsOfFinite, SumType
<1>6. Sum(GrantsOf(a) \cap early, Originals) \in Nat
  BY <1>3, GrantsOfFinite, SumType
<1> QED BY <1>4, <1>5, <1>6

(* Steps that leave the rows of the account's grants alone.                *)
LEMMA ExactKept ==
  ASSUME Books, NEW a \in Accounts, Exact(a), Cover',
         GrantsOf(a)' = GrantsOf(a), GrantsOf(a) \cap early' = GrantsOf(a) \cap early,
         account'[a].available = account[a].available,
         \A g \in GrantsOf(a) : Values'[g] = Values[g] /\ Originals'[g] = Originals[g]
  PROVE  Exact(a)'
<1>1. Sum(GrantsOf(a), Values') = Sum(GrantsOf(a), Values)
  BY SumEqual
<1>2. Sum(GrantsOf(a) \cap early, Originals') = Sum(GrantsOf(a) \cap early, Originals)
  BY SumEqual
<1> QED BY <1>1, <1>2 DEF Exact

(* Steps that leave holds and grants alone keep the balance exact.         *)
LEMMA AloneExact ==
  ASSUME Books, Cover', NEW a \in Accounts, Exact(a),
         UNCHANGED <<hold, allocation, grant, early>>,
         account'[a].available = account[a].available
  PROVE  Exact(a)'
<1>1. GrantsOf(a)' = GrantsOf(a) /\ Originals' = Originals
  BY DEF GrantsOf, Originals
<1>2. \A g \in GrantsOf(a) : Values'[g] = Values[g]
  BY ReservedKept, GrantsOfFinite DEF Values, Value, Free
<1> QED BY <1>1, <1>2, ExactKept

(* A grant is counted when it is active, or counted early.                 *)
LEMMA GrantCreditExact ==
  ASSUME Books, Cover', NEW b \in Accounts, Exact(b),
         NEW a \in Accounts, NEW g \in Grants, NEW amount \in Micros \ {0},
         NEW effective \in 0 .. MaxTime, NEW expires \in 1 .. Never, NEW t \in Later,
         GrantCredit(a, g, amount, effective, expires, t)
  PROVE  Exact(b)'
<1> DEFINE active == effective <= now + AppSkew
           counted == effective <= t + AppSkew
<1>1. /\ grant[g].status = "absent" /\ amount \in Nat /\ (active => counted)
      /\ grant'[g].status = IF active THEN "active" ELSE "pending"
      /\ grant'[g].account = a /\ grant'[g].original = amount /\ grant'[g].remaining = amount
      /\ \A k \in Grants \ {g} : grant'[k] = grant[k]
      /\ account'[a].available = account[a].available + (IF counted THEN amount ELSE 0)
      /\ \A c \in Accounts \ {a} : account'[c].available = account[c].available
      /\ early' = early \cup (IF counted /\ ~active THEN {g} ELSE {})
      /\ UNCHANGED <<hold, allocation>>
  BY GrantCreditMeans DEF Books
<1>2. Cover /\ grant[g].account = None /\ g \notin early /\ None \notin Accounts
  BY <1>1, LedgerAssumption DEF Books, Lot
<1>3. Reserved(g) = 0
  <2>1. \A h \in ActiveHolds : [k \in Holds |-> Open(k, g)][h] = 0
    BY <1>1, OpenIsHeld DEF Books, Lot, ActiveHolds, Cover
  <2> QED BY <2>1, SumZero DEF Reserved
<1>4. \A k \in Grants : Reserved(k)' = Reserved(k)
  BY <1>1, ReservedKept
<1>5. \A k \in Grants \ {g} : Values'[k] = Values[k] /\ Originals'[k] = Originals[k]
  BY <1>1, <1>4 DEF Values, Value, Free, Originals
<1> HIDE DEF active, counted
<1>6. CASE b # a
  <2>1. GrantsOf(b)' = GrantsOf(b) /\ g \notin GrantsOf(b)
    BY <1>1, <1>2, <1>6 DEF GrantsOf
  <2>2. GrantsOf(b) \cap early' = GrantsOf(b) \cap early
    BY <1>1, <2>1
  <2>3. \A k \in GrantsOf(b) : Values'[k] = Values[k] /\ Originals'[k] = Originals[k]
    BY <1>5, <2>1, GrantsOfFinite
  <2> QED BY <1>1, <1>6, <2>1, <2>2, <2>3, ExactKept
<1>7. CASE b = a
  <2>1. GrantsOf(a)' = GrantsOf(a) \cup {g} /\ g \notin GrantsOf(a)
    BY <1>1, <1>2 DEF GrantsOf
  <2>2. Values'[g] = IF active THEN amount ELSE 0
    BY <1>1, <1>3, <1>4 DEF Values, Value, Free
  <2>3. Originals'[g] = amount
    BY <1>1 DEF Originals
  <2>4. \A k \in GrantsOf(a) : /\ Values[k] \in Nat /\ Values'[k] = Values[k]
                               /\ Originals[k] \in Nat /\ Originals'[k] = Originals[k]
    BY <1>2, <1>5, <2>1, FreeNat, GrantsOfFinite
  <2>5. Sum(GrantsOf(a)', Values') = Sum(GrantsOf(a), Values) + (IF active THEN amount ELSE 0)
    <3>1. Values'[g] \in Nat
      BY <1>1, <2>2
    <3>2. Sum(GrantsOf(a) \cup {g}, Values') = Sum(GrantsOf(a), Values) + Values'[g]
      <4>1. IsFiniteSet(GrantsOf(a)) /\ g \notin GrantsOf(a)
        BY <2>1, GrantsOfFinite
      <4>2. \A k \in GrantsOf(a) : Values[k] \in Nat /\ Values'[k] = Values[k]
        BY <2>4
      <4> QED BY <3>1, <4>1, <4>2, SumInsert
    <3> QED BY <2>1, <2>2, <3>2
  <2>6. CASE counted /\ ~active
    <3>1. (GrantsOf(a) \cap early)' = (GrantsOf(a) \cap early) \cup {g}
      BY <1>1, <2>1, <2>6
    <3>2. \A k \in GrantsOf(a) \cap early : Originals[k] \in Nat /\ Originals'[k] = Originals[k]
      BY <2>4
    <3>3. Sum((GrantsOf(a) \cap early) \cup {g}, Originals')
            = Sum(GrantsOf(a) \cap early, Originals) + Originals'[g]
      <4>1. Originals'[g] \in Nat /\ IsFiniteSet(GrantsOf(a) \cap early)
              /\ g \notin GrantsOf(a) \cap early
        BY <1>1, <2>1, <2>3, GrantsOfFinite
      <4> DEFINE S == GrantsOf(a) \cap early
      <4> HIDE DEF S
      <4>2. IsFiniteSet(S) /\ g \notin S /\ Originals'[g] \in Nat
              /\ \A k \in S : Originals[k] \in Nat /\ Originals'[k] = Originals[k]
        BY <3>2, <4>1 DEF S
      <4>3. Sum(S \cup {g}, Originals') = Sum(S, Originals) + Originals'[g]
        BY <4>2, SumInsert
      <4> QED BY <4>3 DEF S
    <3>4. /\ Sum(GrantsOf(a), Values) \in Nat /\ Sum(GrantsOf(a) \cap early, Originals) \in Nat
          /\ account[a].available \in Nat
      BY <1>2, ExactTypes
    <3>5. Sum(GrantsOf(a)', Values') = Sum(GrantsOf(a), Values)
      BY <2>5, <2>6, <3>4
    <3>6. account[a].available = Sum(GrantsOf(a), Values) + Sum(GrantsOf(a) \cap early, Originals)
      BY <1>7 DEF Exact
    <3>7. account'[a].available = Sum(GrantsOf(a)', Values')
                                  + Sum((GrantsOf(a) \cap early) \cup {g}, Originals')
      BY <1>1, <2>3, <2>6, <3>3, <3>4, <3>5, <3>6
    <3> QED BY <1>7, <3>1, <3>7 DEF Exact
  <2>7. CASE ~(counted /\ ~active)
    <3>1. (GrantsOf(a) \cap early)' = GrantsOf(a) \cap early
      BY <1>1, <1>2, <2>1, <2>7
    <3>2. Sum(GrantsOf(a) \cap early, Originals') = Sum(GrantsOf(a) \cap early, Originals)
      BY <2>4, SumEqual
    <3>3. /\ Sum(GrantsOf(a), Values) \in Nat /\ Sum(GrantsOf(a) \cap early, Originals) \in Nat
          /\ account[a].available \in Nat
      BY <1>2, ExactTypes
    <3>4. account[a].available = Sum(GrantsOf(a), Values) + Sum(GrantsOf(a) \cap early, Originals)
      BY <1>7 DEF Exact
    <3>5. account'[a].available = Sum(GrantsOf(a)', Values')
                                  + Sum(GrantsOf(a) \cap early, Originals')
      BY <1>1, <2>5, <2>7, <3>2, <3>3, <3>4
    <3> QED BY <1>7, <3>1, <3>5 DEF Exact
  <2> QED BY <2>6, <2>7
<1> QED BY <1>6, <1>7

(* A refresh moves balance and values by the same delta.                   *)
LEMMA RefreshGrantWindowsExact ==
  ASSUME Books, Cover', NEW b \in Accounts, Exact(b),
         NEW a \in Accounts, RefreshGrantWindows(a)
  PROVE  Exact(b)'
<1>1. /\ grant' = RefreshedGrants(a, now) /\ UNCHANGED <<now, hold, allocation, early>>
      /\ account' = [account EXCEPT ![a].available = @ + RefreshDelta(a, now)]
  BY DEF RefreshGrantWindows
<1>2. /\ account'[a].available = account[a].available + RefreshDelta(a, now)
      /\ \A c \in Accounts \ {a} : account'[c].available = account[c].available
  BY <1>1 DEF Books, Cover, TypeOK, AccountRows
<1>3. now \in Int /\ Cover
  BY LedgerAssumption DEF Books, Cover, TypeOK
<1>4. \A g \in Grants : /\ grant'[g].account = grant[g].account
                        /\ Originals'[g] = Originals[g]
                        /\ Values'[g] = RefreshedValues(a, now)[g]
  BY <1>1, <1>3, RefreshedIs, ReservedKept DEF Originals, Values, Value, Free, RefreshedValues
<1>5. \A c \in Accounts : GrantsOf(c)' = GrantsOf(c)
  BY <1>4 DEF GrantsOf
<1>6. CASE b # a
  <2>1. \A g \in GrantsOf(b) : g \in Grants \ GrantsOf(a)
    BY <1>6 DEF GrantsOf
  <2>2. \A g \in GrantsOf(b) : Values'[g] = Values[g] /\ Originals'[g] = Originals[g]
    BY <1>3, <1>4, <2>1, RefreshedValuesSum
  <2> QED BY <1>1, <1>2, <1>5, <1>6, <2>2, ExactKept
<1>7. CASE b = a
  <2>1. Sum(GrantsOf(a), Values') = Sum(GrantsOf(a), RefreshedValues(a, now))
    BY <1>4, GrantsOfFinite, SumEqual
  <2>2. Sum(GrantsOf(a) \cap early, Originals') = Sum(GrantsOf(a) \cap early, Originals)
    BY <1>4, GrantsOfFinite, SumEqual
  <2>3. Sum(GrantsOf(a), RefreshedValues(a, now)) = Sum(GrantsOf(a), Values) + RefreshDelta(a, now)
    BY <1>3, RefreshedValuesSum
  <2>4. /\ Sum(GrantsOf(a), Values) \in Nat /\ Sum(GrantsOf(a) \cap early, Originals) \in Nat
        /\ account[a].available \in Nat
    BY <1>3, ExactTypes
  <2>5. RefreshDelta(a, now) \in Int
    BY <1>3, RefreshDeltaInt
  <2>6. account[a].available = Sum(GrantsOf(a), Values) + Sum(GrantsOf(a) \cap early, Originals)
    BY <1>7 DEF Exact
  <2>7. account'[a].available = Sum(GrantsOf(a), Values') + Sum(GrantsOf(a) \cap early, Originals')
    BY <1>2, <2>1, <2>2, <2>3, <2>4, <2>5, <2>6
  <2> QED BY <1>1, <1>5, <1>7, <2>7 DEF Exact
<1> QED BY <1>6, <1>7

(* A reservation takes its shares off the refreshed values.                *)
LEMMA ReserveExact ==
  ASSUME Books, Cover', NEW b \in Accounts, Exact(b),
         NEW a \in Accounts, NEW h \in Holds, NEW requested \in Micros \ {0},
         NEW t \in Later, Reserve(a, h, requested, t)
  PROVE  Exact(b)'
<1> DEFINE share == Share(a, requested, t)
           after == RefreshedValues(a, now)
<1>1. /\ requested \in Nat
      /\ \A g \in Grants : /\ share[g] \in Nat
                           /\ g \notin Eligible(a, t) => share[g] = 0
                           /\ Reserved(g)' = Reserved(g) + share[g]
      /\ Sum(Eligible(a, t), share) = requested
      /\ grant' = RefreshedGrants(a, now)
      /\ account'[a].available = account[a].available + RefreshDelta(a, now) - requested
      /\ \A c \in Accounts \ {a} : account'[c].available = account[c].available
      /\ early' = early
  BY ReserveMeans DEF Books
<1>2. now \in Int /\ Cover
  BY LedgerAssumption DEF Books, Cover, TypeOK
<1>3. /\ Eligible(a, t) \subseteq GrantsOf(a)
      /\ \A g \in Eligible(a, t) : RefreshedGrants(a, now)[g].status = "active"
  BY DEF Eligible
<1> HIDE DEF share
<1>4. \A g \in Grants : grant'[g].account = grant[g].account /\ Originals'[g] = Originals[g]
  BY <1>1, <1>2, RefreshedIs DEF Originals
<1>5. ASSUME NEW g \in Grants
      PROVE  Values'[g] \in Nat /\ after[g] \in Nat /\ after[g] = Values'[g] + share[g]
  <2>1. after[g] = IF grant'[g].status = "pending" THEN 0 ELSE grant'[g].remaining - Reserved(g)
    BY <1>1 DEF RefreshedValues
  <2>2. Values'[g] = IF grant'[g].status = "pending" THEN 0
                     ELSE grant'[g].remaining - Reserved(g)'
    BY DEF Values, Value, Free
  <2>3. grant'[g].status = "pending" => share[g] = 0
    BY <1>1, <1>3
  <2>4. after[g] \in Nat
    BY <1>2, RefreshedValuesSum
  <2>5. Reserved(g) \in Nat /\ grant'[g].remaining \in Nat
    BY <1>1, <1>2, FreeNat, RefreshedGrantsCover, LedgerAssumption DEF GrantRows, Micros
  <2>6. Reserved(g)' \in Nat /\ Reserved(g)' <= grant'[g].remaining
    BY <1>1, <2>5 DEF Cover, GrantsCoverHolds
  <2> QED BY <1>1, <2>1, <2>2, <2>3, <2>4, <2>5, <2>6
<1>6. \A c \in Accounts : GrantsOf(c)' = GrantsOf(c)
  BY <1>4 DEF GrantsOf
<1> HIDE DEF after
<1>7. CASE b # a
  <2>1. \A g \in GrantsOf(b) : g \in Grants \ GrantsOf(a)
    BY <1>7 DEF GrantsOf
  <2>2. \A g \in GrantsOf(b) : Values'[g] = Values[g] /\ Originals'[g] = Originals[g]
    <3> TAKE g \in GrantsOf(b)
    <3>1. share[g] = 0 /\ after[g] = Values[g]
      BY <1>1, <1>2, <1>3, <2>1, RefreshedValuesSum DEF after
    <3>2. after[g] = Values'[g] + share[g] /\ Values'[g] \in Nat /\ Originals'[g] = Originals[g]
      BY <1>4, <1>5, <2>1
    <3> QED BY <3>1, <3>2
  <2> QED BY <1>1, <1>6, <1>7, <2>2, ExactKept
<1>8. CASE b = a
  <2>1. \A g \in GrantsOf(a) : /\ Values'[g] \in Nat /\ share[g] \in Nat /\ after[g] \in Nat
                               /\ after[g] = Values'[g] + share[g]
    BY <1>1, <1>5, GrantsOfFinite
  <2>2. Sum(GrantsOf(a), after) = Sum(GrantsOf(a), Values') + Sum(GrantsOf(a), share)
    BY <2>1, GrantsOfFinite, SumAdd
  <2>3. Sum(GrantsOf(a), share) = requested
    <3>1. \A g \in GrantsOf(a) \ Eligible(a, t) : share[g] = 0
      BY <1>1, GrantsOfFinite
    <3>2. Sum(GrantsOf(a), share) = Sum(Eligible(a, t), share)
      <4>1. \A g \in GrantsOf(a) : share[g] \in Nat
        BY <2>1
      <4> QED BY <1>3, <3>1, <4>1, GrantsOfFinite, SumWithoutZeros
    <3> QED BY <1>1, <3>2
  <2>4. Sum(GrantsOf(a) \cap early, Originals') = Sum(GrantsOf(a) \cap early, Originals)
    BY <1>4, GrantsOfFinite, SumEqual
  <2>5. Sum(GrantsOf(a), after) = Sum(GrantsOf(a), Values) + RefreshDelta(a, now)
    BY <1>2, RefreshedValuesSum DEF after
  <2>6. /\ Sum(GrantsOf(a), Values) \in Nat /\ Sum(GrantsOf(a) \cap early, Originals) \in Nat
        /\ account[a].available \in Nat
    BY <1>2, ExactTypes
  <2>7. Sum(GrantsOf(a), Values') \in Nat
    <3>1. \A g \in GrantsOf(a) : Values'[g] \in Int
      BY <2>1
    <3> QED BY <3>1, GrantsOfFinite, SumType
  <2>8. RefreshDelta(a, now) \in Int
    BY <1>2, RefreshDeltaInt
  <2>9. account[a].available = Sum(GrantsOf(a), Values) + Sum(GrantsOf(a) \cap early, Originals)
    BY <1>8 DEF Exact
  <2>10. account'[a].available = Sum(GrantsOf(a), Values') + Sum(GrantsOf(a) \cap early, Originals')
    BY <1>1, <2>2, <2>3, <2>4, <2>5, <2>6, <2>8, <2>7, <2>9
  <2> QED BY <1>1, <1>6, <1>8, <2>10 DEF Exact
<1> QED BY <1>7, <1>8

(* A finished hold gives back what it did not consume.                     *)
LEMMA FinishExact ==
  ASSUME Books, Books', NEW b \in Accounts, Exact(b), NEW h \in Holds, NEW actual \in Micros,
         NEW terminal \in {"captured", "released"}, NEW source \in Sources,
         Finish(h, actual, terminal, source)
  PROVE  Exact(b)'
<1> DEFINE a == hold[h].account
           rest == [g \in Grants |-> allocation'[h][g].released]
<1>1. /\ hold[h].requested \in Nat /\ actual \in Nat /\ actual <= hold[h].requested
      /\ hold'[h].status = terminal /\ a \in Accounts
      /\ hold'[h].released = hold[h].requested - actual
      /\ \A g \in Grants : /\ allocation'[h][g].held = allocation[h][g].held
                           /\ allocation'[h][g].released
                                = allocation[h][g].held - Used(h, actual)[g]
                           /\ Used(h, actual)[g] \in Nat
                           /\ Used(h, actual)[g] <= allocation[h][g].held
                           /\ grant'[g].remaining = grant[g].remaining - Used(h, actual)[g]
                           /\ grant'[g].status = grant[g].status
                           /\ grant'[g].account = grant[g].account
                           /\ grant'[g].original = grant[g].original
                           /\ Reserved(g) = Reserved(g)' + allocation[h][g].held
                           /\ Reserved(g)' \in Nat
      /\ account'[a].available = account[a].available + (hold[h].requested - actual)
      /\ \A c \in Accounts \ {a} : account'[c].available = account[c].available
      /\ UNCHANGED <<now, early>>
  BY FinishMeans DEF Books
<1>2. Cover /\ Cover'
  BY DEF Books
<1>3. hold[h].status = "active" /\ \A g \in AllocationsOf(h) : grant[g].account = a
  BY DEF Finish, Finishable, Books, Booked
<1>4. \A g \in Grants : allocation[h][g].held \in Nat
  BY <1>2, RowTypes DEF Cover
<1>5. ASSUME NEW g \in Grants
      PROVE  /\ Values[g] \in Nat /\ rest[g] \in Nat /\ Values'[g] = Values[g] + rest[g]
             /\ Originals'[g] = Originals[g]
             /\ g \notin AllocationsOf(h) => rest[g] = 0
  <2>1. grant[g].status = "pending" => allocation[h][g].held = 0
    BY DEF Books, Lot
  <2>2. g \notin AllocationsOf(h) => allocation[h][g].held = 0
    BY <1>4 DEF AllocationsOf
  <2>3. /\ grant[g].remaining \in Nat /\ Values[g] \in Nat
        /\ Values[g] = IF grant[g].status = "pending" THEN 0
                       ELSE grant[g].remaining - Reserved(g)
    BY <1>2, FreeNat DEF Value
  <2>4. Values'[g] = IF grant'[g].status = "pending" THEN 0
                     ELSE grant'[g].remaining - Reserved(g)'
    BY DEF Values, Value, Free
  <2>5. rest[g] = allocation[h][g].held - Used(h, actual)[g]
    BY <1>1
  <2>6. Originals'[g] = Originals[g]
    BY <1>1 DEF Originals
  <2> HIDE DEF rest
  <2>7. rest[g] \in Nat /\ (g \notin AllocationsOf(h) => rest[g] = 0)
    BY <1>1, <1>4, <2>2, <2>5
  <2>8. /\ grant'[g].status = grant[g].status
        /\ grant'[g].remaining = grant[g].remaining - Used(h, actual)[g]
        /\ Reserved(g) = Reserved(g)' + allocation[h][g].held /\ Reserved(g)' \in Nat
        /\ Used(h, actual)[g] \in Nat
    BY <1>1
  <2>9. CASE grant[g].status = "pending"
    <3>1. Values'[g] = 0 /\ Values[g] = 0
      BY <2>3, <2>4, <2>8, <2>9
    <3>2. rest[g] = 0
      BY <2>1, <2>5, <2>7, <2>8, <2>9
    <3> QED BY <2>6, <2>7, <3>1, <3>2
  <2>10. CASE grant[g].status # "pending"
    <3>1. /\ Values[g] = grant[g].remaining - Reserved(g)
          /\ Values'[g] = grant'[g].remaining - Reserved(g)'
      BY <2>3, <2>4, <2>8, <2>10
    <3>2. Values'[g] = Values[g] + rest[g]
      BY <1>4, <2>3, <2>5, <2>8, <3>1
    <3> QED BY <2>3, <2>6, <2>7, <3>2
  <2> QED BY <2>9, <2>10
<1>6. \A c \in Accounts : GrantsOf(c)' = GrantsOf(c)
  BY <1>1 DEF GrantsOf
<1>7. AllocationsOf(h)' = AllocationsOf(h) /\ AllocationsOf(h) \subseteq GrantsOf(a)
  BY <1>1, <1>3 DEF AllocationsOf, GrantsOf
<1>8. Sum(AllocationsOf(h), rest) = hold[h].requested - actual
  <2>1. Total(h, "released")' = hold[h].requested - actual
    BY <1>1 DEF Books, Booked
  <2> QED BY <1>7, <2>1 DEF Total
<1> HIDE DEF rest
<1>9. CASE b # a
  <2>1. \A g \in GrantsOf(b) : g \in Grants /\ g \notin AllocationsOf(h)
    BY <1>3, <1>9 DEF GrantsOf
  <2>2. \A g \in GrantsOf(b) : Values'[g] = Values[g] /\ Originals'[g] = Originals[g]
    BY <1>5, <2>1
  <2> QED BY <1>1, <1>2, <1>6, <1>9, <2>2, ExactKept
<1>10. CASE b = a
  <2>1. \A g \in GrantsOf(a) : /\ Values[g] \in Nat /\ rest[g] \in Nat
                               /\ Values'[g] = Values[g] + rest[g]
    BY <1>5, GrantsOfFinite
  <2>2. Sum(GrantsOf(a), Values') = Sum(GrantsOf(a), Values) + Sum(GrantsOf(a), rest)
    BY <2>1, GrantsOfFinite, SumAdd
  <2>3. Sum(GrantsOf(a), rest) = hold[h].requested - actual
    <3>1. \A g \in GrantsOf(a) \ AllocationsOf(h) : rest[g] = 0
      BY <1>5, GrantsOfFinite
    <3>2. Sum(GrantsOf(a), rest) = Sum(AllocationsOf(h), rest)
      <4>1. \A g \in GrantsOf(a) : rest[g] \in Nat
        BY <2>1
      <4>2. AllocationsOf(h) \in SUBSET GrantsOf(a) /\ IsFiniteSet(GrantsOf(a))
        BY <1>7, GrantsOfFinite
      <4> QED BY <3>1, <4>1, <4>2, SumWithoutZeros
    <3> QED BY <1>8, <3>2
  <2>4. Sum(GrantsOf(a) \cap early, Originals') = Sum(GrantsOf(a) \cap early, Originals)
    BY <1>5, GrantsOfFinite, SumEqual
  <2>5. /\ Sum(GrantsOf(a), Values) \in Nat /\ Sum(GrantsOf(a) \cap early, Originals) \in Nat
        /\ account[a].available \in Nat
    BY <1>1, <1>2, ExactTypes
  <2>6. account[a].available = Sum(GrantsOf(a), Values) + Sum(GrantsOf(a) \cap early, Originals)
    BY <1>10 DEF Exact
  <2>7. account'[a].available = Sum(GrantsOf(a), Values') + Sum(GrantsOf(a) \cap early, Originals')
    BY <1>1, <2>2, <2>3, <2>4, <2>5, <2>6
  <2> QED BY <1>1, <1>6, <1>10, <2>7 DEF Exact
<1> QED BY <1>9, <1>10

(***************************************************************************)
(* The projection is exact, for any number of grants, holds and accounts   *)
(* and any skew between the clocks: available_micros never drifts from     *)
(* what the grants have free, but by the grants that grant counted before  *)
(* their window opened.                                                    *)
(***************************************************************************)
THEOREM AvailableAlwaysIsFreeCredit == Spec => []AvailableIsFreeCredit
<1> DEFINE AllExact == \A a \in Accounts : Exact(a)
<1>1. Init => AllExact
  <2> SUFFICES ASSUME Init, NEW a \in Accounts PROVE Exact(a)
    OBVIOUS
  <2>1. GrantsOf(a) = {} /\ account[a].available = 0
    BY LedgerAssumption DEF Init, GrantsOf, NoGrant, NoAccount
  <2>2. GrantsOf(a) \cap early = {}
    BY <2>1
  <2> QED BY <2>1, <2>2, SumEmpty DEF Exact
<1>2. ASSUME Books, Books', AllExact, [Next]_vars
      PROVE  AllExact'
  <2> SUFFICES ASSUME NEW b \in Accounts PROVE Exact(b)'
    OBVIOUS
  <2>a. Books /\ Books' /\ Cover' /\ Exact(b)
    BY <1>2 DEF Books
  <2>1. ASSUME NEW a \in Accounts, OpenMyAccount(a) \/ DisableAccount(a) PROVE Exact(b)'
    <3>1. account'[b].available = account[b].available
            /\ UNCHANGED <<hold, allocation, grant, early>>
      BY <2>a, <2>1 DEF OpenMyAccount, DisableAccount, Books, Cover, TypeOK, AccountRows
    <3> QED BY <2>a, <3>1, AloneExact
  <2>2. ASSUME NEW a \in Accounts, RefreshGrantWindows(a) PROVE Exact(b)'
    BY <2>a, <2>2, RefreshGrantWindowsExact
  <2>3. ASSUME NEW a \in Accounts, NEW g \in Grants, NEW amount \in Micros \ {0},
               NEW effective \in 0 .. MaxTime, NEW expires \in 1 .. Never, NEW t \in Later,
               GrantCredit(a, g, amount, effective, expires, t)
        PROVE  Exact(b)'
    BY <2>a, <2>3, GrantCreditExact
  <2>4. ASSUME NEW a \in Accounts, NEW h \in Holds, NEW requested \in Micros \ {0},
               NEW t \in Later, Reserve(a, h, requested, t)
        PROVE  Exact(b)'
    BY <2>a, <2>4, ReserveExact
  <2>5. ASSUME NEW h \in Holds, NEW source \in Sources,
               (\E actual \in Micros : Capture(h, actual, source)) \/ Release(h, source)
        PROVE  Exact(b)'
    <3>1. 0 \in Micros
      BY LedgerAssumption DEF Micros
    <3> QED BY <2>a, <2>5, <3>1, FinishExact DEF Capture, Release
  <2>6. CASE Tick \/ UNCHANGED vars
    BY <2>a, <2>6, AloneExact DEF Tick, vars
  <2> QED BY <1>2, <2>1, <2>2, <2>3, <2>4, <2>5, <2>6 DEF Next
<1>3. Books /\ AllExact => AvailableIsFreeCredit
  BY ExactMeans DEF Books
<1> HIDE DEF AllExact
<1> QED BY <1>1, <1>2, <1>3, BooksInvariant, PTL DEF Spec

-------------------------------------------------------------------------------
(***************************************************************************)
(* The ledger never locks itself.                                          *)
(***************************************************************************)
(* A hold that exists passes every check that #finishHold makes.           *)
LEMMA BookedIsIntact ==
  ASSUME Books, NEW h \in Holds, hold[h].status # "absent"
  PROVE  FinishIntact(h)
<1>1. /\ HoldIntact(h)
      /\ Total(h, "held") = hold[h].requested
      /\ Total(h, "captured") = hold[h].captured
      /\ Total(h, "released") = hold[h].released
      /\ \A g \in AllocationsOf(h) :
            /\ grant[g].account = hold[h].account
            /\ hold[h].status # "active" =>
                 allocation[h][g].captured + allocation[h][g].released = allocation[h][g].held
  BY DEF Books, Booked
<1>2. ASSUME NEW g \in AllocationsOf(h) PROVE AllocationIntact(h, g)
  <2>1. g \in Grants /\ grant[g].remaining <= grant[g].original
    BY DEF AllocationsOf, Books, Cover, GrantsCoverHolds
  <2>2. CASE hold[h].status = "active"
    <3>1. h \in ActiveHolds /\ Cover
      BY <2>2 DEF ActiveHolds, Books
    <3>2. allocation[h][g].captured = 0 /\ allocation[h][g].released = 0
      BY <2>1, <3>1 DEF Cover, ActiveUntouched
    <3>3. grant[g].remaining >= allocation[h][g].held
      <4> DEFINE open == [k \in Holds |-> Open(k, g)]
      <4>1. IsFiniteSet(ActiveHolds) /\ \A k \in ActiveHolds : open[k] \in Nat
        BY <2>1, <3>1, HoldsFinite, OpenIsHeld DEF Cover, ActiveHolds
      <4>2. open[h] = allocation[h][g].held
        BY <2>1, <3>1, OpenIsHeld DEF Cover
      <4>3. Reserved(g) = Sum(ActiveHolds, open)
        BY DEF Reserved
      <4> HIDE DEF open
      <4>4. open[h] <= Sum(ActiveHolds, open)
        BY <3>1, <4>1, SumBoundsRow
      <4>5. Reserved(g) \in Nat /\ Reserved(g) <= grant[g].remaining
              /\ grant[g].remaining \in Nat /\ open[h] \in Nat
        BY <2>1, <3>1, <4>1, FreeNat DEF Cover, GrantsCoverHolds
      <4> QED BY <4>2, <4>3, <4>4, <4>5
    <3> QED BY <1>1, <2>1, <2>2, <3>2, <3>3 DEF AllocationIntact
  <2>3. CASE hold[h].status # "active"
    BY <1>1, <2>1, <2>3 DEF AllocationIntact
  <2> QED BY <2>2, <2>3
<1> QED BY <1>1, <1>2 DEF FinishIntact

(* What account a would have available after a refresh at t is what the    *)
(* refreshed grants have free: never negative.                             *)
LEMMA RefreshAlwaysCommits ==
  ASSUME Books, NEW a \in Accounts, Exact(a), NEW t \in Int
  PROVE  RefreshCommits(a, t)
<1>1. account[a].available + RefreshDelta(a, t) >= 0
  <2>1. Cover
    BY DEF Books
  <2>2. /\ account[a].available \in Nat /\ Sum(GrantsOf(a), Values) \in Nat
        /\ Sum(GrantsOf(a) \cap early, Originals) \in Nat
    BY <2>1, ExactTypes
  <2>3. RefreshDelta(a, t) \in Int
    BY <2>1, RefreshDeltaInt
  <2>4. Sum(GrantsOf(a), RefreshedValues(a, t)) = Sum(GrantsOf(a), Values) + RefreshDelta(a, t)
    BY RefreshedValuesSum
  <2>5. Sum(GrantsOf(a), RefreshedValues(a, t)) \in Nat
    <3>1. \A g \in GrantsOf(a) : RefreshedValues(a, t)[g] \in Nat
      BY GrantsOfFinite, RefreshedValuesSum
    <3>2. \A g \in GrantsOf(a) : RefreshedValues(a, t)[g] \in Int
      BY <3>1
    <3> QED BY <3>2, GrantsOfFinite, SumType
  <2>6. account[a].available = Sum(GrantsOf(a), Values) + Sum(GrantsOf(a) \cap early, Originals)
    BY DEF Exact
  <2> QED BY <2>2, <2>3, <2>4, <2>5, <2>6
<1>2. ASSUME NEW g \in Lapsing(a, t) PROVE Unwritten("expiry", g)
  <2>1. grant[g].status # "expired"
    BY DEF Lapsing
  <2> QED BY <2>1 DEF Unwritten, Books, ExpiriesAreFinal
<1> QED BY <1>1, <1>2 DEF RefreshCommits

(***************************************************************************)
(* Whatever the order of refreshes, expiries and captures, no hold becomes *)
(* one that #finishHold reports as corrupt, and no refresh is refused by   *)
(* the database.                                                           *)
(***************************************************************************)
THEOREM LedgerIsNeverCorrupt == Spec => []NeverCorrupt
<1>1. ASSUME Books, AvailableIsFreeCredit, HeldIsActiveHolds PROVE NeverCorrupt
  <2>1. ASSUME NEW h \in Holds, hold[h].status = "active"
        PROVE  account[hold[h].account].held >= hold[h].requested
    <3> DEFINE a == hold[h].account
    <3>1. a \in Accounts /\ h \in HoldsOf(a) /\ Requested[h] = hold[h].requested
      BY <1>1, <2>1 DEF Books, Cover, ActiveUntouched, ActiveHolds, HoldsOf, Requested
    <3>2. IsFiniteSet(HoldsOf(a)) /\ \A k \in HoldsOf(a) : Requested[k] \in Nat
      BY <1>1, HoldsFinite, RowTypes DEF HoldsOf, ActiveHolds, Requested, Books, Cover
    <3>3. Requested[h] <= Sum(HoldsOf(a), Requested)
      BY <3>1, <3>2, SumBoundsRow
    <3>4. account[a].held = Sum(HoldsOf(a), Requested) /\ account[a].held \in Nat
      BY <1>1, <3>1, RowTypes DEF HeldIsActiveHolds, Books, Cover
    <3>5. Requested[h] \in Nat
      BY <3>1, <3>2
    <3> QED BY <3>1, <3>3, <3>4, <3>5
  <2>2. ASSUME NEW a \in Accounts, NEW t \in now .. MaxTime PROVE RefreshCommits(a, t)
    <3>1. Exact(a) /\ t \in Int
      BY <1>1, ExactMeans, LedgerAssumption DEF Books, Cover, TypeOK
    <3> QED BY <1>1, <3>1, RefreshAlwaysCommits
  <2> QED BY <1>1, <2>1, <2>2, BookedIsIntact DEF NeverCorrupt
<1> QED BY <1>1, BooksInvariant, AvailableAlwaysIsFreeCredit, HeldAlwaysIsActiveHolds, PTL

-------------------------------------------------------------------------------
(***************************************************************************)
(* Where the micros of a grant are.                                        *)
(***************************************************************************)
(* Nothing was captured of a grant that does not exist, or never opened,   *)
(* and no grant expired twice.                                             *)
LEMMA TracedTypes ==
  ASSUME Books, NEW g \in Grants
  PROVE  /\ grant[g].remaining \in Nat /\ Captured(g) \in Nat
         /\ Sum(Expired(g), Amount) \in Nat
         /\ Traced(g) = grant[g].remaining + Captured(g) + Sum(Expired(g), Amount)
         /\ grant[g].status \in {"absent", "pending"} => Captured(g) = 0
         /\ grant[g].status # "expired" => Expired(g) = {} /\ Sum(Expired(g), Amount) = 0
<1> DEFINE captured == [h \in Holds |-> allocation[h][g].captured]
<1>1. IsFiniteSet(Holds) /\ \A h \in Holds : captured[h] \in Int /\ captured[h] \in Nat
  BY LedgerAssumption, RowTypes DEF Books, Cover
<1>2. Captured(g) = Sum(Holds, captured)
  BY DEF Captured
<1>3. grant[g].status \in {"absent", "pending"} => \A h \in Holds : captured[h] = 0
  <2> SUFFICES ASSUME grant[g].status \in {"absent", "pending"}, NEW h \in Holds
               PROVE  captured[h] = 0
    OBVIOUS
  <2>1. allocation[h][g].held = 0
    BY DEF Books, Lot
  <2>2. allocation[h][g].captured + allocation[h][g].released <= allocation[h][g].held
    BY DEF Books, Booked
  <2>3. allocation[h][g].captured \in Nat /\ allocation[h][g].released \in Nat
    BY RowTypes DEF Books, Cover
  <2> QED BY <2>1, <2>2, <2>3
<1> HIDE DEF captured
<1>4. Captured(g) \in Nat
  BY <1>1, <1>2, SumType
<1>5. grant[g].status \in {"absent", "pending"} => Captured(g) = 0
  BY <1>2, <1>3, SumZero
<1>6. Expired(g) \subseteq journal /\ IsFiniteSet(Expired(g))
  BY FS_Subset DEF Expired, Books, Cover
<1>7. \A e \in Expired(g) : Amount[e] \in Int
  BY <1>6, LedgerAssumption DEF Amount, Books, Cover, TypeOK, JournalRows, Micros
<1>8. Sum(Expired(g), Amount) \in Nat
  BY <1>6, <1>7, SumType
<1>9. grant[g].status # "expired" => Expired(g) = {}
  BY DEF Expired, Books, ExpiriesAreFinal
<1>10. grant[g].remaining \in Nat
  BY RowTypes DEF Books, Cover
<1>11. Traced(g) = grant[g].remaining + Captured(g) + Sum(Expired(g), Amount)
  BY DEF Traced, Amount
<1> QED BY <1>4, <1>5, <1>8, <1>9, <1>10, <1>11, SumEmpty

\* What LotConserved says of a step, for one grant.
Conserved(g) ==
  /\ grant[g].status = "absent" => Traced(g)' = grant'[g].original
  /\ grant[g].status \in {"active", "expired"} => Traced(g)' = Traced(g)
  /\ grant[g].status = "pending" /\ grant'[g].status # "expired" => Traced(g)' = Traced(g)

(* A step that journals no expiry of g.                                    *)
LEMMA ExpiredKept ==
  ASSUME NEW g, journal \subseteq journal',
         \A e \in journal' \ journal : ~(e.kind = "expiry" /\ e.source = g)
  PROVE  Expired(g)' = Expired(g) /\ Sum(Expired(g), Amount)' = Sum(Expired(g), Amount)
<1>1. Expired(g)' = Expired(g) /\ Expired(g) \subseteq journal
  BY DEF Expired
<1>2. \A e \in Expired(g) : Amount'[e] = Amount[e]
  BY <1>1 DEF Amount
<1>3. Sum(Expired(g), Amount') = Sum(Expired(g), Amount)
  BY <1>2, SumEqual
<1> QED BY <1>1, <1>3

(* A step that leaves the grant's amounts, captures and expiries alone.    *)
LEMMA AloneConserved ==
  ASSUME Books, Books', NEW g \in Grants, grant'[g].remaining = grant[g].remaining,
         grant'[g].original = grant[g].original, Captured(g)' = Captured(g),
         Sum(Expired(g), Amount)' = Sum(Expired(g), Amount)
  PROVE  Conserved(g)
<1>1. Traced(g)' = grant'[g].remaining + Captured(g)' + Sum(Expired(g), Amount)'
  BY DEF Traced, Amount
<1>2. Traced(g) = grant[g].remaining + Captured(g) + Sum(Expired(g), Amount)
  BY TracedTypes
<1>3. Traced(g)' = Traced(g)
  BY <1>1, <1>2
<1>4. grant[g].status = "absent" => Traced(g) = 0 /\ grant[g].original = 0
  <2> SUFFICES ASSUME grant[g].status = "absent" PROVE Traced(g) = 0 /\ grant[g].original = 0
    OBVIOUS
  <2>1. grant[g].original = 0 /\ grant[g].remaining = 0
    BY DEF Books, Cover, AbsentIsEmpty, Lot
  <2>2. Captured(g) = 0 /\ Sum(Expired(g), Amount) = 0
    BY TracedTypes
  <2> QED BY <1>2, <2>1, <2>2
<1> QED BY <1>3, <1>4 DEF Conserved

(* A step that captures nothing of g.                                      *)
LEMMA CapturedKept ==
  ASSUME NEW g \in Grants,
         \A h \in Holds : allocation'[h][g].captured = allocation[h][g].captured
  PROVE  Captured(g)' = Captured(g)
<1> DEFINE f == [h \in Holds |-> allocation[h][g].captured]
           f1 == [h \in Holds |-> allocation'[h][g].captured]
<1>1. f1 = f
  OBVIOUS
<1>2. Captured(g)' = Sum(Holds, f1) /\ Captured(g) = Sum(Holds, f)
  BY DEF Captured
<1> HIDE DEF f, f1
<1> QED BY <1>1, <1>2

(* A refresh moves what lapses of an active grant to the journal.          *)
LEMMA RefreshConserved ==
  ASSUME Books, Books', NEW a \in Accounts, NEW t \in Int, NEW g \in Grants,
         grant' = RefreshedGrants(a, t), journal' = journal \cup RefreshEntries(a, t),
         Captured(g)' = Captured(g)
  PROVE  Conserved(g)
<1>1. Cover
  BY DEF Books
<1>2. grant'[g].original = grant[g].original
  BY <1>1, RefreshedIs
<1>3. CASE g \notin Lapsing(a, t)
  <2>1. grant'[g].remaining = grant[g].remaining
    BY <1>1, <1>3, RefreshedIs
  <2>2. \A e \in journal' \ journal : ~(e.kind = "expiry" /\ e.source = g)
    BY <1>3, RefreshEntriesAre
  <2>3. Sum(Expired(g), Amount)' = Sum(Expired(g), Amount)
    BY <2>2, ExpiredKept
  <2> QED BY <1>2, <2>1, <2>3, AloneConserved
<1>4. CASE g \in Lapsing(a, t)
  <2>1. /\ grant[g].status \in {"active", "pending"} /\ grant'[g].status = "expired"
        /\ grant'[g].remaining = Reserved(g)
    BY <1>1, <1>4, RefreshedIs
  <2>2. grant[g].status = "active" => Traced(g)' = Traced(g)
    <3> SUFFICES ASSUME grant[g].status = "active" PROVE Traced(g)' = Traced(g)
      OBVIOUS
    <3>1. /\ Expired(g) = {} /\ Sum(Expired(g), Amount) = 0
          /\ Traced(g) = grant[g].remaining + Captured(g) + 0
          /\ grant[g].remaining \in Nat /\ Captured(g) \in Nat
      BY TracedTypes
    <3>2. ExpiredAvailable[g] = Free(g) /\ Free(g) = grant[g].remaining - Reserved(g)
            /\ Free(g) \in Nat /\ Reserved(g) \in Nat
      BY <1>1, FreeNat DEF ExpiredAvailable
    <3>3. Sum(Expired(g)', Amount') = Free(g)
      <4>1. CASE Free(g) = 0
        <5>1. \A e \in journal' : ~(e.kind = "expiry" /\ e.source = g)
          BY <3>1, <3>2, <4>1, RefreshEntriesAre DEF Expired
        <5>2. Expired(g)' = {}
          BY <5>1 DEF Expired
        <5> QED BY <4>1, <5>2, SumEmpty
      <4>2. CASE Free(g) > 0
        <5>1. PICK e \in RefreshEntries(a, t) : e.source = g
          BY <1>4, <3>2, <4>2, RefreshEntriesAre
        <5>2. e.kind = "expiry" /\ e.amount = Free(g) /\ e \in journal'
          BY <3>2, <5>1, RefreshEntriesAre
        <5>3. \A d \in RefreshEntries(a, t) : d.source = g => d = e
          BY <5>1, RefreshEntriesAre
        <5>4. Expired(g)' = {e}
          BY <3>1, <5>1, <5>2, <5>3 DEF Expired
        <5>5. Amount'[e] = Free(g)
          BY <5>2 DEF Amount
        <5> QED BY <3>2, <5>4, <5>5, SumSingleton
      <4> QED BY <3>2, <4>1, <4>2
    <3>4. Traced(g)' = grant'[g].remaining + Captured(g)' + Sum(Expired(g)', Amount')
      BY DEF Traced, Amount
    <3> QED BY <2>1, <3>1, <3>2, <3>3, <3>4
  <2> QED BY <2>1, <2>2 DEF Conserved
<1> QED BY <1>3, <1>4

(* A new grant starts with what was granted; others are not touched.       *)
LEMMA GrantCreditConserved ==
  ASSUME Books, Books', NEW k \in Grants, NEW a \in Accounts, NEW g \in Grants,
         NEW amount \in Micros \ {0}, NEW effective \in 0 .. MaxTime,
         NEW expires \in 1 .. Never, NEW t \in Later,
         GrantCredit(a, g, amount, effective, expires, t)
  PROVE  Conserved(k)
<1>1. /\ grant[g].status = "absent" /\ amount \in Nat
      /\ grant'[g].original = amount /\ grant'[g].remaining = amount
      /\ \A c \in Grants \ {g} : grant'[c] = grant[c]
      /\ journal' = journal \cup {Entry(a, NextSeq(a), "grant", amount, g)}
      /\ UNCHANGED <<hold, allocation>>
  BY GrantCreditMeans DEF Books
<1>2. Sum(Expired(k), Amount)' = Sum(Expired(k), Amount)
  <2>1. \A e \in journal' \ journal : e.kind = "grant"
    BY <1>1 DEF Entry
  <2> QED BY <1>1, <2>1, ExpiredKept
<1>3. Captured(k)' = Captured(k)
  BY <1>1, CapturedKept
<1>4. CASE k # g
  BY <1>1, <1>2, <1>3, <1>4, AloneConserved
<1>5. CASE k = g
  <2>1. Captured(g) = 0 /\ Sum(Expired(g), Amount) = 0
    BY <1>1, TracedTypes
  <2>2. Traced(g)' = grant'[g].remaining + Captured(g)' + Sum(Expired(g), Amount)'
    BY DEF Traced, Amount
  <2>3. Traced(g)' = grant'[g].original
    BY <1>1, <1>2, <1>3, <1>5, <2>1, <2>2
  <2> QED BY <1>1, <1>5, <2>3 DEF Conserved
<1> QED BY <1>4, <1>5

(* A reservation conserves what its refresh does: it captures nothing.     *)
LEMMA ReserveConserved ==
  ASSUME Books, Books', NEW g \in Grants, NEW a \in Accounts, NEW h \in Holds,
         NEW requested \in Micros \ {0}, NEW t \in Later, Reserve(a, h, requested, t)
  PROVE  Conserved(g)
<1>1. /\ hold[h].status = "absent" /\ allocation'[h][g].captured = 0
      /\ \A k \in Holds \ {h} : allocation'[k] = allocation[k]
      /\ grant' = RefreshedGrants(a, now)
      /\ journal' = journal \cup RefreshEntries(a, now)
  BY ReserveMeans DEF Books
<1>2. allocation[h][g].captured = 0
  <2>1. allocation[h][g].captured + allocation[h][g].released <= allocation[h][g].held
          /\ allocation[h][g].held = 0
    BY <1>1 DEF Books, Booked
  <2>2. allocation[h][g].captured \in Nat /\ allocation[h][g].released \in Nat
    BY RowTypes DEF Books, Cover
  <2> QED BY <2>1, <2>2
<1>3. Captured(g)' = Captured(g)
  BY <1>1, <1>2, CapturedKept
<1>4. now \in Int
  BY LedgerAssumption DEF Books, Cover, TypeOK
<1> QED BY <1>1, <1>3, <1>4, RefreshConserved

(* A finished hold captures what it takes from the remainder.              *)
LEMMA FinishConserved ==
  ASSUME Books, Books', NEW g \in Grants, NEW h \in Holds, NEW actual \in Micros,
         NEW terminal \in {"captured", "released"}, NEW source \in Sources,
         Finish(h, actual, terminal, source), journal \subseteq journal',
         \A e \in journal' \ journal : e.kind = "debit"
  PROVE  Conserved(g)
<1> DEFINE f == [k \in Holds |-> allocation[k][g].captured]
           f1 == [k \in Holds |-> allocation'[k][g].captured]
           used == Used(h, actual)
<1>1. /\ hold[h].status = "active"
      /\ \A k \in Holds \ {h} : allocation'[k] = allocation[k]
      /\ allocation'[h][g].captured = used[g] /\ used[g] \in Nat
      /\ used[g] <= allocation[h][g].held
      /\ g \notin AllocationsOf(h) => used[g] = 0
      /\ grant'[g].remaining = grant[g].remaining - used[g]
      /\ grant'[g].status = grant[g].status /\ grant'[g].original = grant[g].original
  BY FinishMeans DEF Books
<1>2. allocation[h][g].captured = 0
  BY <1>1 DEF Books, Cover, ActiveUntouched, ActiveHolds
<1>3. /\ \A k \in Holds : f[k] \in Nat /\ f1[k] \in Nat
      /\ \A k \in Holds \ {h} : f1[k] = f[k]
      /\ f[h] = 0 /\ f1[h] = used[g] /\ IsFiniteSet(Holds)
  <2>1. \A k \in Holds : allocation[k][g].captured \in Nat /\ allocation'[k][g].captured \in Nat
    BY <1>1, RowTypes DEF Books, Cover
  <2> QED BY <1>1, <1>2, <2>1, LedgerAssumption
<1>4. Captured(g) = Sum(Holds, f) /\ Captured(g)' = Sum(Holds, f1)
  BY DEF Captured
<1> HIDE DEF f, f1, used
<1>5. Sum(Holds, f1) + f[h] = Sum(Holds, f) + f1[h]
  BY <1>3, SumChange
<1>6. Sum(Expired(g), Amount)' = Sum(Expired(g), Amount)
  BY ExpiredKept
<1>7. /\ grant[g].remaining \in Nat /\ Captured(g) \in Nat /\ Sum(Expired(g), Amount) \in Nat
      /\ Traced(g) = grant[g].remaining + Captured(g) + Sum(Expired(g), Amount)
  BY TracedTypes
<1>8. Captured(g)' = Captured(g) + used[g]
  <2>1. \A k \in Holds : f1[k] \in Int
    BY <1>3
  <2>2. Sum(Holds, f1) \in Nat
    BY <1>3, <2>1, SumType
  <2> QED BY <1>3, <1>4, <1>5, <1>7, <2>2
<1>9. Traced(g)' = grant'[g].remaining + Captured(g)' + Sum(Expired(g), Amount)'
  BY DEF Traced, Amount
<1>10. Traced(g)' = Traced(g)
  BY <1>1, <1>6, <1>7, <1>8, <1>9
<1>11. grant[g].status = "absent" => Traced(g) = grant'[g].original
  <2> SUFFICES ASSUME grant[g].status = "absent" PROVE Traced(g) = grant'[g].original
    OBVIOUS
  <2>1. grant[g].original = 0 /\ grant[g].remaining = 0
    BY DEF Books, Cover, AbsentIsEmpty, Lot
  <2>2. Captured(g) = 0 /\ Sum(Expired(g), Amount) = 0
    BY TracedTypes
  <2> QED BY <1>1, <1>7, <2>1, <2>2
<1> QED BY <1>10, <1>11 DEF Conserved

(***************************************************************************)
(* No micro of a grant is lost or made by any step, for any number of      *)
(* grants and holds: it remains, or was captured, or was journalled as     *)
(* expired.                                                                *)
(***************************************************************************)
THEOREM LotsAreConserved == Spec => LotConserved
<1>1. ASSUME Books, Books', [Next]_vars, NEW g \in Grants
      PROVE  Conserved(g)
  <2>1. CASE UNCHANGED <<grant, allocation, journal>>
    <3>1. Captured(g)' = Captured(g)
      BY <2>1, CapturedKept
    <3>2. Sum(Expired(g), Amount)' = Sum(Expired(g), Amount)
      BY <2>1, ExpiredKept
    <3> QED BY <1>1, <2>1, <3>1, <3>2, AloneConserved
  <2>2. ASSUME NEW a \in Accounts, RefreshGrantWindows(a) PROVE Conserved(g)
    <3>1. /\ grant' = RefreshedGrants(a, now) /\ journal' = journal \cup RefreshEntries(a, now)
          /\ UNCHANGED allocation
      BY <2>2 DEF RefreshGrantWindows
    <3>2. now \in Int
      BY <1>1, LedgerAssumption DEF Books, Cover, TypeOK
    <3>3. Captured(g)' = Captured(g)
      BY <3>1, CapturedKept
    <3> QED BY <1>1, <3>1, <3>2, <3>3, RefreshConserved
  <2>3. ASSUME NEW a \in Accounts, NEW k \in Grants, NEW amount \in Micros \ {0},
               NEW effective \in 0 .. MaxTime, NEW expires \in 1 .. Never, NEW t \in Later,
               GrantCredit(a, k, amount, effective, expires, t)
        PROVE  Conserved(g)
    BY <1>1, <2>3, GrantCreditConserved
  <2>4. ASSUME NEW a \in Accounts, NEW h \in Holds, NEW requested \in Micros \ {0},
               NEW t \in Later, Reserve(a, h, requested, t)
        PROVE  Conserved(g)
    BY <1>1, <2>4, ReserveConserved
  <2>5. ASSUME NEW h \in Holds, NEW source \in Sources, NEW actual \in Micros,
               Capture(h, actual, source)
        PROVE  Conserved(g)
    <3>1. Finish(h, actual, "captured", source)
            /\ journal' = journal \cup DebitEntries(h, actual, source)
      BY <2>5 DEF Capture
    <3>2. \A e \in journal' \ journal : e.kind = "debit"
      BY <3>1 DEF DebitEntries, Entry
    <3> QED BY <1>1, <3>1, <3>2, FinishConserved
  <2>6. ASSUME NEW h \in Holds, NEW source \in Sources, Release(h, source)
        PROVE  Conserved(g)
    <3>1. Finish(h, 0, "released", source) /\ journal' = journal /\ 0 \in Micros
      BY <2>6, LedgerAssumption DEF Release, Micros
    <3> QED BY <1>1, <3>1, FinishConserved
  <2>7. ASSUME NEW a \in Accounts, OpenMyAccount(a) \/ DisableAccount(a) PROVE Conserved(g)
    BY <2>1, <2>7 DEF OpenMyAccount, DisableAccount
  <2>8. CASE Tick \/ UNCHANGED vars
    BY <2>1, <2>8 DEF Tick, vars
  <2> QED BY <1>1, <2>2, <2>3, <2>4, <2>5, <2>6, <2>7, <2>8 DEF Next
<1>2. Books /\ Books' /\ [Next]_vars =>
        [\A g \in Grants :
           /\ grant[g].status = "absent" => Traced(g)' = grant'[g].original
           /\ grant[g].status \in {"active", "expired"} => Traced(g)' = Traced(g)
           /\ grant[g].status = "pending" /\ grant'[g].status # "expired"
                => Traced(g)' = Traced(g)]_vars
  BY <1>1 DEF Conserved
<1> QED BY <1>2, BooksInvariant, PTL DEF Spec, LotConserved

-------------------------------------------------------------------------------
(***************************************************************************)
(* The order in which a reservation takes.                                 *)
(***************************************************************************)
(* What a reservation leaves of the grants it could take from.             *)
LEMMA ReserveInOrder ==
  ASSUME Books, NEW a \in Accounts, NEW h \in Holds, NEW requested \in Micros \ {0},
         NEW t \in Later, Reserve(a, h, requested, t),
         NEW g \in Grants, allocation'[h][g].held > 0
  PROVE  /\ InWindow(g, now')
         /\ \A k \in GrantsOf(grant[g].account) \cap BurnsBefore[g] :
              grant'[k].status = "active" /\ InWindow(k, now') => Free(k)' = 0
<1> DEFINE share == Share(a, requested, t)
<1>1. /\ requested \in Nat /\ grant' = RefreshedGrants(a, now) /\ now' = t
      /\ \A k \in Grants : /\ allocation'[h][k].held = share[k] /\ share[k] \in Nat
                           /\ k \notin Eligible(a, t) => share[k] = 0
                           /\ Reserved(k)' = Reserved(k) + share[k]
  BY ReserveMeans DEF Books
<1> HIDE DEF share
<1>2. g \in Eligible(a, t) /\ share[g] > 0 /\ Cover
  BY <1>1 DEF Books
<1>3. InWindow(g, t) /\ grant[g].account = a
  BY <1>2 DEF Eligible, GrantsOf
<1>4. ASSUME NEW k \in GrantsOf(a) \cap BurnsBefore[g],
             grant'[k].status = "active", InWindow(k, t)
      PROVE  Free(k)' = 0
  <2>1. k \in Eligible(a, t) /\ k \in Grants
    BY <1>1, <1>4 DEF Eligible, GrantsOf
  <2>2. /\ IsFiniteSet(Eligible(a, t)) /\ Eligible(a, t) \subseteq DOMAIN Allocatable(a)
        /\ Eligible(a, t) \subseteq Grants
    BY GrantsFinite DEF Eligible, GrantsOf, Allocatable
  <2>3. \A y \in Grants : /\ Allocatable(a)[y] \in Nat
                          /\ Allocatable(a)[y] = RefreshedGrants(a, now)[y].remaining - Reserved(y)
                          /\ Reserved(y) \in Nat
                          /\ RefreshedGrants(a, now)[y].remaining \in Nat
    BY <1>2, LedgerAssumption, ReservedNat, RefreshedGrantsCover
       DEF Cover, GrantRows, Micros, Allocatable
  <2>4. \A x, y \in Grants : x \in BurnsBefore[y] <=>
          \/ grant[x].expires < grant[y].expires
          \/ grant[x].expires = grant[y].expires /\ x < y
    BY DEF BurnsBefore
  <2>5. \A x \in Grants : x \in Int /\ grant[x].expires \in Int
    BY <1>2, LedgerAssumption DEF Cover, TypeOK, GrantRows, Never
  <2>6. k \in BurnsBefore[g] /\ k \notin BurnsBefore[k]
    BY <2>1, <2>4, <2>5
  <2>7. \A y \in Eligible(a, t) : y \in BurnsBefore[k] => y \in BurnsBefore[g]
    BY <1>2, <2>1, <2>2, <2>4, <2>5, <2>6
  <2>8. share = Greedy(Eligible(a, t), BurnsBefore, Allocatable(a), requested)
    BY DEF share, Share
  <2>9. \A y \in Eligible(a, t) : Allocatable(a)[y] \in Nat
    BY <2>2, <2>3
  <2>10. share[k] = Allocatable(a)[k]
    BY <1>1, <1>2, <2>1, <2>2, <2>6, <2>7, <2>8, <2>9, GreedyInOrder
  <2>11. Free(k)' = grant'[k].remaining - Reserved(k)'
    BY DEF Free
  <2>12. grant'[k].remaining = RefreshedGrants(a, now)[k].remaining
           /\ Reserved(k)' = Reserved(k) + share[k]
    BY <1>1, <2>1
  <2> QED BY <2>1, <2>3, <2>10, <2>11, <2>12
<1> QED BY <1>1, <1>3, <1>4

(***************************************************************************)
(* Every reservation, on whatever grants and whenever the clock moves in   *)
(* it, takes open credit only, and in burn order.                          *)
(***************************************************************************)
THEOREM ReservationsTakeInOrder == Spec => ReservesOpenCreditInOrder
<1> DEFINE InOrder(h, g) ==
             /\ InWindow(g, now')
             /\ \A k \in GrantsOf(grant[g].account) \cap BurnsBefore[g] :
                  grant'[k].status = "active" /\ InWindow(k, now') => Free(k)' = 0
<1>1. ASSUME Books, [Next]_vars, NEW h \in Holds, NEW g \in Grants,
             hold[h].status = "absent", allocation'[h][g].held > 0
      PROVE  InOrder(h, g)
  <2>1. allocation'[h] # allocation[h]
    <3>1. allocation[h][g].held = 0
      BY <1>1 DEF Books, Booked
    <3> QED BY <1>1, <3>1
  <2>2. ASSUME NEW a \in Accounts, NEW k \in Holds, NEW requested \in Micros \ {0},
               NEW t \in Later, Reserve(a, k, requested, t)
        PROVE  InOrder(h, g)
    <3>1. k = h
      BY <1>1, <2>1, <2>2, ReserveMeans DEF Books
    <3> QED BY <1>1, <2>2, <3>1, ReserveInOrder
  <2>3. ASSUME NEW k \in Holds, NEW source \in Sources,
               (\E actual \in Micros : Capture(k, actual, source)) \/ Release(k, source)
        PROVE  FALSE
    <3>1. \E actual, terminal : Finish(k, actual, terminal, source)
      BY <2>3 DEF Capture, Release
    <3>2. PICK actual, terminal : Finish(k, actual, terminal, source)
      BY <3>1
    <3>3. k # h
      BY <1>1, <3>2 DEF Finish, Finishable
    <3>4. allocation'[h] = allocation[h]
      BY <1>1, <3>2, <3>3 DEF Finish, Books, Cover, TypeOK
    <3> QED BY <2>1, <3>4
  <2>4. ASSUME NEW a \in Accounts,
               \/ OpenMyAccount(a) \/ DisableAccount(a) \/ RefreshGrantWindows(a)
               \/ \E k \in Grants, amount \in Micros \ {0}, effective \in 0 .. MaxTime,
                     expires \in 1 .. Never, t \in Later :
                       GrantCredit(a, k, amount, effective, expires, t)
        PROVE  FALSE
    BY <2>1, <2>4 DEF OpenMyAccount, DisableAccount, RefreshGrantWindows, GrantCredit
  <2>5. CASE Tick \/ UNCHANGED vars
    BY <2>1, <2>5 DEF Tick, vars
  <2> HIDE DEF InOrder
  <2> QED BY <1>1, <2>2, <2>3, <2>4, <2>5 DEF Next
<1>2. Books /\ [Next]_vars =>
        [\A h \in Holds, g \in Grants :
           (hold[h].status = "absent" /\ allocation'[h][g].held > 0) =>
             /\ InWindow(g, now')
             /\ \A k \in GrantsOf(grant[g].account) \cap BurnsBefore[g] :
                  grant'[k].status = "active" /\ InWindow(k, now') => Free(k)' = 0]_vars
  BY <1>1
<1> QED BY <1>2, BooksInvariant, PTL DEF Spec, ReservesOpenCreditInOrder

-------------------------------------------------------------------------------
(***************************************************************************)
(* Debits and captures.                                                    *)
(***************************************************************************)
Charged == {h \in Holds : hold[h].status = "captured" /\ hold[h].captured > 0}

Debits == {e \in journal : e.kind = "debit"}

(* Every debit answers one captured hold, and there are as many.           *)
Matched ==
  /\ Cardinality(Debits) = Cardinality(Charged)
  /\ \A h \in Charged : \E e \in Debits :
        e.account = hold[h].account /\ e.source = hold[h].source /\ e.amount = hold[h].captured

(* Steps that change neither debits nor charged holds.                     *)
LEMMA MatchedKept ==
  ASSUME Matched, Charged' = Charged, Debits' = Debits,
         \A h \in Charged : hold'[h] = hold[h]
  PROVE  Matched'
BY DEF Matched

(* A capture adds one debit and one charged hold, or neither.              *)
LEMMA CaptureMatched ==
  ASSUME Books, Matched, NEW h \in Holds, NEW source \in Sources, NEW actual \in Micros,
         Capture(h, actual, source)
  PROVE  Matched'
<1>1. Finish(h, actual, "captured", source)
        /\ (actual > 0 => Unwritten("debit", source))
        /\ journal' = journal \cup DebitEntries(h, actual, source)
  BY DEF Capture
<1>2. /\ hold[h].status = "active" /\ hold'[h].status = "captured" /\ actual \in Nat
      /\ hold'[h].source = source /\ hold'[h].captured = actual
      /\ hold'[h].account = hold[h].account
      /\ \A k \in Holds \ {h} : hold'[k] = hold[k]
  BY <1>1, FinishMeans DEF Books
<1>3. h \notin Charged /\ Charged \subseteq Holds
  BY <1>2 DEF Charged
<1>4. CASE actual = 0
  <2>1. Charged' = Charged
    BY <1>2, <1>4 DEF Charged
  <2>2. Debits' = Debits
    BY <1>1, <1>4 DEF Debits, DebitEntries
  <2> QED BY <1>2, <1>3, <2>1, <2>2, MatchedKept
<1>5. CASE actual > 0
  <2> DEFINE entry == Entry(hold[h].account, NextSeq(hold[h].account), "debit", actual, source)
  <2>1. /\ entry.account = hold[h].account /\ entry.source = source
        /\ entry.amount = actual /\ entry.kind = "debit"
    BY DEF Entry
  <2>2. journal' = journal \cup {entry}
    BY <1>1, <1>5 DEF DebitEntries
  <2> HIDE DEF entry
  <2>3. entry \notin journal
    BY <1>1, <1>5, <2>1 DEF Unwritten
  <2>4. Debits' = Debits \cup {entry} /\ entry \notin Debits
    BY <2>1, <2>2, <2>3 DEF Debits
  <2>5. Charged' = Charged \cup {h}
    BY <1>2, <1>5 DEF Charged
  <2>6. IsFiniteSet(Debits) /\ IsFiniteSet(Charged)
    BY HoldsFinite, FS_Subset DEF Debits, Charged, Books, Cover
  <2>7. /\ Cardinality(Debits \cup {entry}) = Cardinality(Debits) + 1
        /\ Cardinality(Charged \cup {h}) = Cardinality(Charged) + 1
    BY <1>3, <2>4, <2>6, FS_AddElement
  <2>8. Cardinality(Debits') = Cardinality(Charged')
    BY <2>4, <2>5, <2>7 DEF Matched
  <2>9. ASSUME NEW k \in Charged'
        PROVE  \E e \in Debits' : e.account = hold'[k].account /\ e.source = hold'[k].source
                                                             /\ e.amount = hold'[k].captured
    <3>1. CASE k = h
      BY <1>2, <2>1, <2>4, <3>1
    <3>2. CASE k # h
      <4>1. k \in Charged /\ hold'[k] = hold[k]
        BY <1>2, <1>3, <2>5, <3>2
      <4> QED BY <2>4, <4>1 DEF Matched
    <3> QED BY <3>1, <3>2
  <2> QED BY <2>8, <2>9 DEF Matched
<1> QED BY <1>2, <1>4, <1>5

(***************************************************************************)
(* Usage is charged once: for any number of holds and sources, the debits  *)
(* of the journal are the captured holds, one for one.                     *)
(***************************************************************************)
THEOREM DebitsAlwaysAreCaptures == Spec => []DebitsAreCaptures
<1>1. Init => Matched
  <2> SUFFICES ASSUME Init PROVE Matched
    OBVIOUS
  <2>1. Charged = {} /\ Debits = {}
    BY DEF Init, Charged, Debits, NoHold
  <2> QED BY <2>1 DEF Matched
<1>2. ASSUME Books, Matched, [Next]_vars PROVE Matched'
  <2>1. ASSUME NEW a \in Accounts, RefreshGrantWindows(a) PROVE Matched'
    <3>1. UNCHANGED hold /\ journal' = journal \cup RefreshEntries(a, now)
      BY <2>1 DEF RefreshGrantWindows
    <3>2. Charged' = Charged
      BY <3>1 DEF Charged
    <3>3. Debits' = Debits
      BY <3>1, RefreshEntriesAre DEF Debits
    <3> QED BY <1>2, <3>1, <3>2, <3>3, MatchedKept
  <2>2. ASSUME NEW a \in Accounts, NEW g \in Grants, NEW amount \in Micros \ {0},
               NEW effective \in 0 .. MaxTime, NEW expires \in 1 .. Never, NEW t \in Later,
               GrantCredit(a, g, amount, effective, expires, t)
        PROVE  Matched'
    <3>1. UNCHANGED hold /\ journal' = journal \cup {Entry(a, NextSeq(a), "grant", amount, g)}
      BY <2>2 DEF GrantCredit
    <3>2. Charged' = Charged
      BY <3>1 DEF Charged
    <3>3. Debits' = Debits
      BY <3>1 DEF Debits, Entry
    <3> QED BY <1>2, <3>1, <3>2, <3>3, MatchedKept
  <2>3. ASSUME NEW a \in Accounts, NEW h \in Holds, NEW requested \in Micros \ {0},
               NEW t \in Later, Reserve(a, h, requested, t)
        PROVE  Matched'
    <3>1. /\ hold[h].status = "absent" /\ hold'[h].status = "active"
          /\ \A k \in Holds \ {h} : hold'[k] = hold[k]
          /\ journal' = journal \cup RefreshEntries(a, now)
      BY <1>2, <2>3, ReserveMeans DEF Books
    <3>2. Charged' = Charged /\ \A k \in Charged : hold'[k] = hold[k]
      BY <3>1 DEF Charged
    <3>3. Debits' = Debits
      BY <3>1, RefreshEntriesAre DEF Debits
    <3> QED BY <1>2, <3>2, <3>3, MatchedKept
  <2>4. ASSUME NEW h \in Holds, NEW source \in Sources, NEW actual \in Micros,
               Capture(h, actual, source)
        PROVE  Matched'
    BY <1>2, <2>4, CaptureMatched
  <2>5. ASSUME NEW h \in Holds, NEW source \in Sources, Release(h, source) PROVE Matched'
    <3>1. Finish(h, 0, "released", source) /\ journal' = journal /\ 0 \in Micros
      BY <2>5, LedgerAssumption DEF Release, Micros
    <3>2. /\ hold[h].status = "active" /\ hold'[h].status = "released"
          /\ \A k \in Holds \ {h} : hold'[k] = hold[k]
      BY <1>2, <3>1, FinishMeans DEF Books
    <3>3. Charged' = Charged /\ \A k \in Charged : hold'[k] = hold[k]
      BY <3>2 DEF Charged
    <3>4. Debits' = Debits
      BY <3>1 DEF Debits
    <3> QED BY <1>2, <3>3, <3>4, MatchedKept
  <2>6. ASSUME UNCHANGED <<hold, journal>> PROVE Matched'
    BY <1>2, <2>6, MatchedKept DEF Charged, Debits
  <2>7. CASE Tick \/ UNCHANGED vars
    BY <2>6, <2>7 DEF Tick, vars
  <2>8. ASSUME NEW a \in Accounts, OpenMyAccount(a) \/ DisableAccount(a) PROVE Matched'
    BY <2>6, <2>8 DEF OpenMyAccount, DisableAccount
  <2> QED BY <1>2, <2>1, <2>2, <2>3, <2>4, <2>5, <2>7, <2>8 DEF Next
<1>3. Matched => DebitsAreCaptures
  BY DEF Matched, DebitsAreCaptures, Charged, Debits
<1> QED BY <1>1, <1>2, <1>3, BooksInvariant, PTL DEF Spec

-------------------------------------------------------------------------------
(***************************************************************************)
(* The journal, and the listings that are read from it page by page.       *)
(***************************************************************************)
\* The entries that add to an account's balance, and the others.
Granted(a) == {e \in Entries(a) : e.kind = "grant"}

Spent(a) == Entries(a) \ Granted(a)

\* The balance of the whole journal of an account.
Journalled(a) == Sum(Granted(a), Amount) - Sum(Spent(a), Amount)

Numbered(a) == Numbers(a) = 1 .. Cardinality(Entries(a))

\* The journal has what its grants still have, so that no entry takes it below zero.
Backed(a) == Journalled(a) >= Sum(GrantsOf(a), Remaining)

Solvent(a) == \A s \in Numbers(a) : BalanceAfter(a, s) >= 0

Items == [seq : Nat \ {0}, balance : Int]

First(items) == IF items = <<>> THEN 0 ELSE items[1].seq

\* What a subject has read, of what is there, and where it is.
ListingIs(a, items, c) ==
  /\ items \in Seq(Items)
  /\ \A i \in 1 .. Len(items) :
       /\ items[i].seq \in Numbers(a)
       /\ items[i].seq = First(items) + 1 - i
       /\ items[i].balance = BalanceAfter(a, items[i].seq)
  /\ c = None => Len(items) = First(items)
  /\ c # None =>
       /\ c \in [subject : {a}, account : {a}, high : Numbers(a), last : Numbers(a)]
       /\ c.high = First(items) /\ c.last = First(items) + 1 - Len(items)
       /\ c.last <= c.high

Listing(a) == ListingIs(a, read[a], cursor[a])

JournalInOrder == \A a \in Accounts : Numbered(a) /\ Backed(a) /\ Solvent(a)

ListingsInOrder ==
  /\ read = [a \in Accounts |-> read[a]] /\ cursor = [a \in Accounts |-> cursor[a]]
  /\ \A a \in Accounts : Listing(a)

-------------------------------------------------------------------------------
(* The largest of some naturals, and the smaller of two. *)
LEMMA MaxIs ==
  ASSUME NEW S \in SUBSET Nat, NEW m \in S, \A n \in S : n <= m
  PROVE  Max(S) = m
<1>1. Max(S) \in S /\ \A n \in S : Max(S) >= n
  BY DEF Max
<1>2. Max(S) \in Nat /\ m \in Nat /\ Max(S) >= m /\ Max(S) <= m
  BY <1>1
<1> QED BY <1>2

(* The smaller of two naturals. *)
LEMMA MinIs ==
  ASSUME NEW m \in Nat, NEW n \in Nat
  PROVE  Min({m, n}) = IF m <= n THEN m ELSE n
<1>1. \E x \in {m, n} : \A y \in {m, n} : x <= y
  OBVIOUS
<1>2. Min({m, n}) \in {m, n} /\ \A y \in {m, n} : Min({m, n}) <= y
  BY <1>1 DEF Min
<1> QED BY <1>2

(* The entries of an account, those that add and those that take. *)
LEMMA EntriesAre ==
  ASSUME Cover, NEW a \in Accounts
  PROVE  /\ Entries(a) \subseteq journal /\ IsFiniteSet(Entries(a))
         /\ Cardinality(Entries(a)) \in Nat
         /\ \A e \in Entries(a) : e.seq \in Nat \ {0} /\ Amount[e] \in Nat /\ Amount[e] = e.amount
         /\ Granted(a) \subseteq Entries(a) /\ IsFiniteSet(Granted(a))
         /\ Spent(a) \subseteq Entries(a) /\ IsFiniteSet(Spent(a))
         /\ Granted(a) \cap Spent(a) = {} /\ Granted(a) \cup Spent(a) = Entries(a)
<1>1. Entries(a) \subseteq journal /\ IsFiniteSet(journal) /\ journal \subseteq JournalRows
  BY DEF Cover, TypeOK, Entries
<1>2. IsFiniteSet(Entries(a)) BY <1>1, FS_Subset
<1>3. Granted(a) \subseteq Entries(a) /\ Spent(a) \subseteq Entries(a)
      /\ Granted(a) \cap Spent(a) = {} /\ Granted(a) \cup Spent(a) = Entries(a)
  BY DEF Granted, Spent
<1>4. IsFiniteSet(Granted(a)) /\ IsFiniteSet(Spent(a)) BY <1>2, <1>3, FS_Subset
<1>5. \A e \in Entries(a) : e.seq \in Nat \ {0} /\ Amount[e] \in Nat /\ Amount[e] = e.amount
  BY <1>1, LedgerAssumption DEF JournalRows, Micros, Amount
<1> QED BY <1>1, <1>2, <1>3, <1>4, <1>5, FS_CardinalityType

(* The balance after an entry, in the two parts of the history. *)
LEMMA BalanceIs ==
  ASSUME Cover, NEW a \in Accounts, NEW s
  PROVE  LET plus == {e \in Granted(a) : e.seq <= s}
             minus == {e \in Spent(a) : e.seq <= s}
         IN  /\ BalanceAfter(a, s) = Sum(plus, Amount) - Sum(minus, Amount)
             /\ Sum(plus, Amount) \in Nat /\ Sum(minus, Amount) \in Nat
             /\ BalanceAfter(a, s) \in Int
<1> DEFINE plus == {e \in Granted(a) : e.seq <= s}
           minus == {e \in Spent(a) : e.seq <= s}
           history == {e \in Entries(a) : e.seq <= s}
           granted == {e \in history : e.kind = "grant"}
<1>1. granted = plus /\ history \ granted = minus
  BY DEF Granted, Spent
<1>2. BalanceAfter(a, s) = Sum(granted, Amount) - Sum(history \ granted, Amount)
  BY DEF BalanceAfter
<1>3. BalanceAfter(a, s) = Sum(plus, Amount) - Sum(minus, Amount)
  <2> HIDE DEF plus, minus, history, granted
  <2> QED BY <1>1, <1>2
<1>4. plus \subseteq Granted(a) /\ minus \subseteq Spent(a)
  OBVIOUS
<1> HIDE DEF plus, minus
<1>5. IsFiniteSet(plus) /\ IsFiniteSet(minus)
  BY <1>4, EntriesAre, FS_Subset
<1>6. \A e \in plus \cup minus : Amount[e] \in Int
  BY <1>4, EntriesAre
<1>7. Sum(plus, Amount) \in Nat /\ Sum(minus, Amount) \in Nat
  BY <1>5, <1>6, SumType
<1> QED BY <1>3, <1>7 DEF plus, minus

(* The whole journal, in naturals. *)
LEMMA JournalledIs ==
  ASSUME Cover, NEW a \in Accounts
  PROVE  /\ Sum(Granted(a), Amount) \in Nat /\ Sum(Spent(a), Amount) \in Nat
         /\ Journalled(a) \in Int
         /\ Sum(GrantsOf(a), Remaining) \in Nat
<1>1. Sum(Granted(a), Amount) \in Nat /\ Sum(Spent(a), Amount) \in Nat
  BY EntriesAre, SumType
<1>2. \A g \in GrantsOf(a) : Remaining[g] \in Int
  <2>1. \A g \in Grants : grant[g].remaining \in Nat BY RowTypes DEF Cover
  <2>2. GrantsOf(a) \subseteq Grants BY GrantsOfFinite
  <2> QED BY <2>1, <2>2 DEF Remaining
<1>3. Sum(GrantsOf(a), Remaining) \in Nat
  BY <1>2, GrantsOfFinite, SumType
<1> QED BY <1>1, <1>3 DEF Journalled

(* The next number is one more than there are entries. *)
LEMMA NextSeqIs ==
  ASSUME Cover, NEW a \in Accounts, Numbered(a)
  PROVE  NextSeq(a) = Cardinality(Entries(a)) + 1
<1> DEFINE n == Cardinality(Entries(a))
<1>1. n \in Nat BY EntriesAre
<1>2. {e.seq : e \in Entries(a)} = 1 .. n BY DEF Numbered, Numbers
<1> HIDE DEF n
<1>3. {0} \cup (1 .. n) \in SUBSET Nat /\ n \in {0} \cup (1 .. n)
      /\ \A m \in {0} \cup (1 .. n) : m <= n
  BY <1>1
<1>4. Max({0} \cup (1 .. n)) = n BY <1>3, MaxIs
<1>5. NextSeq(a) = 1 + Max({0} \cup (1 .. n)) BY <1>2 DEF NextSeq
<1>6. NextSeq(a) = 1 + n BY <1>4, <1>5
<1>7. 1 + n = n + 1 BY <1>1
<1> QED BY <1>6, <1>7 DEF n

(* An account whose journal a step leaves alone. *)
LEMMA JournalStays ==
  ASSUME Cover, Cover', NEW a \in Accounts, journal \subseteq journal',
         Entries(a)' = Entries(a)
  PROVE  /\ Numbers(a)' = Numbers(a)
         /\ Numbered(a) => Numbered(a)'
         /\ \A s : BalanceAfter(a, s)' = BalanceAfter(a, s)
         /\ Journalled(a)' = Journalled(a)
         /\ Solvent(a) => Solvent(a)'
<1>1. \A e \in Entries(a) : Amount'[e] = Amount[e]
  BY DEF Entries, Amount
<1>2. Granted(a)' = Granted(a) /\ Spent(a)' = Spent(a)
  BY DEF Granted, Spent
<1>3. Granted(a) \subseteq Entries(a) /\ Spent(a) \subseteq Entries(a)
  BY EntriesAre
<1>4. \A s : BalanceAfter(a, s)' = BalanceAfter(a, s)
  <2> TAKE s
  <2> DEFINE plus == {e \in Granted(a) : e.seq <= s}
             minus == {e \in Spent(a) : e.seq <= s}
  <2>1. BalanceAfter(a, s) = Sum(plus, Amount) - Sum(minus, Amount)
    BY BalanceIs
  <2>2. BalanceAfter(a, s)' = Sum({e \in Entries(a)' : e.seq <= s /\ e.kind = "grant"}, Amount')
            - Sum({e \in Entries(a)' : e.seq <= s /\ e.kind # "grant"}, Amount')
    <3> DEFINE history == {e \in Entries(a)' : e.seq <= s}
               granted == {e \in history : e.kind = "grant"}
    <3>1. BalanceAfter(a, s)' = Sum(granted, Amount') - Sum(history \ granted, Amount')
      BY DEF BalanceAfter
    <3>2. granted = {e \in Entries(a)' : e.seq <= s /\ e.kind = "grant"}
          /\ history \ granted = {e \in Entries(a)' : e.seq <= s /\ e.kind # "grant"}
      OBVIOUS
    <3> HIDE DEF history, granted
    <3> QED BY <3>1, <3>2
  <2>3. plus = {e \in Entries(a)' : e.seq <= s /\ e.kind = "grant"}
        /\ minus = {e \in Entries(a)' : e.seq <= s /\ e.kind # "grant"}
    BY DEF Granted, Spent
  <2>4. \A e \in plus \cup minus : Amount'[e] = Amount[e]
    BY <1>1, <1>3
  <2> HIDE DEF plus, minus
  <2>5. Sum(plus, Amount') = Sum(plus, Amount) /\ Sum(minus, Amount') = Sum(minus, Amount)
    BY <2>4, SumEqual
  <2> QED BY <2>1, <2>2, <2>3, <2>5
<1>5. Journalled(a)' = Journalled(a)
  <2>1. Sum(Granted(a), Amount') = Sum(Granted(a), Amount)
        /\ Sum(Spent(a), Amount') = Sum(Spent(a), Amount)
    BY <1>1, <1>3, SumEqual
  <2> QED BY <1>2, <2>1 DEF Journalled
<1>6. Numbers(a)' = Numbers(a) BY DEF Numbers
<1> QED BY <1>4, <1>5, <1>6 DEF Numbered, Solvent

(***************************************************************************)
(* An account's journal grows by the entries New, numbered on from what it *)
(* has: no balance of before changes, and if the whole is not negative     *)
(* then no balance is. All but the first of New are entries that take.     *)
(***************************************************************************)
LEMMA JournalGrows ==
  ASSUME Cover, Cover', NEW a \in Accounts, NEW New, Numbered(a), Solvent(a),
         journal \subseteq journal',
         Entries(a)' = Entries(a) \cup New, IsFiniteSet(New),
         {e.seq : e \in New} = Cardinality(Entries(a)) + 1 .. Cardinality(Entries(a)) + Cardinality(New),
         \A e \in New : e.kind = "grant" => e.seq = Cardinality(Entries(a)) + 1,
         Journalled(a)' >= 0
  PROVE  /\ Numbered(a)' /\ Solvent(a)'
         /\ Numbers(a) \subseteq Numbers(a)'
         /\ \A s \in Numbers(a) : BalanceAfter(a, s)' = BalanceAfter(a, s)
<1> DEFINE n == Cardinality(Entries(a))
           k == Cardinality(New)
<1>1. n \in Nat /\ k \in Nat BY EntriesAre, FS_CardinalityType
<1>2. {e.seq : e \in New} = n + 1 .. n + k OBVIOUS
<1>3. \A e \in New : e.seq \in n + 1 .. n + k BY <1>2
<1>4. Numbers(a) = 1 .. n BY DEF Numbered
<1>5. \A e \in Entries(a) : e.seq \in 1 .. n BY <1>4 DEF Numbers
<1>6. Entries(a) \cap New = {}
  <2> HIDE DEF n, k
  <2> QED BY <1>1, <1>3, <1>5
<1>7. Cardinality(Entries(a)') = n + k
  <2>1. Cardinality(Entries(a) \cup New) = n + k - Cardinality(Entries(a) \cap New)
    BY EntriesAre, FS_Union
  <2>2. Cardinality(Entries(a) \cap New) = 0 BY <1>6, FS_EmptySet
  <2> QED BY <1>1, <2>1, <2>2
<1>8. Numbers(a)' = 1 .. n + k
  <2>1. Numbers(a)' = Numbers(a) \cup {e.seq : e \in New} BY DEF Numbers
  <2> HIDE DEF n, k
  <2> QED BY <1>1, <1>2, <1>4, <2>1
<1>9. Numbered(a)' BY <1>7, <1>8 DEF Numbered
<1>10. Numbers(a) \subseteq Numbers(a)'
  <2> HIDE DEF n, k
  <2> QED BY <1>1, <1>4, <1>8
<1>11. \A e \in Entries(a) : Amount'[e] = Amount[e]
  BY DEF Entries, Amount
<1> DEFINE Plus == {e \in Entries(a)' : e.kind = "grant"}
           Minus == {e \in Entries(a)' : e.kind # "grant"}
<1>12. Granted(a)' = Plus /\ Spent(a)' = Minus
  BY DEF Granted, Spent
<1>13. \A s : LET plus == {e \in Plus : e.seq <= s}
                  minus == {e \in Minus : e.seq <= s}
              IN  /\ BalanceAfter(a, s)' = Sum(plus, Amount') - Sum(minus, Amount')
                  /\ Sum(plus, Amount') \in Nat /\ Sum(minus, Amount') \in Nat
  <2> TAKE s
  <2>1. LET plus == {e \in Granted(a)' : e.seq <= s}
            minus == {e \in Spent(a)' : e.seq <= s}
        IN  /\ BalanceAfter(a, s)' = Sum(plus, Amount') - Sum(minus, Amount')
            /\ Sum(plus, Amount') \in Nat /\ Sum(minus, Amount') \in Nat
    <3> DEFINE history == {e \in Entries(a)' : e.seq <= s}
               granted == {e \in history : e.kind = "grant"}
               plus == {e \in Granted(a)' : e.seq <= s}
               minus == {e \in Spent(a)' : e.seq <= s}
    <3>1. BalanceAfter(a, s)' = Sum(granted, Amount') - Sum(history \ granted, Amount')
      BY DEF BalanceAfter
    <3>2. granted = plus /\ history \ granted = minus
      BY DEF Granted, Spent
    <3>3. plus \subseteq Entries(a)' /\ minus \subseteq Entries(a)'
      BY DEF Granted, Spent
    <3>4. /\ IsFiniteSet(Entries(a)')
          /\ \A e \in Entries(a)' : Amount'[e] \in Nat
      <4>1. journal' \subseteq JournalRows /\ IsFiniteSet(journal')
        BY DEF Cover, TypeOK
      <4>2. Entries(a)' \subseteq journal' BY DEF Entries
      <4>3. \A e \in Entries(a)' : Amount'[e] \in Nat
        BY <4>1, <4>2, LedgerAssumption DEF Amount, JournalRows, Micros
      <4> QED BY <4>1, <4>2, <4>3, FS_Subset
    <3> HIDE DEF history, granted, plus, minus
    <3>5. IsFiniteSet(plus) /\ IsFiniteSet(minus) BY <3>3, <3>4, FS_Subset
    <3>6. Sum(plus, Amount') \in Nat /\ Sum(minus, Amount') \in Nat
      BY <3>3, <3>4, <3>5, SumType
    <3>7. BalanceAfter(a, s)' = Sum(plus, Amount') - Sum(minus, Amount') BY <3>1, <3>2
    <3> QED BY <3>6, <3>7 DEF plus, minus
  <2> HIDE DEF Plus, Minus
  <2> QED BY <1>12, <2>1
<1>14. \A s \in Numbers(a) : BalanceAfter(a, s)' = BalanceAfter(a, s)
  <2> TAKE s \in Numbers(a)
  <2> DEFINE plus == {e \in Granted(a) : e.seq <= s}
             minus == {e \in Spent(a) : e.seq <= s}
  <2>1. BalanceAfter(a, s) = Sum(plus, Amount) - Sum(minus, Amount) BY BalanceIs
  <2>2. \A e \in New : ~(e.seq <= s)
    <3>1. s \in 1 .. n BY <1>4
    <3> HIDE DEF n, k
    <3> QED BY <1>1, <1>3, <3>1
  <2>3. {e \in Plus : e.seq <= s} = plus /\ {e \in Minus : e.seq <= s} = minus
    BY <2>2 DEF Granted, Spent
  <2>4. \A e \in plus \cup minus : Amount'[e] = Amount[e]
    BY <1>11 DEF Granted, Spent
  <2>5. BalanceAfter(a, s)' = Sum({e \in Plus : e.seq <= s}, Amount')
                                - Sum({e \in Minus : e.seq <= s}, Amount')
    BY <1>13
  <2> HIDE DEF plus, minus
  <2>6. Sum(plus, Amount') = Sum(plus, Amount) /\ Sum(minus, Amount') = Sum(minus, Amount)
    BY <2>4, SumEqual
  <2> QED BY <2>1, <2>3, <2>5, <2>6
<1>15. ASSUME NEW s \in Numbers(a)', s \notin Numbers(a)
       PROVE  BalanceAfter(a, s)' >= 0
  <2>1. s \in Nat /\ s >= n + 1
    <3> HIDE DEF n, k
    <3> QED BY <1>1, <1>4, <1>8, <1>15
  <2> DEFINE plus == {e \in Plus : e.seq <= s}
             minus == {e \in Minus : e.seq <= s}
  <2>2. plus = Plus
    <3>1. \A e \in Plus : e.seq <= s
      <4> SUFFICES ASSUME NEW e \in Plus PROVE e.seq <= s OBVIOUS
      <4>1. CASE e \in Entries(a)
        <5>1. e.seq \in 1 .. n BY <1>5, <4>1
        <5> HIDE DEF n
        <5> QED BY <1>1, <2>1, <5>1
      <4>2. CASE e \in New
        <5>1. e.seq = n + 1 BY <4>2
        <5> HIDE DEF n
        <5> QED BY <1>1, <2>1, <5>1
      <4> QED BY <4>1, <4>2
    <3> QED BY <3>1
  <2>3. minus \in SUBSET Minus /\ IsFiniteSet(Minus) /\ \A e \in Minus : Amount'[e] \in Nat
    <3>1. journal' \subseteq JournalRows /\ IsFiniteSet(journal')
      BY DEF Cover, TypeOK
    <3>2. Minus \subseteq journal' BY DEF Entries
    <3>3. \A e \in Minus : Amount'[e] \in Nat
      <4> HIDE DEF Minus
      <4> QED BY <3>1, <3>2, LedgerAssumption DEF Amount, JournalRows, Micros
    <3> QED BY <3>1, <3>2, <3>3, FS_Subset
  <2>4. BalanceAfter(a, s)' = Sum(plus, Amount') - Sum(minus, Amount')
        /\ Sum(plus, Amount') \in Nat /\ Sum(minus, Amount') \in Nat
    BY <1>13
  <2>5. Sum(Plus, Amount') - Sum(Minus, Amount') >= 0
    BY <1>12 DEF Journalled
  <2> HIDE DEF plus, minus, Plus, Minus
  <2>6. Sum(minus, Amount') <= Sum(Minus, Amount') BY <2>3, SumSubset
  <2>7. Sum(Minus, Amount') \in Nat BY <2>3, SumType
  <2> QED BY <2>2, <2>4, <2>5, <2>6, <2>7
<1>16. Solvent(a)'
  <2>1. \A s \in Numbers(a) : BalanceAfter(a, s)' >= 0 BY <1>14 DEF Solvent
  <2> QED BY <1>15, <2>1 DEF Solvent
<1> QED BY <1>9, <1>10, <1>14, <1>16

(* How many of a set of numbers come before each: 0, 1, and so on, each once. *)
LEMMA RanksAre ==
  ASSUME NEW W \in SUBSET Nat, IsFiniteSet(W)
  PROVE  LET rank == [g \in W |-> Cardinality({k \in W : k < g})]
         IN  /\ \A g \in W : rank[g] \in Nat
             /\ {rank[g] : g \in W} = 0 .. Cardinality(W) - 1
             /\ \A g, h \in W : rank[g] = rank[h] => g = h
<1> DEFINE below(g) == {k \in W : k < g}
           rank == [g \in W |-> Cardinality({k \in W : k < g})]
           T == 0 .. Cardinality(W) - 1
<1>1. Cardinality(W) \in Nat BY FS_CardinalityType
<1>2. ASSUME NEW g \in W PROVE rank[g] = Cardinality(below(g)) /\ rank[g] \in Nat /\ rank[g] < Cardinality(W)
  <2>1. below(g) \in SUBSET W /\ g \notin below(g) /\ rank[g] = Cardinality(below(g)) OBVIOUS
  <2> HIDE DEF below, rank
  <2>2. IsFiniteSet(below(g)) /\ Cardinality(below(g)) <= Cardinality(W)
        /\ (Cardinality(W) = Cardinality(below(g)) => W = below(g))
    BY <2>1, FS_Subset
  <2>3. Cardinality(below(g)) \in Nat BY <2>2, FS_CardinalityType
  <2> QED BY <1>1, <2>1, <2>2, <2>3
<1>3. ASSUME NEW g \in W, NEW h \in W, g < h PROVE rank[g] < rank[h]
  <2>0. g \in Nat /\ h \in Nat /\ g < h /\ ~(g < g) /\ \A k \in W : k \in Nat /\ (k < g => k < h)
    BY <1>3
  <2>1. below(g) \in SUBSET below(h) /\ g \in below(h) /\ g \notin below(g) /\ below(h) \in SUBSET W
    BY <2>0, Zenon
  <2> HIDE DEF below, rank
  <2>2. IsFiniteSet(below(h)) BY <2>1, FS_Subset
  <2>3. Cardinality(below(g)) <= Cardinality(below(h))
        /\ (Cardinality(below(h)) = Cardinality(below(g)) => below(h) = below(g))
    BY <2>1, <2>2, FS_Subset
  <2> QED BY <1>2, <2>1, <2>3
<1>4. ASSUME NEW g \in W, NEW h \in W, rank[g] = rank[h] PROVE g = h
  <2>1. rank[g] \in Nat /\ rank[h] \in Nat BY <1>2
  <2>2. g \in Nat /\ h \in Nat OBVIOUS
  <2> HIDE DEF rank
  <2> QED BY <1>3, <1>4, <2>1, <2>2
<1>5. \A g \in W : rank[g] \in T
  <2> TAKE g \in W
  <2>1. rank[g] \in Nat /\ rank[g] < Cardinality(W) BY <1>2
  <2> HIDE DEF rank
  <2> QED BY <1>1, <2>1
<1>6. rank \in Injection(W, T)
  <2>1. rank \in [W -> T] BY <1>5
  <2> HIDE DEF rank, T
  <2> QED BY <1>4, <2>1 DEF Injection, IsInjective
<1>7. IsFiniteSet(T) /\ Cardinality(T) = Cardinality(W)
  <2>1. /\ IsFiniteSet(0 .. Cardinality(W) - 1)
        /\ Cardinality(0 .. Cardinality(W) - 1)
             = IF 0 > Cardinality(W) - 1 THEN 0 ELSE Cardinality(W) - 1 - 0 + 1
    <3>1. 0 \in Int /\ Cardinality(W) - 1 \in Int BY <1>1
    <3> QED BY <3>1, FS_Interval
  <2> QED BY <1>1, <2>1
<1>8. rank \in Surjection(W, T) BY <1>6, <1>7, FS_Injection
<1>9. {rank[g] : g \in W} = T
  <2> HIDE DEF rank, T
  <2> QED BY <1>5, <1>8 DEF Surjection
<1> QED BY <1>2, <1>4, <1>9

(* A refresh numbers its expiries on from the last entry, in the order of the grants. *)
LEMMA RefreshNumbers ==
  ASSUME Cover, NEW a \in Accounts, Numbered(a), NEW t
  PROVE  LET new == RefreshEntries(a, t)
             n == Cardinality(Entries(a))
         IN  /\ IsFiniteSet(new)
             /\ {e.seq : e \in new} = n + 1 .. n + Cardinality(new)
             /\ \A e \in new : e.account = a /\ e.kind = "expiry"
<1> DEFINE W == {g \in Lapsing(a, t) : ExpiredAvailable[g] > 0}
           n == Cardinality(Entries(a))
           rank == [g \in W |-> Cardinality({k \in W : k < g})]
           entry == [g \in W |-> Entry(a, n + 1 + rank[g], "expiry", ExpiredAvailable[g], g)]
           new == RefreshEntries(a, t)
<1>1. n \in Nat BY EntriesAre
<1>2. W \subseteq Grants BY DEF Lapsing, GrantsOf
<1>3. W \in SUBSET Nat /\ IsFiniteSet(W) BY <1>2, GrantsFinite, LedgerAssumption
<1>4. NextSeq(a) = n + 1 BY NextSeqIs
<1>5. new = {entry[g] : g \in W}
  <2>1. new = {Entry(a, NextSeq(a) + Cardinality({k \in W : k < g}), "expiry", ExpiredAvailable[g], g) : g \in W}
    BY DEF RefreshEntries
  <2>2. \A g \in W : Entry(a, NextSeq(a) + Cardinality({k \in W : k < g}), "expiry", ExpiredAvailable[g], g)
                       = entry[g]
    BY <1>4
  <2> HIDE DEF new, entry, W
  <2> QED BY <2>1, <2>2
<1>6. /\ \A g \in W : rank[g] \in Nat
      /\ {rank[g] : g \in W} = 0 .. Cardinality(W) - 1
      /\ \A g, h \in W : rank[g] = rank[h] => g = h
  <2> HIDE DEF W
  <2> QED BY <1>3, RanksAre
<1>7. \A g \in W : /\ entry[g].seq = n + 1 + rank[g] /\ entry[g].account = a
                   /\ entry[g].kind = "expiry" /\ entry[g].source = g
  BY DEF Entry
<1>8. IsFiniteSet(new) /\ Cardinality(new) = Cardinality(W)
  <2> HIDE DEF new, W, entry, rank
  <2>1. entry \in [W -> new] /\ \A g, h \in W : entry[g] = entry[h] => g = h
    <3>1. entry = [g \in W |-> entry[g]] BY DEF entry
    <3> QED BY <1>5, <1>7, <3>1
  <2>2. \A e \in new : \E g \in W : entry[g] = e BY <1>5
  <2>3. entry \in Bijection(W, new)
    BY <2>1, <2>2 DEF Bijection, Injection, Surjection, IsInjective
  <2>4. ExistsBijection(W, new) BY <2>3 DEF ExistsBijection
  <2> QED BY <1>3, <2>4, FS_Bijection
<1>9. {e.seq : e \in new} = n + 1 .. n + Cardinality(new)
  <2>1. Cardinality(W) \in Nat BY <1>3, FS_CardinalityType
  <2> HIDE DEF new, W, entry, rank, n
  <2>2. {e.seq : e \in new} = {n + 1 + rank[g] : g \in W}
    BY <1>5, <1>7
  <2>3. {n + 1 + rank[g] : g \in W} = {n + 1 + r : r \in 0 .. Cardinality(W) - 1}
    BY <1>6
  <2>4. {n + 1 + r : r \in 0 .. Cardinality(W) - 1} = n + 1 .. n + Cardinality(W)
    <3>1. \A x \in n + 1 .. n + Cardinality(W) : x - n - 1 \in 0 .. Cardinality(W) - 1 /\ x = n + 1 + (x - n - 1)
      BY <1>1, <2>1
    <3>2. \A r \in 0 .. Cardinality(W) - 1 : n + 1 + r \in n + 1 .. n + Cardinality(W)
      BY <1>1, <2>1
    <3> QED BY <3>1, <3>2
  <2> QED BY <1>8, <2>2, <2>3, <2>4
<1>10. \A e \in new : e.account = a /\ e.kind = "expiry"
  <2> HIDE DEF new, W, entry, rank, n
  <2> QED BY <1>5, <1>7
<1> QED BY <1>8, <1>9, <1>10

(* What new entries add to the whole of an account's journal, and take from it. *)
LEMMA JournalAdds ==
  ASSUME Cover, Cover', NEW a \in Accounts, NEW New, IsFiniteSet(New), New \cap Entries(a) = {},
         journal \subseteq journal', Entries(a)' = Entries(a) \cup New
  PROVE  LET plus == Sum({e \in New : e.kind = "grant"}, Amount')
             minus == Sum({e \in New : e.kind # "grant"}, Amount')
         IN  /\ plus \in Nat /\ minus \in Nat /\ Journalled(a)' \in Int
             /\ Journalled(a)' = Journalled(a) + plus - minus
             /\ \A e \in New : Amount'[e] = e.amount /\ Amount'[e] \in Nat
<1> DEFINE Plus == {e \in New : e.kind = "grant"}
           Minus == {e \in New : e.kind # "grant"}
<1>1. /\ Granted(a)' = Granted(a) \cup Plus /\ Granted(a) \cap Plus = {}
      /\ Spent(a)' = Spent(a) \cup Minus /\ Spent(a) \cap Minus = {}
  BY DEF Granted, Spent
<1>2. \A e \in Entries(a)' : Amount'[e] = e.amount /\ Amount'[e] \in Nat
  <2>1. journal' \subseteq JournalRows BY DEF Cover, TypeOK
  <2>2. Entries(a)' \subseteq journal' BY DEF Entries
  <2> QED BY <2>1, <2>2, LedgerAssumption DEF Amount, JournalRows, Micros
<1>3. Plus \subseteq New /\ Minus \subseteq New OBVIOUS
<1> HIDE DEF Plus, Minus
<1>4. IsFiniteSet(Plus) /\ IsFiniteSet(Minus) BY <1>3, FS_Subset
<1>5. /\ IsFiniteSet(Granted(a)) /\ IsFiniteSet(Spent(a))
      /\ Granted(a) \subseteq Entries(a) /\ Spent(a) \subseteq Entries(a)
      /\ \A e \in Entries(a) : Amount[e] = e.amount
  BY EntriesAre
<1>6. \A e \in Granted(a) \cup Plus \cup Spent(a) \cup Minus : Amount'[e] = e.amount /\ Amount'[e] \in Int
  BY <1>2, <1>3, <1>5
<1>7. Sum(Plus, Amount') \in Nat /\ Sum(Minus, Amount') \in Nat
  BY <1>4, <1>6, SumType
<1>8. Sum(Granted(a)', Amount') = Sum(Granted(a), Amount') + Sum(Plus, Amount')
  BY <1>1, <1>4, <1>5, <1>6, SumUnion
<1>9. Sum(Spent(a)', Amount') = Sum(Spent(a), Amount') + Sum(Minus, Amount')
  BY <1>1, <1>4, <1>5, <1>6, SumUnion
<1>10. \A e \in Granted(a) \cup Spent(a) : Amount'[e] = Amount[e]
  BY <1>5, <1>6
<1>11. Sum(Granted(a), Amount') = Sum(Granted(a), Amount) /\ Sum(Spent(a), Amount') = Sum(Spent(a), Amount)
  BY <1>10, SumEqual
<1>12. Journalled(a)' = Sum(Granted(a)', Amount') - Sum(Spent(a)', Amount')
  BY DEF Journalled
<1>13. Journalled(a) = Sum(Granted(a), Amount) - Sum(Spent(a), Amount)
       /\ Sum(Granted(a), Amount) \in Nat /\ Sum(Spent(a), Amount) \in Nat
  BY JournalledIs DEF Journalled
<1>14. /\ Journalled(a)' \in Int
       /\ Journalled(a)' = Journalled(a) + Sum(Plus, Amount') - Sum(Minus, Amount')
  BY <1>7, <1>8, <1>9, <1>11, <1>12, <1>13
<1>15. \A e \in New : Amount'[e] = e.amount /\ Amount'[e] \in Nat
  BY <1>2
<1> QED BY <1>7, <1>14, <1>15 DEF Plus, Minus

(* Entries numbered on from the last are new. *)
LEMMA NumberedOnIsNew ==
  ASSUME Cover, NEW a \in Accounts, NEW New, Numbered(a), NEW k \in Nat,
         {e.seq : e \in New} = Cardinality(Entries(a)) + 1 .. Cardinality(Entries(a)) + k
  PROVE  New \cap Entries(a) = {}
<1> DEFINE n == Cardinality(Entries(a))
<1>1. n \in Nat BY EntriesAre
<1>2. \A e \in New : e.seq \in n + 1 .. n + k OBVIOUS
<1>3. \A e \in Entries(a) : e.seq \in 1 .. n BY DEF Numbered, Numbers
<1> HIDE DEF n
<1>4. \A e \in New, d \in Entries(a) : e.seq # d.seq BY <1>1, <1>2, <1>3
<1> QED BY <1>4

\* An account whose journal is in order.
InOrder(a) == Numbered(a) /\ Backed(a) /\ Solvent(a)

\* A step keeps the entries an account has, and the balances after them.
HistoryKept(a) ==
  /\ Numbers(a) \subseteq Numbers(a)'
  /\ \A s \in Numbers(a) : BalanceAfter(a, s)' = BalanceAfter(a, s)

(* An account that a step leaves alone. *)
LEMMA AccountStays ==
  ASSUME Cover, Cover', NEW a \in Accounts, InOrder(a), journal \subseteq journal',
         Entries(a)' = Entries(a), GrantsOf(a)' = GrantsOf(a),
         \A g \in GrantsOf(a) : grant'[g].remaining = grant[g].remaining
  PROVE  InOrder(a)' /\ HistoryKept(a)
<1>1. \A g \in GrantsOf(a) : Remaining'[g] = Remaining[g]
  BY GrantsOfFinite DEF Remaining
<1>2. Sum(GrantsOf(a), Remaining') = Sum(GrantsOf(a), Remaining)
  BY <1>1, SumEqual
<1>3. Backed(a)'
  <2>1. Journalled(a)' = Journalled(a) BY JournalStays
  <2> QED BY <1>2, <2>1 DEF InOrder, Backed
<1> QED BY <1>3, JournalStays DEF InOrder, HistoryKept

(* Entries that take no more than the grants of the account give. *)
LEMMA AccountSpends ==
  ASSUME Cover, Cover', NEW a \in Accounts, InOrder(a), NEW New, IsFiniteSet(New),
         journal \subseteq journal', Entries(a)' = Entries(a) \cup New,
         {e.seq : e \in New} = Cardinality(Entries(a)) + 1 .. Cardinality(Entries(a)) + Cardinality(New),
         \A e \in New : e.kind # "grant",
         GrantsOf(a)' = GrantsOf(a), NEW lost,
         \A g \in GrantsOf(a) : lost[g] \in Nat /\ grant[g].remaining = grant'[g].remaining + lost[g],
         Sum(New, Amount') <= Sum(GrantsOf(a), lost)
  PROVE  InOrder(a)' /\ HistoryKept(a)
<1>1. Numbered(a) /\ Solvent(a) /\ Backed(a) BY DEF InOrder
<1>2. Cardinality(New) \in Nat BY FS_CardinalityType
<1>3. New \cap Entries(a) = {} BY <1>1, <1>2, NumberedOnIsNew
<1>4. {e \in New : e.kind = "grant"} = {} /\ {e \in New : e.kind # "grant"} = New
  OBVIOUS
<1>5. /\ Sum(New, Amount') \in Nat /\ Journalled(a)' \in Int
      /\ Journalled(a)' = Journalled(a) + Sum({}, Amount') - Sum(New, Amount')
  BY <1>3, <1>4, JournalAdds
<1>6. Sum({}, Amount') = 0 BY SumEmpty
<1>7. \A g \in GrantsOf(a) : /\ Remaining[g] = grant[g].remaining /\ Remaining'[g] = grant'[g].remaining
                             /\ grant[g].remaining \in Nat /\ grant'[g].remaining \in Nat
  <2>1. \A g \in Grants : grant[g].remaining \in Nat /\ grant'[g].remaining \in Nat
    BY LedgerAssumption DEF Cover, TypeOK, GrantRows, Micros
  <2> QED BY <2>1, GrantsOfFinite DEF Remaining
<1> DEFINE G == GrantsOf(a)
           before == Remaining
           after == Remaining'
<1>8. Sum(G, before) = Sum(G, after) + Sum(G, lost) /\ Sum(G, after) \in Nat /\ Sum(G, lost) \in Nat
  <2>1. \A g \in G : after[g] \in Nat /\ lost[g] \in Nat /\ before[g] = after[g] + lost[g]
    BY <1>7
  <2>2. IsFiniteSet(G) BY GrantsOfFinite
  <2> HIDE DEF G, before, after
  <2>3. \A g \in G : after[g] \in Int /\ lost[g] \in Int BY <2>1
  <2>4. Sum(G, after) \in Nat /\ Sum(G, lost) \in Nat BY <2>2, <2>3, SumType
  <2>5. Sum(G, before) = Sum(G, after) + Sum(G, lost) BY <2>1, <2>2, SumAdd
  <2> QED BY <2>4, <2>5
<1>9. /\ Sum(GrantsOf(a), Remaining) = Sum(GrantsOf(a), Remaining') + Sum(GrantsOf(a), lost)
      /\ Sum(GrantsOf(a), Remaining') \in Nat /\ Sum(GrantsOf(a), lost) \in Nat
  BY <1>8
<1>10. Journalled(a) >= Sum(GrantsOf(a), Remaining) /\ Journalled(a) \in Int
       /\ Sum(GrantsOf(a), Remaining) \in Nat
  BY <1>1, JournalledIs DEF Backed
<1>11. Journalled(a)' >= Sum(GrantsOf(a), Remaining') /\ Journalled(a)' >= 0
  BY <1>5, <1>6, <1>8, <1>9, <1>10
<1>12. Backed(a)' BY <1>11 DEF Backed
<1> QED BY <1>1, <1>11, <1>12, JournalGrows DEF InOrder, HistoryKept

(* Entries of one account are entries of no other. *)
LEMMA EntriesOfOthers ==
  ASSUME NEW a, NEW New, \A e \in New : e.account = a, journal' = journal \cup New
  PROVE  /\ Entries(a)' = Entries(a) \cup New
         /\ \A b : b # a => Entries(b)' = Entries(b)
BY DEF Entries

(* A granted credit is journalled as it becomes part of the account. *)
LEMMA GrantCreditJournals ==
  ASSUME Books, Books', JournalInOrder, NEW a \in Accounts, NEW g \in Grants,
         NEW amount \in Micros \ {0}, NEW effective \in 0 .. MaxTime,
         NEW expires \in 1 .. Never, NEW t \in Later,
         GrantCredit(a, g, amount, effective, expires, t),
         NEW b \in Accounts
  PROVE  InOrder(b)' /\ HistoryKept(b)
<1>0. PICK e : e = Entry(a, NextSeq(a), "grant", amount, g)
  OBVIOUS
<1>1. /\ grant[g].status = "absent" /\ amount \in Nat
      /\ grant'[g].account = a /\ grant'[g].remaining = amount
      /\ \A k \in Grants \ {g} : grant'[k] = grant[k]
      /\ journal' = journal \cup {e}
  BY <1>0, GrantCreditMeans DEF Books
<1>2. e.account = a /\ e.seq = NextSeq(a) /\ e.kind = "grant" /\ e.amount = amount
  BY <1>0 DEF Entry
<1>3. grant[g].account = None BY <1>1 DEF Books, Lot
<1>4. None \notin Accounts BY LedgerAssumption
<1>5. Cover /\ Cover' BY DEF Books
<1>6. InOrder(a) /\ InOrder(b) BY DEF JournalInOrder, InOrder
<1>7. Entries(a)' = Entries(a) \cup {e} /\ \A c : c # a => Entries(c)' = Entries(c)
  <2> DEFINE New == {e}
  <2>1. \A d \in New : d.account = a BY <1>2
  <2>2. journal' = journal \cup New BY <1>1
  <2> HIDE DEF New
  <2>3. Entries(a)' = Entries(a) \cup New /\ \A c : c # a => Entries(c)' = Entries(c)
    BY <2>1, <2>2, EntriesOfOthers
  <2> QED BY <2>3 DEF New
<1>8. CASE b # a
  <2>1. \A k \in GrantsOf(b) : k # g BY <1>3, <1>4 DEF GrantsOf
  <2>2. GrantsOf(b)' = GrantsOf(b)
    BY <1>1, <1>3, <1>4, <1>8 DEF GrantsOf
  <2>3. \A k \in GrantsOf(b) : grant'[k].remaining = grant[k].remaining
    BY <1>1, <2>1 DEF GrantsOf
  <2>4. journal \subseteq journal' /\ Entries(b)' = Entries(b) BY <1>1, <1>7, <1>8
  <2> QED BY <1>5, <1>6, <2>2, <2>3, <2>4, AccountStays
<1>9. CASE b = a
  <2>1. GrantsOf(a)' = GrantsOf(a) \cup {g} /\ g \notin GrantsOf(a)
    BY <1>1, <1>3, <1>4 DEF GrantsOf
  <2>2. \A k \in GrantsOf(a) : Remaining[k] \in Nat /\ Remaining'[k] = Remaining[k]
    <3>1. \A k \in Grants : grant[k].remaining \in Nat BY <1>5, RowTypes DEF Cover
    <3>2. \A k \in GrantsOf(a) : k \in Grants \ {g} BY <2>1, GrantsOfFinite
    <3> QED BY <1>1, <3>1, <3>2 DEF Remaining
  <2>3. Remaining'[g] = amount BY <1>1 DEF Remaining
  <2> DEFINE G == GrantsOf(a)
             before == Remaining
             after == Remaining'
  <2>4. Sum(G \cup {g}, after) = Sum(G, before) + amount /\ Sum(G, before) \in Nat
    <3>1. IsFiniteSet(G) BY GrantsOfFinite
    <3>2. \A k \in G : before[k] \in Nat /\ after[k] = before[k] BY <2>2
    <3>3. after[g] = amount /\ g \notin G BY <2>1, <2>3
    <3> HIDE DEF G, before, after
    <3>4. \A k \in G : before[k] \in Int BY <3>2
    <3>5. Sum(G, before) \in Nat BY <3>1, <3>4, SumType
    <3>6. after[g] \in Nat BY <1>1, <3>3
    <3>7. Sum(G \cup {g}, after) = Sum(G, before) + after[g]
      BY <3>1, <3>2, <3>3, <3>6, SumInsert
    <3> QED BY <3>3, <3>5, <3>7
  <2>5. Sum(GrantsOf(a)', Remaining') = Sum(GrantsOf(a), Remaining) + amount
        /\ Sum(GrantsOf(a), Remaining) \in Nat
    BY <2>1, <2>4
  <2>6. NextSeq(a) = Cardinality(Entries(a)) + 1 /\ Cardinality(Entries(a)) \in Nat
    BY <1>5, <1>6, NextSeqIs, EntriesAre DEF InOrder
  <2>7. IsFiniteSet({e}) /\ Cardinality({e}) = 1 BY FS_Singleton
  <2>8. {d.seq : d \in {e}} = Cardinality(Entries(a)) + 1 .. Cardinality(Entries(a)) + 1
    <3>1. {d.seq : d \in {e}} = {e.seq} OBVIOUS
    <3>2. Cardinality(Entries(a)) + 1 .. Cardinality(Entries(a)) + 1 = {Cardinality(Entries(a)) + 1}
      <4> DEFINE n == Cardinality(Entries(a))
      <4>1. n \in Nat BY <2>6
      <4> HIDE DEF n
      <4>2. n + 1 .. n + 1 = {n + 1} BY <4>1
      <4> QED BY <4>2 DEF n
    <3> QED BY <1>2, <2>6, <3>1, <3>2
  <2>9. {e} \cap Entries(a) = {}
    BY <1>5, <1>6, <2>8, NumberedOnIsNew DEF InOrder
  <2>10. {d \in {e} : d.kind = "grant"} = {e} /\ {d \in {e} : d.kind # "grant"} = {}
    BY <1>2
  <2>11. /\ Journalled(a)' \in Int /\ Amount'[e] = amount
         /\ Journalled(a)' = Journalled(a) + Sum({e}, Amount') - Sum({}, Amount')
    <3>1. journal \subseteq journal' BY <1>1
    <3> DEFINE New == {e}
    <3>2. IsFiniteSet(New) /\ New \cap Entries(a) = {} /\ Entries(a)' = Entries(a) \cup New
      BY <1>7, <2>7, <2>9
    <3>3. {d \in New : d.kind = "grant"} = New /\ {d \in New : d.kind # "grant"} = {} /\ e \in New
      BY <2>10
    <3> HIDE DEF New
    <3>4. /\ Journalled(a)' \in Int /\ Amount'[e] = e.amount
          /\ Journalled(a)' = Journalled(a) + Sum(New, Amount') - Sum({}, Amount')
      BY <1>5, <3>1, <3>2, <3>3, JournalAdds
    <3> QED BY <1>2, <3>4 DEF New
  <2>12. Sum({e}, Amount') = amount /\ Sum({}, Amount') = 0
    BY <1>1, <2>11, SumSingleton, SumEmpty
  <2>13. Journalled(a) >= Sum(GrantsOf(a), Remaining) /\ Journalled(a) \in Int
    BY <1>5, <1>6, JournalledIs DEF InOrder, Backed
  <2>14. Journalled(a)' >= Sum(GrantsOf(a), Remaining)' /\ Journalled(a)' >= 0
    BY <1>1, <2>5, <2>11, <2>12, <2>13
  <2>15. Backed(a)' BY <2>14 DEF Backed
  <2>16. Numbered(a)' /\ Solvent(a)' /\ HistoryKept(a)
    <3>1. \A d \in {e} : d.kind = "grant" => d.seq = Cardinality(Entries(a)) + 1
      BY <1>2, <2>6
    <3>2. journal \subseteq journal' /\ Numbered(a) /\ Solvent(a) BY <1>1, <1>6 DEF InOrder
    <3> QED BY <1>5, <1>7, <2>7, <2>8, <2>14, <3>1, <3>2, JournalGrows DEF HistoryKept
  <2> QED BY <1>9, <2>15, <2>16 DEF InOrder
<1> QED BY <1>8, <1>9

(* A refresh journals what its grants lose, as far as the account had it. *)
LEMMA RefreshJournals ==
  ASSUME Books, Books', JournalInOrder, NEW a \in Accounts,
         grant' = RefreshedGrants(a, now), journal' = journal \cup RefreshEntries(a, now),
         NEW b \in Accounts
  PROVE  InOrder(b)' /\ HistoryKept(b)
<1> DEFINE New == RefreshEntries(a, now)
           lost == [g \in Grants |-> grant[g].remaining - grant'[g].remaining]
<1>1. Cover /\ Cover' /\ now \in Int
  BY LedgerAssumption DEF Books, Cover, TypeOK
<1>2. InOrder(a) /\ InOrder(b) BY DEF JournalInOrder, InOrder
<1>3. /\ IsFiniteSet(New)
      /\ {e.seq : e \in New} = Cardinality(Entries(a)) + 1 .. Cardinality(Entries(a)) + Cardinality(New)
      /\ \A e \in New : e.account = a /\ e.kind = "expiry"
  BY <1>1, <1>2, RefreshNumbers DEF InOrder
<1>4. /\ \A e \in New : /\ e.source \in Lapsing(a, now)
                        /\ e.amount = ExpiredAvailable[e.source] /\ e.amount > 0
      /\ \A d, e \in New : d.source = e.source => d = e
  BY RefreshEntriesAre
<1>5. \A g \in Grants : /\ grant'[g].account = grant[g].account
                        /\ g \in Lapsing(a, now) => grant'[g].remaining = Reserved(g)
                        /\ g \notin Lapsing(a, now) => grant'[g].remaining = grant[g].remaining
  BY <1>1, RefreshedIs
<1>6. \A g \in Grants : /\ grant[g].remaining \in Nat /\ Reserved(g) \in Nat
                        /\ Free(g) = grant[g].remaining - Reserved(g) /\ Free(g) \in Nat
  BY <1>1, FreeNat
<1>7. Lapsing(a, now) \subseteq GrantsOf(a) /\ GrantsOf(a) \subseteq Grants
  BY DEF Lapsing, GrantsOf
<1>8. \A g \in Grants : /\ lost[g] \in Nat
                        /\ grant[g].remaining = grant'[g].remaining + lost[g]
                        /\ g \in Lapsing(a, now) => ExpiredAvailable[g] <= lost[g]
  <2> TAKE g \in Grants
  <2>1. lost[g] = grant[g].remaining - grant'[g].remaining OBVIOUS
  <2>2. ExpiredAvailable[g] = Free(g) \/ ExpiredAvailable[g] = 0 BY DEF ExpiredAvailable
  <2> HIDE DEF lost
  <2> QED BY <1>5, <1>6, <2>1, <2>2
<1>9. journal \subseteq journal' /\ Entries(a)' = Entries(a) \cup New
      /\ \A c : c # a => Entries(c)' = Entries(c)
  BY <1>3, EntriesOfOthers
<1>10. \A c : GrantsOf(c)' = GrantsOf(c)
  BY <1>5 DEF GrantsOf
<1> HIDE DEF New, lost
<1>11. CASE b # a
  <2>1. \A g \in GrantsOf(b) : grant'[g].remaining = grant[g].remaining
    BY <1>5, <1>7, <1>11 DEF GrantsOf
  <2>2. journal \subseteq journal' /\ Entries(b)' = Entries(b) /\ GrantsOf(b)' = GrantsOf(b)
    BY <1>9, <1>10, <1>11
  <2> QED BY <1>1, <1>2, <2>1, <2>2, AccountStays
<1>12. CASE b = a
  <2> DEFINE m == [e \in New |-> e.source]
             worth == Amount'
  <2>1. \A e \in New : worth[e] = e.amount /\ worth[e] \in Nat
    <3>1. journal' \subseteq JournalRows BY <1>1 DEF Cover, TypeOK
    <3>2. New \subseteq journal' BY <1>9 DEF Entries
    <3> QED BY <3>1, <3>2, LedgerAssumption DEF Amount, JournalRows, Micros
  <2>2. \A e \in New : m[e] \in GrantsOf(a) /\ worth[e] <= lost[m[e]]
    <3> TAKE e \in New
    <3>1. m[e] = e.source OBVIOUS
    <3>2. e.source \in Lapsing(a, now) /\ e.amount = ExpiredAvailable[e.source] BY <1>4
    <3>3. e.source \in GrantsOf(a) /\ ExpiredAvailable[e.source] <= lost[e.source]
      BY <1>7, <1>8, <3>2
    <3> HIDE DEF m, worth
    <3> QED BY <2>1, <3>1, <3>2, <3>3
  <2>3. \A d, e \in New : m[d] = m[e] => d = e BY <1>4
  <2>4. \A g \in GrantsOf(a) : lost[g] \in Nat /\ grant[g].remaining = grant'[g].remaining + lost[g]
    BY <1>7, <1>8
  <2>5. Sum(New, worth) <= Sum(GrantsOf(a), lost)
    <3>1. \A e \in New : worth[e] \in Int BY <2>1
    <3>2. \A g \in GrantsOf(a) : lost[g] \in Int BY <2>4
    <3>3. IsFiniteSet(GrantsOf(a)) BY GrantsOfFinite
    <3> HIDE DEF m, worth
    <3> QED BY <1>3, <2>2, <2>3, <3>1, <3>2, <3>3, SumInjected
  <2>6. \A e \in New : e.kind # "grant" BY <1>3
  <2> QED BY <1>1, <1>2, <1>3, <1>9, <1>10, <1>12, <2>4, <2>5, <2>6, AccountSpends
<1> QED BY <1>11, <1>12

(* A finished hold journals what it used of its grants, in one debit. *)
LEMMA FinishJournals ==
  ASSUME Books, Books', JournalInOrder, NEW h \in Holds, NEW actual \in Micros,
         NEW terminal \in {"captured", "released"}, NEW source \in Sources,
         Finish(h, actual, terminal, source), journal' = journal \cup DebitEntries(h, actual, source),
         NEW b \in Accounts
  PROVE  InOrder(b)' /\ HistoryKept(b)
<1> DEFINE used == Used(h, actual)
<1>0. PICK a, New, e : /\ a = hold[h].account /\ New = DebitEntries(h, actual, source)
                       /\ e = Entry(a, NextSeq(a), "debit", actual, source)
  OBVIOUS
<1>1. Cover /\ Cover' BY DEF Books
<1>2. InOrder(b) /\ \A c \in Accounts : InOrder(c) BY DEF JournalInOrder, InOrder
<1>3. /\ hold[h].status = "active" /\ a \in Accounts /\ actual \in Nat
      /\ \A g \in Grants : /\ used[g] \in Nat
                           /\ g \notin AllocationsOf(h) => used[g] = 0
                           /\ grant'[g].remaining = grant[g].remaining - used[g]
                           /\ grant'[g].account = grant[g].account
      /\ Sum(AllocationsOf(h), used) = actual
  BY <1>0, <1>1, FinishMeans
<1>4. AllocationsOf(h) \in SUBSET GrantsOf(a)
  BY <1>0, <1>3 DEF Books, Booked, AllocationsOf, GrantsOf
<1>5. New = (IF actual = 0 THEN {} ELSE {e}) /\ e.account = a /\ e.seq = NextSeq(a)
      /\ e.kind = "debit" /\ e.amount = actual
  BY <1>0 DEF DebitEntries, Entry
<1> HIDE DEF used
<1>6. \A d \in New : d.account = a /\ d.kind # "grant"
  BY <1>5
<1>7. /\ journal \subseteq journal' /\ Entries(a)' = Entries(a) \cup New
      /\ \A c : c # a => Entries(c)' = Entries(c)
  <2>1. journal' = journal \cup New BY <1>0
  <2> QED BY <1>6, <2>1, EntriesOfOthers
<1>8. \A c : GrantsOf(c)' = GrantsOf(c)
  BY <1>3 DEF GrantsOf
<1>9. \A g \in Grants : grant[g].remaining \in Nat /\ grant'[g].remaining \in Nat
  BY LedgerAssumption, <1>1 DEF Cover, TypeOK, GrantRows, Micros
<1>10. CASE b # a
  <2>1. \A g \in GrantsOf(b) : g \in Grants /\ g \notin AllocationsOf(h)
    BY <1>4, <1>10 DEF GrantsOf
  <2>2. \A g \in GrantsOf(b) : grant'[g].remaining = grant[g].remaining
    BY <1>3, <1>9, <2>1
  <2>3. Entries(b)' = Entries(b) /\ GrantsOf(b)' = GrantsOf(b) BY <1>7, <1>8, <1>10
  <2> QED BY <1>1, <1>2, <1>7, <2>2, <2>3, AccountStays
<1>11. CASE b = a
  <2>1. \A g \in GrantsOf(a) : used[g] \in Nat /\ grant[g].remaining = grant'[g].remaining + used[g]
    <3>1. GrantsOf(a) \subseteq Grants BY DEF GrantsOf
    <3> QED BY <1>3, <1>9, <3>1
  <2>2. Sum(GrantsOf(a), used) = actual
    <3>1. \A g \in GrantsOf(a) \ AllocationsOf(h) : used[g] = 0
      BY <1>3, GrantsOfFinite
    <3>2. \A g \in GrantsOf(a) : used[g] \in Nat BY <2>1
    <3>3. IsFiniteSet(GrantsOf(a)) BY GrantsOfFinite
    <3> QED BY <1>3, <1>4, <3>1, <3>2, <3>3, SumWithoutZeros
  <2>3. NextSeq(a) = Cardinality(Entries(a)) + 1 /\ Cardinality(Entries(a)) \in Nat
    BY <1>1, <1>2, <1>3, NextSeqIs, EntriesAre DEF InOrder
  <2>4. CASE actual = 0
    <3>1. New = {} BY <1>5, <2>4
    <3>2. Entries(a)' = Entries(a) BY <1>7, <3>1
    <3>3. \A g \in GrantsOf(a) : used[g] = 0
      <4>1. \A g \in GrantsOf(a) : used[g] <= Sum(GrantsOf(a), used)
        BY <2>1, GrantsOfFinite, SumBoundsRow
      <4> QED BY <2>1, <2>2, <2>4, <4>1
    <3>4. \A g \in GrantsOf(a) : grant'[g].remaining = grant[g].remaining
      <4> TAKE g \in GrantsOf(a)
      <4>1. grant[g].remaining \in Nat /\ grant'[g].remaining \in Nat BY <1>9, GrantsOfFinite
      <4> QED BY <2>1, <3>3, <4>1
    <3> QED BY <1>1, <1>2, <1>3, <1>7, <1>8, <1>11, <3>2, <3>4, AccountStays
  <2>5. CASE actual # 0
    <3>1. New = {e} BY <1>5, <2>5
    <3>2. IsFiniteSet(New) /\ Cardinality(New) = 1 BY <3>1, FS_Singleton
    <3>3. {d.seq : d \in New} = Cardinality(Entries(a)) + 1 .. Cardinality(Entries(a)) + Cardinality(New)
      <4>1. {d.seq : d \in New} = {Cardinality(Entries(a)) + 1} BY <1>5, <2>3, <3>1
      <4> DEFINE n == Cardinality(Entries(a))
      <4>2. n \in Nat BY <2>3
      <4> HIDE DEF n
      <4>3. n + 1 .. n + 1 = {n + 1} BY <4>2
      <4> QED BY <3>2, <4>1, <4>3 DEF n
    <3>4. Sum(New, Amount') <= Sum(GrantsOf(a), used)
      <4>1. e \in journal' BY <1>7, <3>1 DEF Entries
      <4>2. Amount'[e] = actual BY <1>5, <4>1 DEF Amount
      <4>3. Sum(New, Amount') = actual BY <1>3, <3>1, <4>2, SumSingleton
      <4> QED BY <1>3, <2>2, <4>3
    <3> QED BY <1>1, <1>2, <1>3, <1>6, <1>7, <1>8, <1>11, <2>1, <3>2, <3>3, <3>4, AccountSpends
  <2> QED BY <2>4, <2>5
<1> QED BY <1>10, <1>11

(* A step that changes neither the grants nor the journal. *)
LEMMA QuietJournals ==
  ASSUME Books, Books', JournalInOrder, grant' = grant, journal' = journal, NEW b \in Accounts
  PROVE  InOrder(b)' /\ HistoryKept(b)
<1>1. Cover /\ Cover' /\ InOrder(b) BY DEF Books, JournalInOrder, InOrder
<1>2. /\ journal \subseteq journal' /\ Entries(b)' = Entries(b) /\ GrantsOf(b)' = GrantsOf(b)
      /\ \A g \in GrantsOf(b) : grant'[g].remaining = grant[g].remaining
  BY DEF Entries, GrantsOf
<1> QED BY <1>1, <1>2, AccountStays

(* Every step of the ledger keeps every journal in order, and its history. *)
LEMMA LedgerKeepsJournals ==
  ASSUME Books, Books', JournalInOrder, [Next]_vars
  PROVE  JournalInOrder' /\ \A b \in Accounts : HistoryKept(b)
<1>1. SUFFICES ASSUME NEW b \in Accounts PROVE InOrder(b)' /\ HistoryKept(b)
  BY DEF JournalInOrder, InOrder
<1>2. ASSUME NEW a \in Accounts, OpenMyAccount(a) \/ DisableAccount(a)
      PROVE  InOrder(b)' /\ HistoryKept(b)
  BY <1>2, QuietJournals DEF OpenMyAccount, DisableAccount
<1>3. ASSUME NEW a \in Accounts, RefreshGrantWindows(a)
      PROVE  InOrder(b)' /\ HistoryKept(b)
  BY <1>3, RefreshJournals DEF RefreshGrantWindows
<1>4. ASSUME NEW a \in Accounts, NEW g \in Grants, NEW amount \in Micros \ {0},
             NEW effective \in 0 .. MaxTime, NEW expires \in 1 .. Never, NEW t \in Later,
             GrantCredit(a, g, amount, effective, expires, t)
      PROVE  InOrder(b)' /\ HistoryKept(b)
  BY <1>4, GrantCreditJournals
<1>5. ASSUME NEW a \in Accounts, NEW h \in Holds, NEW requested \in Micros \ {0},
             NEW t \in Later, Reserve(a, h, requested, t)
      PROVE  InOrder(b)' /\ HistoryKept(b)
  <2>1. grant' = RefreshedGrants(a, now) /\ journal' = journal \cup RefreshEntries(a, now)
    BY <1>5 DEF Reserve
  <2> QED BY <2>1, RefreshJournals
<1>6. ASSUME NEW h \in Holds, NEW source \in Sources, NEW actual \in Micros,
             Capture(h, actual, source)
      PROVE  InOrder(b)' /\ HistoryKept(b)
  <2>1. Finish(h, actual, "captured", source)
          /\ journal' = journal \cup DebitEntries(h, actual, source)
    BY <1>6 DEF Capture
  <2> QED BY <2>1, FinishJournals
<1>7. ASSUME NEW h \in Holds, NEW source \in Sources, Release(h, source)
      PROVE  InOrder(b)' /\ HistoryKept(b)
  <2>1. Finish(h, 0, "released", source) /\ journal' = journal /\ 0 \in Micros
    BY <1>7, LedgerAssumption DEF Release, Micros
  <2>2. journal' = journal \cup DebitEntries(h, 0, source) BY <2>1 DEF DebitEntries
  <2> QED BY <2>1, <2>2, FinishJournals
<1>8. CASE Tick \/ UNCHANGED vars
  BY <1>8, QuietJournals DEF Tick, vars
<1> QED BY <1>2, <1>3, <1>4, <1>5, <1>6, <1>7, <1>8 DEF Next

(***************************************************************************)
(* A page over the entries 1 .. m that a cursor has left: the last of them *)
(* first, and the cursor that leads on from it.                            *)
(***************************************************************************)
LEMMA RowsAre ==
  ASSUME NEW a \in Accounts, NEW c, NEW m \in Nat,
         {s \in Numbers(a) : s <= Ceiling(a, c) /\ s < BeforeSequence(a, c)} = 1 .. m
  PROVE  /\ Rows(a, c) \in Seq(Nat)
         /\ Len(Rows(a, c)) = IF PageLimit + 1 <= m THEN PageLimit + 1 ELSE m
         /\ \A i \in 1 .. Len(Rows(a, c)) : Rows(a, c)[i] = m + 1 - i
<1> DEFINE older == {s \in Numbers(a) : s <= Ceiling(a, c) /\ s < BeforeSequence(a, c)}
           k == Min({PageLimit + 1, Cardinality(older)})
           row(i) == CHOOSE s \in older : Cardinality({t \in older : t > s}) = i - 1
           rows == [i \in 1 .. k |-> row(i)]
<1>1. Rows(a, c) = rows BY DEF Rows
<1>2. older = 1 .. m OBVIOUS
<1> HIDE DEF older
<1>3. Cardinality(older) = m
  <2>1. Cardinality(1 .. m) = IF 1 > m THEN 0 ELSE m - 1 + 1 BY FS_Interval
  <2> QED BY <1>2, <2>1
<1>4. k = IF PageLimit + 1 <= m THEN PageLimit + 1 ELSE m
  BY <1>3, MinIs, ReadsAssumption
<1>5. k \in Nat /\ k <= m BY <1>4, ReadsAssumption
<1> HIDE DEF k
<1>6. ASSUME NEW s \in 1 .. m PROVE Cardinality({t \in older : t > s}) = m - s
  <2>1. {t \in older : t > s} = s + 1 .. m BY <1>2
  <2>2. Cardinality(s + 1 .. m) = IF s + 1 > m THEN 0 ELSE m - (s + 1) + 1 BY FS_Interval
  <2>3. (IF s + 1 > m THEN 0 ELSE m - (s + 1) + 1) = m - s OBVIOUS
  <2> QED BY <2>1, <2>2, <2>3, Zenon
<1>7. ASSUME NEW i \in 1 .. k PROVE row(i) = m + 1 - i
  <2> DEFINE P(s) == Cardinality({t \in older : t > s}) = i - 1
  <2>1. m + 1 - i \in 1 .. m BY <1>5
  <2>2. P(m + 1 - i)
    <3>1. Cardinality({t \in older : t > m + 1 - i}) = m - (m + 1 - i) BY <1>6, <2>1
    <3> QED BY <2>1, <3>1
  <2>3. \A s \in older : P(s) => s = m + 1 - i
    <3> TAKE s \in older
    <3>1. Cardinality({t \in older : t > s}) = m - s /\ s \in Int BY <1>2, <1>6
    <3> HAVE P(s)
    <3>2. m - s = i - 1 BY <3>1
    <3> QED BY <3>1, <3>2
  <2>4. row(i) = CHOOSE s \in older : P(s) OBVIOUS
  <2>5. m + 1 - i \in older BY <1>2, <2>1
  <2> HIDE DEF P, row
  <2> QED BY <2>2, <2>3, <2>4, <2>5
<1> HIDE DEF row
<1>8. \A i \in 1 .. k : rows[i] = m + 1 - i BY <1>7
<1>9. rows \in [1 .. k -> Nat]
  <2>1. \A i \in 1 .. k : row(i) \in Nat BY <1>5, <1>7
  <2> QED BY <2>1
<1> HIDE DEF rows
<1>10. rows \in Seq(Nat) /\ Len(rows) = k BY <1>5, <1>9
<1> QED BY <1>1, <1>4, <1>8, <1>10

(* The items of that page, and its cursor. *)
LEMMA PageIs ==
  ASSUME Cover, NEW a \in Accounts, NEW c, NEW m \in Nat, 1 .. m \subseteq Numbers(a),
         {s \in Numbers(a) : s <= Ceiling(a, c) /\ s < BeforeSequence(a, c)} = 1 .. m
  PROVE  /\ PageItems(a, c) \in Seq(Items)
         /\ Len(PageItems(a, c)) = IF PageLimit <= m THEN PageLimit ELSE m
         /\ \A i \in 1 .. Len(PageItems(a, c)) :
              /\ PageItems(a, c)[i].seq = m + 1 - i
              /\ PageItems(a, c)[i].balance = BalanceAfter(a, m + 1 - i)
         /\ m <= PageLimit => NextCursor(a, c) = None
         /\ m > PageLimit =>
              NextCursor(a, c) = [subject |-> a, account |-> a, high |-> Ceiling(a, c),
                                  last |-> m + 1 - PageLimit]
<1> DEFINE rows == Rows(a, c)
           p == Min({PageLimit, Len(rows)})
           item(i) == [seq |-> rows[i], balance |-> BalanceAfter(a, rows[i])]
           items == [i \in 1 .. p |-> item(i)]
<1>1. /\ rows \in Seq(Nat)
      /\ Len(rows) = IF PageLimit + 1 <= m THEN PageLimit + 1 ELSE m
      /\ \A i \in 1 .. Len(rows) : rows[i] = m + 1 - i
  BY RowsAre
<1>2. PageItems(a, c) = items BY DEF PageItems
<1>3. NextCursor(a, c) = IF Len(rows) <= PageLimit THEN None
                         ELSE [subject |-> a, account |-> a, high |-> Ceiling(a, c), last |-> rows[PageLimit]]
  BY DEF NextCursor
<1> HIDE DEF rows
<1>4. PageLimit \in Nat /\ PageLimit >= 1 BY ReadsAssumption
<1>5. Len(rows) \in Nat BY <1>1, <1>4
<1>6. p = IF PageLimit <= m THEN PageLimit ELSE m
  <2>1. p = IF PageLimit <= Len(rows) THEN PageLimit ELSE Len(rows) BY <1>4, <1>5, MinIs
  <2> HIDE DEF p
  <2> QED BY <1>1, <1>4, <2>1
<1> HIDE DEF p
<1>7. p \in Nat /\ \A i \in 1 .. p : i \in 1 .. Len(rows) /\ m + 1 - i \in 1 .. m
  BY <1>1, <1>4, <1>6
<1>8. \A i \in 1 .. p : item(i) = [seq |-> m + 1 - i, balance |-> BalanceAfter(a, m + 1 - i)]
  <2> TAKE i \in 1 .. p
  <2>1. rows[i] = m + 1 - i BY <1>1, <1>7
  <2> QED BY <2>1
<1> HIDE DEF item
<1>9. \A i \in 1 .. p : item(i) \in Items
  <2> TAKE i \in 1 .. p
  <2>1. BalanceAfter(a, m + 1 - i) \in Int BY BalanceIs
  <2>2. m + 1 - i \in Nat \ {0} BY <1>7
  <2> QED BY <1>8, <2>1, <2>2 DEF Items
<1>10. items \in [1 .. p -> Items] /\ \A i \in 1 .. p : items[i] = item(i)
  BY <1>9
<1> HIDE DEF items
<1>11. items \in Seq(Items) /\ Len(items) = p BY <1>7, <1>10
<1>12. \A i \in 1 .. p : items[i].seq = m + 1 - i /\ items[i].balance = BalanceAfter(a, m + 1 - i)
  BY <1>8, <1>10
<1>13. m <= PageLimit => NextCursor(a, c) = None
  BY <1>1, <1>3, <1>4
<1>14. ASSUME m > PageLimit
       PROVE  NextCursor(a, c) = [subject |-> a, account |-> a, high |-> Ceiling(a, c), last |-> m + 1 - PageLimit]
  <2>1. PageLimit + 1 <= m BY <1>4, <1>14
  <2>2. Len(rows) = PageLimit + 1 BY <1>1, <2>1
  <2>3. ~(Len(rows) <= PageLimit) /\ PageLimit \in 1 .. Len(rows) BY <1>4, <2>2
  <2>4. rows[PageLimit] = m + 1 - PageLimit BY <1>1, <2>3
  <2> QED BY <1>3, <2>3, <2>4
<1> QED BY <1>2, <1>6, <1>11, <1>12, <1>13, <1>14

(* The first page begins a listing. *)
LEMMA FirstPageLists ==
  ASSUME Cover, NEW a \in Accounts, Numbered(a), Entries(a) # {}
  PROVE  ListingIs(a, PageItems(a, None), NextCursor(a, None))
<1> DEFINE n == Cardinality(Entries(a))
           items == PageItems(a, None)
           c == NextCursor(a, None)
<1>1. n \in Nat /\ n # 0
  <2>1. IsFiniteSet(Entries(a)) /\ n \in Nat BY EntriesAre
  <2> QED BY <2>1, FS_EmptySet
<1>2. Numbers(a) = 1 .. n BY DEF Numbered
<1> HIDE DEF n
<1>3. Ceiling(a, None) = n
  <2>1. 1 .. n \in SUBSET Nat /\ n \in 1 .. n /\ \A k \in 1 .. n : k <= n BY <1>1
  <2> QED BY <1>2, <2>1, MaxIs DEF Ceiling
<1>4. BeforeSequence(a, None) = n + 1 BY <1>3 DEF BeforeSequence
<1>5. {s \in Numbers(a) : s <= Ceiling(a, None) /\ s < BeforeSequence(a, None)} = 1 .. n
  BY <1>1, <1>2, <1>3, <1>4
<1>6. /\ items \in Seq(Items)
      /\ Len(items) = IF PageLimit <= n THEN PageLimit ELSE n
      /\ \A i \in 1 .. Len(items) : /\ items[i].seq = n + 1 - i
                                    /\ items[i].balance = BalanceAfter(a, n + 1 - i)
      /\ n <= PageLimit => c = None
      /\ n > PageLimit => c = [subject |-> a, account |-> a, high |-> n, last |-> n + 1 - PageLimit]
  BY <1>1, <1>2, <1>3, <1>5, PageIs
<1> HIDE DEF items, c
<1>7. PageLimit \in Nat /\ PageLimit >= 1 BY ReadsAssumption
<1>8. Len(items) \in Nat /\ Len(items) >= 1 /\ Len(items) <= n /\ items # <<>>
  BY <1>1, <1>6, <1>7
<1>9. First(items) = n
  <2>1. 1 \in 1 .. Len(items) BY <1>8
  <2>2. items[1].seq = n + 1 - 1 BY <1>6, <2>1
  <2> QED BY <1>1, <1>8, <2>2 DEF First
<1>10. ASSUME NEW i \in 1 .. Len(items)
       PROVE  /\ items[i].seq \in Numbers(a) /\ items[i].seq = First(items) + 1 - i
              /\ items[i].balance = BalanceAfter(a, items[i].seq)
  <2>1. items[i].seq = n + 1 - i /\ items[i].balance = BalanceAfter(a, n + 1 - i) BY <1>6
  <2>2. n + 1 - i \in 1 .. n BY <1>1, <1>8
  <2> QED BY <1>2, <1>9, <2>1, <2>2
<1>11. CASE n <= PageLimit
  <2>1. c = None /\ Len(items) = n BY <1>1, <1>6, <1>7, <1>11
  <2> QED BY <1>6, <1>9, <1>10, <2>1 DEF ListingIs, items, c
<1>12. CASE n > PageLimit
  <2>1. /\ c = [subject |-> a, account |-> a, high |-> n, last |-> n + 1 - PageLimit]
        /\ Len(items) = PageLimit
    BY <1>1, <1>6, <1>7, <1>12
  <2>2. n \in Numbers(a) /\ n + 1 - PageLimit \in Numbers(a) /\ n + 1 - PageLimit <= n
    BY <1>1, <1>2, <1>7, <1>12
  <2>3. c \in [subject : {a}, account : {a}, high : Numbers(a), last : Numbers(a)]
    BY <2>1, <2>2
  <2>4. c # None
    <3>1. c \in Cursors
      <4>1. Numbers(a) \subseteq Nat BY <1>1, <1>2
      <4> QED BY <2>3, <4>1 DEF Cursors
    <3> QED BY <3>1, ReadsAssumption
  <2>5. c.high = First(items) /\ c.last = First(items) + 1 - Len(items) /\ c.last <= c.high
    BY <1>9, <2>1, <2>2
  <2> QED BY <1>6, <1>10, <2>3, <2>4, <2>5 DEF ListingIs, items, c
<1> QED BY <1>1, <1>7, <1>11, <1>12 DEF items, c

(* One sequence after another. *)
LEMMA ConcatenationIs ==
  ASSUME NEW S, NEW p \in Seq(S), NEW q \in Seq(S)
  PROVE  /\ p \o q \in Seq(S) /\ Len(p \o q) = Len(p) + Len(q)
         /\ \A i \in 1 .. Len(p) : (p \o q)[i] = p[i]
         /\ \A i \in Len(p) + 1 .. Len(p) + Len(q) : (p \o q)[i] = q[i - Len(p)]
OBVIOUS

(* Every further page goes on where the page before it ended. *)
LEMMA NextPageLists ==
  ASSUME Cover, NEW a \in Accounts, Numbered(a), NEW old, NEW c, c # None, ListingIs(a, old, c)
  PROVE  ListingIs(a, old \o PageItems(a, c), NextCursor(a, c))
<1> DEFINE n == Cardinality(Entries(a))
           page == PageItems(a, c)
           items == old \o page
           d == NextCursor(a, c)
           l == Len(old)
           f == First(old)
           m == c.last - 1
<1>1. n \in Nat BY EntriesAre
<1>2. Numbers(a) = 1 .. n BY DEF Numbered
<1> HIDE DEF n
<1>3. /\ old \in Seq(Items) /\ l \in Nat
      /\ \A i \in 1 .. l : /\ old[i].seq \in Numbers(a) /\ old[i].seq = f + 1 - i
                           /\ old[i].balance = BalanceAfter(a, old[i].seq)
      /\ c.high \in 1 .. n /\ c.last \in 1 .. n
      /\ c.high = f /\ c.last = f + 1 - l /\ c.last <= c.high
  BY <1>2 DEF ListingIs
<1>4. f \in Nat /\ l >= 1 /\ f <= n /\ m \in Nat /\ m = f - l /\ m <= n
  BY <1>1, <1>3
<1>5. old # <<>> BY <1>3, <1>4
<1>6. Ceiling(a, c) = f /\ BeforeSequence(a, c) = c.last
  BY <1>3 DEF Ceiling, BeforeSequence
<1>7. {s \in Numbers(a) : s <= Ceiling(a, c) /\ s < BeforeSequence(a, c)} = 1 .. m
  <2>1. \A s \in 1 .. n : (s <= f /\ s < c.last) <=> s \in 1 .. m BY <1>1, <1>3, <1>4
  <2>2. \A s \in 1 .. m : s \in 1 .. n BY <1>1, <1>4
  <2> QED BY <1>2, <1>6, <2>1, <2>2
<1> HIDE DEF f, l, m
<1>8. 1 .. m \subseteq Numbers(a) BY <1>1, <1>2, <1>4
<1>9. /\ page \in Seq(Items)
      /\ Len(page) = IF PageLimit <= m THEN PageLimit ELSE m
      /\ \A i \in 1 .. Len(page) : /\ page[i].seq = m + 1 - i
                                   /\ page[i].balance = BalanceAfter(a, m + 1 - i)
      /\ m <= PageLimit => d = None
      /\ m > PageLimit => d = [subject |-> a, account |-> a, high |-> f, last |-> m + 1 - PageLimit]
  <2>1. {s \in Numbers(a) : s <= Ceiling(a, c) /\ s < BeforeSequence(a, c)} = 1 .. m /\ m \in Nat
    BY <1>4, <1>7
  <2>2. /\ PageItems(a, c) \in Seq(Items)
        /\ Len(PageItems(a, c)) = IF PageLimit <= m THEN PageLimit ELSE m
        /\ \A i \in 1 .. Len(PageItems(a, c)) :
             /\ PageItems(a, c)[i].seq = m + 1 - i
             /\ PageItems(a, c)[i].balance = BalanceAfter(a, m + 1 - i)
    BY <1>8, <2>1, PageIs
  <2>3. /\ m <= PageLimit => d = None
        /\ m > PageLimit => d = [subject |-> a, account |-> a, high |-> Ceiling(a, c),
                                 last |-> m + 1 - PageLimit]
    BY <1>8, <2>1, PageIs
  <2> QED BY <1>6, <2>2, <2>3
<1> HIDE DEF page, d
<1>10. PageLimit \in Nat /\ PageLimit >= 1 BY ReadsAssumption
<1>11. Len(page) \in Nat /\ Len(page) <= m BY <1>4, <1>9, <1>10
<1>12. /\ items \in Seq(Items) /\ Len(items) = l + Len(page)
       /\ \A i \in 1 .. l : items[i] = old[i]
       /\ \A i \in l + 1 .. l + Len(page) : items[i] = page[i - l]
  BY <1>3, <1>9, ConcatenationIs DEF l
<1> HIDE DEF items
<1>13. First(items) = f
  <2>1. 1 \in 1 .. l /\ Len(items) >= 1 BY <1>3, <1>4, <1>11, <1>12
  <2>2. items # <<>> BY <1>12, <2>1
  <2>3. items[1] = old[1] BY <1>12, <2>1
  <2> QED BY <1>5, <2>2, <2>3 DEF First, f
<1>14. ASSUME NEW i \in 1 .. Len(items)
       PROVE  /\ items[i].seq \in Numbers(a) /\ items[i].seq = f + 1 - i
              /\ items[i].balance = BalanceAfter(a, items[i].seq)
  <2>1. CASE i \in 1 .. l BY <1>3, <1>12, <2>1
  <2>2. CASE i \notin 1 .. l
    <3>1. i \in l + 1 .. l + Len(page) /\ i - l \in 1 .. Len(page)
      BY <1>3, <1>11, <1>12, <2>2
    <3>2. items[i].seq = m + 1 - (i - l) /\ items[i].balance = BalanceAfter(a, m + 1 - (i - l))
      BY <1>9, <1>12, <3>1
    <3>3. m + 1 - (i - l) = f + 1 - i /\ m + 1 - (i - l) \in 1 .. m
      BY <1>3, <1>4, <1>11, <3>1
    <3> QED BY <1>8, <3>2, <3>3
  <2> QED BY <2>1, <2>2
<1>15. CASE m <= PageLimit
  <2>1. d = None /\ Len(items) = f BY <1>3, <1>4, <1>9, <1>10, <1>12, <1>15
  <2> QED BY <1>12, <1>13, <1>14, <2>1 DEF ListingIs, items, d, page
<1>16. CASE m > PageLimit
  <2>1. /\ d = [subject |-> a, account |-> a, high |-> f, last |-> m + 1 - PageLimit]
        /\ Len(items) = l + PageLimit
    BY <1>4, <1>9, <1>10, <1>12, <1>16
  <2>2. f \in Numbers(a) /\ m + 1 - PageLimit \in Numbers(a) /\ m + 1 - PageLimit <= f
        /\ m + 1 - PageLimit = f + 1 - (l + PageLimit)
    BY <1>1, <1>2, <1>3, <1>4, <1>10, <1>16
  <2>3. d \in [subject : {a}, account : {a}, high : Numbers(a), last : Numbers(a)]
    BY <2>1, <2>2
  <2>4. d # None
    <3>1. d \in Cursors
      <4>1. Numbers(a) \subseteq Nat BY <1>1, <1>2
      <4> QED BY <2>3, <4>1 DEF Cursors
    <3> QED BY <3>1, ReadsAssumption
  <2>5. d.high = f /\ d.last = f + 1 - Len(items) /\ d.last <= d.high
    BY <2>1, <2>2
  <2> QED BY <1>12, <1>13, <1>14, <2>3, <2>4, <2>5 DEF ListingIs, items, d, page
<1> QED BY <1>4, <1>10, <1>15, <1>16

(* A listing that a step does not touch, of a journal whose history it keeps. *)
LEMMA ListingStays ==
  ASSUME NEW a \in Accounts, Listing(a), HistoryKept(a), read'[a] = read[a], cursor'[a] = cursor[a]
  PROVE  Listing(a)'
<1> DEFINE items == read[a]
           c == cursor[a]
<1>1. ListingIs(a, items, c) BY DEF Listing
<1>2. Numbers(a) \subseteq Numbers(a)' /\ \A s \in Numbers(a) : BalanceAfter(a, s)' = BalanceAfter(a, s)
  BY DEF HistoryKept
<1>3. PICK k, d : k = items /\ d = c OBVIOUS
<1>4. ListingIs(a, k, d) BY <1>1, <1>3
<1>5. ASSUME NEW i \in 1 .. Len(k)
      PROVE  k[i].seq \in Numbers(a)' /\ k[i].balance = BalanceAfter(a, k[i].seq)'
  BY <1>2, <1>4 DEF ListingIs
<1>6. ListingIs(a, k, d)'
  BY <1>2, <1>4, <1>5 DEF ListingIs
<1>7. k = read'[a] /\ d = cursor'[a] BY <1>3
<1> QED BY <1>6, <1>7 DEF Listing

(* A page that is read puts one listing on, and no other. *)
LEMMA ListingGoesOn ==
  ASSUME ListingsInOrder, UNCHANGED vars, NEW a \in Accounts, NEW items, NEW c, ListingIs(a, items, c),
         read' = [read EXCEPT ![a] = items], cursor' = [cursor EXCEPT ![a] = c]
  PROVE  ListingsInOrder'
<1>1. /\ read = [b \in Accounts |-> read[b]] /\ cursor = [b \in Accounts |-> cursor[b]]
      /\ \A b \in Accounts : Listing(b)
  BY DEF ListingsInOrder
<1>2. /\ read' = [b \in Accounts |-> IF b = a THEN items ELSE read[b]]
      /\ cursor' = [b \in Accounts |-> IF b = a THEN c ELSE cursor[b]]
  BY <1>1, Zenon
<1>3. \A b \in Accounts : HistoryKept(b)
  BY DEF HistoryKept, Numbers, BalanceAfter, Entries, Amount, vars
<1>4. ListingIs(a, items, c)'
  BY DEF ListingIs, Numbers, BalanceAfter, Entries, Amount, vars
<1>5. ASSUME NEW b \in Accounts PROVE Listing(b)'
  <2>1. CASE b = a
    <3>1. read'[a] = items /\ cursor'[a] = c BY <1>2
    <3> QED BY <1>4, <2>1, <3>1 DEF Listing
  <2>2. CASE b # a
    <3>1. read'[b] = read[b] /\ cursor'[b] = cursor[b] BY <1>2, <2>2
    <3> QED BY <1>1, <1>3, <3>1, ListingStays
  <2> QED BY <2>1, <2>2
<1>6. read' = [b \in Accounts |-> read'[b]] /\ cursor' = [b \in Accounts |-> cursor'[b]]
  BY <1>2
<1> QED BY <1>5, <1>6 DEF ListingsInOrder

(* Both kinds of page keep the listings in order. *)
LEMMA FirstPageKeeps ==
  ASSUME Cover, JournalInOrder, ListingsInOrder, NEW a \in Accounts, FirstPage(a)
  PROVE  ListingsInOrder'
<1>1. PICK items, c : /\ items = IF Entries(a) = {} THEN <<>> ELSE PageItems(a, None)
                      /\ c = IF Entries(a) = {} THEN None ELSE NextCursor(a, None)
  OBVIOUS
<1>2. read' = [read EXCEPT ![a] = items] /\ cursor' = [cursor EXCEPT ![a] = c] /\ UNCHANGED vars
  BY <1>1, Zenon DEF FirstPage
<1>3. ListingIs(a, items, c)
  <2>1. CASE Entries(a) = {}
    <3>1. items = <<>> /\ c = None BY <1>1, <2>1
    <3> QED BY <3>1 DEF ListingIs, First
  <2>2. CASE Entries(a) # {}
    <3>1. items = PageItems(a, None) /\ c = NextCursor(a, None) BY <1>1, <2>2
    <3>2. Numbered(a) BY DEF JournalInOrder
    <3> QED BY <2>2, <3>1, <3>2, FirstPageLists
  <2> QED BY <2>1, <2>2
<1> QED BY <1>2, <1>3, ListingGoesOn

(* A further page, of the listing whose cursor is presented. *)
LEMMA NextPageKeeps ==
  ASSUME Cover, JournalInOrder, ListingsInOrder, NEW a \in Accounts, NEW b \in Accounts,
         NextPage(a, cursor[b])
  PROVE  ListingsInOrder'
<1>1. cursor[b] # None /\ cursor[b].subject = a
  BY DEF NextPage, Decodes
<1>2. ListingIs(b, read[b], cursor[b]) /\ ListingIs(a, read[a], cursor[a])
  BY DEF ListingsInOrder, Listing
<1>3. cursor[b].subject = b
  <2>1. cursor[b] \in [subject : {b}, account : {b}, high : Numbers(b), last : Numbers(b)]
    BY <1>1, <1>2 DEF ListingIs
  <2> QED BY <2>1
<1>4. a = b BY <1>1, <1>3
<1>5. PICK items, c : items = read[a] \o PageItems(a, cursor[a]) /\ c = NextCursor(a, cursor[a])
  OBVIOUS
<1>6. read' = [read EXCEPT ![a] = items] /\ cursor' = [cursor EXCEPT ![a] = c] /\ UNCHANGED vars
  BY <1>4, <1>5, Zenon DEF NextPage
<1>7. ListingIs(a, items, c)
  <2>1. Numbered(a) BY DEF JournalInOrder
  <2> QED BY <1>1, <1>2, <1>4, <1>5, <2>1, NextPageLists
<1> QED BY <1>6, <1>7, ListingGoesOn

(* The empty journal is in order, and there is no listing yet. *)
LEMMA ReadsInitInv ==
  ASSUME ReadsInit
  PROVE  JournalInOrder /\ ListingsInOrder
<1>1. Cover /\ Books BY InitCover, InitBooks DEF ReadsInit
<1>2. journal = {} /\ grant = [g \in Grants |-> NoGrant] BY DEF ReadsInit, Init
<1>3. ASSUME NEW a \in Accounts PROVE Numbered(a) /\ Backed(a) /\ Solvent(a)
  <2>1. Entries(a) = {} BY <1>2 DEF Entries
  <2>2. Numbers(a) = {} BY <2>1 DEF Numbers
  <2>3. Numbered(a)
    <3>1. Cardinality(Entries(a)) = 0 BY <2>1, FS_EmptySet
    <3>2. 1 .. 0 = {} OBVIOUS
    <3> QED BY <2>2, <3>1, <3>2 DEF Numbered
  <2>4. Granted(a) = {} /\ Spent(a) = {} BY <2>1 DEF Granted, Spent
  <2>5. Journalled(a) = 0
    <3>1. Sum({}, Amount) = 0 BY SumEmpty
    <3> QED BY <2>4, <3>1 DEF Journalled
  <2>6. GrantsOf(a) = {}
    BY <1>2, LedgerAssumption DEF GrantsOf, NoGrant
  <2>7. Sum(GrantsOf(a), Remaining) = 0 BY <2>6, SumEmpty
  <2> QED BY <2>2, <2>3, <2>5, <2>7 DEF Backed, Solvent
<1>4. ListingsInOrder
  <2>1. read = [a \in Accounts |-> <<>>] /\ cursor = [a \in Accounts |-> None]
    BY DEF ReadsInit
  <2>2. ASSUME NEW a \in Accounts PROVE Listing(a)
    <3>1. read[a] = <<>> /\ cursor[a] = None BY <2>1
    <3> QED BY <3>1 DEF Listing, ListingIs, First
  <2>3. read = [a \in Accounts |-> read[a]] /\ cursor = [a \in Accounts |-> cursor[a]] BY <2>1
  <2> QED BY <2>2, <2>3 DEF ListingsInOrder
<1> QED BY <1>3, <1>4 DEF JournalInOrder

(***************************************************************************)
(* With readers, the ledger does what it does without them.                *)
(***************************************************************************)
THEOREM ReadersChangeNothing == ReadsSpec => Spec
<1>1. ReadsInit => Init BY DEF ReadsInit
<1>2. [ReadsNext]_<<vars, readVars>> => [Next]_vars
  BY DEF ReadsNext, FirstPage, NextPage
<1> QED BY <1>1, <1>2, PTL DEF ReadsSpec, Spec

(***************************************************************************)
(* Every journal is numbered from 1 without a gap, covers what its grants  *)
(* still have, and never shows a negative balance; every listing is a part *)
(* of it from the top, and its cursor stands where the listing ended.      *)
(***************************************************************************)
THEOREM ReadsInvariant == ReadsSpec => [](Cover /\ JournalInOrder /\ ListingsInOrder)
<1>1. ReadsInit => JournalInOrder /\ ListingsInOrder
  BY ReadsInitInv
<1>2. ASSUME Books, Books', JournalInOrder, ListingsInOrder, [ReadsNext]_<<vars, readVars>>
      PROVE  JournalInOrder' /\ ListingsInOrder'
  <2>0. Cover BY <1>2 DEF Books
  <2>1. [Next]_vars BY <1>2 DEF ReadsNext, FirstPage, NextPage
  <2>2. JournalInOrder' /\ \A b \in Accounts : HistoryKept(b)
    BY <1>2, <2>1, LedgerKeepsJournals
  <2>3. ListingsInOrder'
    <3>1. CASE UNCHANGED readVars
      <4>1. read' = read /\ cursor' = cursor BY <3>1 DEF readVars
      <4>2. \A b \in Accounts : Listing(b)'
        BY <1>2, <2>2, <4>1, ListingStays DEF ListingsInOrder
      <4> QED BY <1>2, <4>1, <4>2 DEF ListingsInOrder
    <3>2. ASSUME NEW a \in Accounts, FirstPage(a) PROVE ListingsInOrder'
      BY <1>2, <2>0, <3>2, FirstPageKeeps
    <3>3. ASSUME NEW a \in Accounts, NEW b \in Accounts, NextPage(a, cursor[b])
          PROVE  ListingsInOrder'
      BY <1>2, <2>0, <3>3, NextPageKeeps
    <3> QED BY <1>2, <3>1, <3>2, <3>3 DEF ReadsNext
  <2> QED BY <2>2, <2>3
<1>3. Books => Cover BY DEF Books
<1> QED BY <1>1, <1>2, <1>3, ReadersChangeNothing, BooksInvariant, PTL DEF ReadsSpec

(***************************************************************************)
(* CreditReads: the pages of a listing, read at any distance while the     *)
(* ledger moves, are one snapshot of the history, and always lead on.      *)
(***************************************************************************)
THEOREM PagesAlwaysAreTheHistory == ReadsSpec => []PagesAreTheHistory
<1>1. Cover /\ JournalInOrder /\ ListingsInOrder => PagesAreTheHistory
  <2> SUFFICES ASSUME Cover, JournalInOrder, ListingsInOrder, NEW a \in Accounts
               PROVE  LET items == read[a]
                          c == cursor[a]
                          first == IF items = <<>> THEN 0 ELSE items[1].seq
                      IN  /\ Numbers(a) = 1 .. Cardinality(Entries(a))
                          /\ \A i \in DOMAIN items : /\ items[i].seq = first + 1 - i
                                                     /\ items[i].balance = BalanceAfter(a, items[i].seq)
                          /\ IF c = None THEN Len(items) = first
                             ELSE /\ c.high = first /\ c.last = first + 1 - Len(items)
                                  /\ Decodes(c, a) /\ Accepted(a, c) /\ ~HistoryCorrupt(a, c.high)
    BY DEF PagesAreTheHistory
  <2> DEFINE items == read[a]
             c == cursor[a]
  <2>1. Numbered(a) /\ Solvent(a) BY DEF JournalInOrder
  <2>2. ListingIs(a, items, c) BY DEF ListingsInOrder, Listing
  <2>3. First(items) = IF items = <<>> THEN 0 ELSE items[1].seq BY DEF First
  <2> HIDE DEF items, c
  <2>4. DOMAIN items = 1 .. Len(items)
    <3>1. items \in Seq(Items) BY <2>2 DEF ListingIs
    <3> QED BY <3>1
  <2>5. \A i \in DOMAIN items : /\ items[i].seq = First(items) + 1 - i
                                /\ items[i].balance = BalanceAfter(a, items[i].seq)
    BY <2>2, <2>4 DEF ListingIs
  <2>6. CASE c = None
    <3>1. Len(items) = First(items) BY <2>2, <2>6 DEF ListingIs
    <3> QED BY <2>1, <2>3, <2>5, <2>6, <3>1 DEF Numbered, items, c
  <2>7. CASE c # None
    <3>1. /\ c \in [subject : {a}, account : {a}, high : Numbers(a), last : Numbers(a)]
          /\ c.high = First(items) /\ c.last = First(items) + 1 - Len(items)
          /\ c.last <= c.high
      BY <2>2, <2>7 DEF ListingIs
    <3>2. Decodes(c, a) /\ Accepted(a, c) BY <3>1 DEF Decodes, Accepted
    <3>3. ~HistoryCorrupt(a, c.high)
      <4>1. \A e \in Entries(a) : BalanceAfter(a, e.seq) >= 0 /\ BalanceAfter(a, e.seq) \in Int
        BY <2>1, BalanceIs DEF Solvent, Numbers
      <4>2. \A e \in Entries(a) : ~(BalanceAfter(a, e.seq) < 0) BY <4>1
      <4> QED BY <4>2 DEF HistoryCorrupt
    <3> QED BY <2>1, <2>3, <2>5, <2>7, <3>1, <3>2, <3>3 DEF Numbered, items, c
  <2> QED BY <2>6, <2>7
<1> QED BY <1>1, ReadsInvariant, PTL

===============================================================================
