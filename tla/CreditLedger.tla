----------------------------- MODULE CreditLedger -----------------------------
(***************************************************************************)
(* The credit ledger of one tenant: accounts, grants, holds with their     *)
(* allocations, and the journal, as src/modules/credit/credit.repository.ts *)
(* changes them.                                                           *)
(*                                                                         *)
(* Every action is one committed database transaction. All of them lock    *)
(* the account row (grant and openMyAccount through the subject's advisory *)
(* lock first) and keep it to the end, so the transactions of one account  *)
(* run one after the other; what a transaction reads before that lock is   *)
(* either immutable (a hold's account) or guarded by a unique index. A call *)
(* that is refused, or that replays an earlier result, rolls back or writes *)
(* nothing and is not a step.                                              *)
(*                                                                         *)
(* The clock is read more than once in a transaction, and it moves between *)
(* the reads: grant reads the application's clock twice, reserve reads the *)
(* database's clock once to refresh the grant windows and again in the     *)
(* query that chooses grants.                                              *)
(***************************************************************************)
EXTENDS Integers, FiniteSets, FiniteSetsExt, CreditAmounts

CONSTANTS
  Accounts,    \* accounts, one per subject
  Grants,      \* grants, identified by their source; numbered in the order
               \* (burn_priority, issued_at, id) in which they burn
  Holds,       \* holds, identified by their idempotency key
  Sources,     \* source references a capture or a release can name
  MaxMicros,   \* bound on the amount of one grant and of one hold
  MaxTime,     \* bound on the clock
  TxSpan,      \* how far the clock can move between two reads of a transaction
  AppSkew,     \* application clock minus database clock
  None         \* no account, no source

ASSUME LedgerAssumption ==
  /\ Grants \subseteq Nat /\ IsFiniteSet(Grants)
  /\ IsFiniteSet(Holds)
  /\ MaxMicros \in Nat /\ MaxTime \in Nat /\ TxSpan \in Nat /\ AppSkew \in Int
  /\ None \notin Accounts \cup Sources

VARIABLES
  now,         \* the database clock
  account,     \* billing_credit_account
  grant,       \* billing_credit_grant
  hold,        \* billing_credit_hold
  allocation,  \* billing_credit_hold_allocation; a missing row is a row of zeros
  journal,     \* billing_credit_journal
  early        \* auxiliary: grants added to their account while still pending

vars == <<now, account, grant, hold, allocation, journal, early>>

Never == MaxTime + 1           \* expires_at IS NULL

Micros == 0 .. MaxMicros

NoAccount    == [status |-> "absent", available |-> 0, held |-> 0]
NoGrant      == [status |-> "absent", account |-> None, original |-> 0,
                 remaining |-> 0, effective |-> 0, expires |-> Never]
NoHold       == [status |-> "absent", account |-> None, requested |-> 0,
                 captured |-> 0, released |-> 0, source |-> None]
NoAllocation == [held |-> 0, captured |-> 0, released |-> 0]

AccountRows    == [status : {"absent", "active", "disabled"}, available : Nat, held : Nat]
GrantRows      == [status : {"absent", "pending", "active", "expired"},
                   account : Accounts \cup {None},
                   original : Micros, remaining : Micros,
                   effective : 0 .. MaxTime, expires : 0 .. Never]
HoldRows       == [status : {"absent", "active", "captured", "released"},
                   account : Accounts \cup {None},
                   requested : Micros, captured : Micros, released : Micros,
                   source : Sources \cup {None}]
AllocationRows == [held : Micros, captured : Micros, released : Micros]
JournalRows    == [account : Accounts, seq : Nat \ {0},
                   kind : {"grant", "debit", "expiry"},
                   amount : Micros \ {0}, source : Grants \cup Sources]

TypeOK ==
  /\ now \in 0 .. MaxTime
  /\ account \in [Accounts -> AccountRows]
  /\ grant \in [Grants -> GrantRows]
  /\ hold \in [Holds -> HoldRows]
  /\ allocation \in [Holds -> [Grants -> AllocationRows]]
  /\ journal \subseteq JournalRows
  /\ early \subseteq Grants

Init ==
  /\ now = 0
  /\ account = [a \in Accounts |-> NoAccount]
  /\ grant = [g \in Grants |-> NoGrant]
  /\ hold = [h \in Holds |-> NoHold]
  /\ allocation = [h \in Holds |-> [g \in Grants |-> NoAllocation]]
  /\ journal = {}
  /\ early = {}

-------------------------------------------------------------------------------
(***************************************************************************)
(* What the queries compute.                                               *)
(***************************************************************************)
ActiveHolds == {h \in Holds : hold[h].status = "active"}

Open(h, g) == allocation[h][g].held - allocation[h][g].captured
                                    - allocation[h][g].released

\* What active holds still reserve of grant g.
Reserved(g) == Sum(ActiveHolds, [h \in Holds |-> Open(h, g)])

Free(g) == grant[g].remaining - Reserved(g)

GrantsOf(a) == {g \in Grants : grant[g].account = a}

\* "ORDER BY expires_at NULLS LAST, burn_priority, issued_at, id"
BurnsBefore == [g \in Grants |->
  {k \in Grants : \/ grant[k].expires < grant[g].expires
                  \/ grant[k].expires = grant[g].expires /\ k < g}]

Entries(a) == {e \in journal : e.account = a}

\* MAX(journal_seq) + 1
NextSeq(a) == 1 + Max({0} \cup {e.seq : e \in Entries(a)})

\* The journal keeps debits and expiries as negative amounts; here the kind tells.
Entry(a, seq, kind, amount, source) ==
  [account |-> a, seq |-> seq, kind |-> kind, amount |-> amount, source |-> source]

\* The unique index on (tenant_id, source_kind, source_ref, entry_kind).
Unwritten(kind, source) == \A e \in journal : ~(e.kind = kind /\ e.source = source)

InWindow(g, t) == grant[g].effective <= t /\ t < grant[g].expires

-------------------------------------------------------------------------------
(***************************************************************************)
(* refreshGrantWindows at database time t: pending grants whose window is  *)
(* open become active and available; grants past their window expire, all  *)
(* but what active holds reserve of them leaving the account.              *)
(***************************************************************************)
Opening(a, t) == {g \in GrantsOf(a) : grant[g].status = "pending" /\ InWindow(g, t)}

Lapsing(a, t) == {g \in GrantsOf(a) : /\ grant[g].status \in {"active", "pending"}
                                      /\ grant[g].expires <= t}

Remaining == [g \in Grants |-> grant[g].remaining]

\* Mutant: a grant that was never active is taken out of the account as well.
ExpiredWhilePending == [g \in Grants |-> Free(g)]

ExpiredAvailable ==
  [g \in Grants |-> IF grant[g].status = "active" THEN Free(g) ELSE 0]

\* Mutant: an expired grant keeps nothing for the holds that reserve it.
RefreshedToZero(a, t) ==
  [g \in Grants |->
     IF g \in Opening(a, t) THEN [grant[g] EXCEPT !.status = "active"]
     ELSE IF g \in Lapsing(a, t)
          THEN [grant[g] EXCEPT !.status = "expired", !.remaining = 0]
          ELSE grant[g]]

RefreshedGrants(a, t) ==
  [g \in Grants |->
     IF g \in Opening(a, t) THEN [grant[g] EXCEPT !.status = "active"]
     ELSE IF g \in Lapsing(a, t)
          THEN [grant[g] EXCEPT !.status = "expired", !.remaining = Reserved(g)]
          ELSE grant[g]]

RefreshDelta(a, t) == Sum(Opening(a, t), Remaining) - Sum(Lapsing(a, t), ExpiredAvailable)

\* Mutant: the journal is told the remainder instead of what left the account.
RefreshEntriesOfRemaining(a, t) ==
  LET written == {g \in Lapsing(a, t) : ExpiredAvailable[g] > 0}
  IN  {Entry(a, NextSeq(a) + Cardinality({k \in written : k < g}),
             "expiry", grant[g].remaining, g) : g \in written}

RefreshEntries(a, t) ==
  LET written == {g \in Lapsing(a, t) : ExpiredAvailable[g] > 0}
  IN  {Entry(a, NextSeq(a) + Cardinality({k \in written : k < g}),
             "expiry", ExpiredAvailable[g], g) : g \in written}

\* Neither a CHECK of the account row nor the journal's unique index refuses it.
RefreshCommits(a, t) ==
  /\ account[a].available + RefreshDelta(a, t) >= 0
  /\ \A g \in Lapsing(a, t) : ExpiredAvailable[g] > 0 => Unwritten("expiry", g)
-------------------------------------------------------------------------------
(***************************************************************************)
(* The operations. The clock moves by at most TxSpan in one of them.       *)
(***************************************************************************)
Later == {t \in now .. now + TxSpan : t <= MaxTime}

OpenMyAccount(a) ==
  /\ account[a].status = "absent"
  /\ account' = [account EXCEPT ![a].status = "active"]
  /\ UNCHANGED <<now, grant, hold, allocation, journal, early>>

(***************************************************************************)
(* grant: the status of the new row and the increment of the account are   *)
(* decided by two separate readings of the clock. An account that does not *)
(* exist is created.                                                       *)
(***************************************************************************)
GrantCredit(a, g, amount, effective, expires, t) ==
  LET active == effective <= now + AppSkew
      counted == effective <= t + AppSkew
  IN  /\ account[a].status # "disabled"
      /\ grant[g].status = "absent"
      /\ effective < expires
      /\ Unwritten("grant", g)
      /\ grant' = [grant EXCEPT ![g] =
                     [status |-> IF active THEN "active" ELSE "pending",
                      account |-> a, original |-> amount, remaining |-> amount,
                      effective |-> effective, expires |-> expires]]
      /\ account' = [account EXCEPT
                       ![a].status = "active",
                       ![a].available = @ + (IF counted THEN amount ELSE 0)]
      /\ early' = early \cup (IF counted /\ ~active THEN {g} ELSE {})
      /\ journal' = journal \cup {Entry(a, NextSeq(a), "grant", amount, g)}
      /\ now' = t
      /\ UNCHANGED <<hold, allocation>>

RefreshGrantWindows(a) ==
  /\ account[a].status # "absent"
  /\ RefreshCommits(a, now)
  /\ grant' = RefreshedGrants(a, now)
  /\ account' = [account EXCEPT ![a].available = @ + RefreshDelta(a, now)]
  /\ journal' = journal \cup RefreshEntries(a, now)
  /\ UNCHANGED <<now, hold, allocation, early>>

(***************************************************************************)
(* reserve: refresh the windows now, then spread the request over the      *)
(* grants that the later clock reading t still finds inside their window.  *)
(***************************************************************************)
\* Mutant: the status decides alone, the window is not looked at again.
EligibleByStatus(a, t) ==
  {g \in GrantsOf(a) : RefreshedGrants(a, now)[g].status = "active"}

Eligible(a, t) ==
  {g \in GrantsOf(a) : RefreshedGrants(a, now)[g].status = "active" /\ InWindow(g, t)}

\* Mutant: what other holds reserve of a grant is not subtracted.
AllocatableUnreserved(a) ==
  [g \in Grants |-> RefreshedGrants(a, now)[g].remaining]

Allocatable(a) ==
  [g \in Grants |-> RefreshedGrants(a, now)[g].remaining - Reserved(g)]

Reserve(a, h, requested, t) ==
  LET available == account[a].available + RefreshDelta(a, now)
      share == Greedy(Eligible(a, t), BurnsBefore, Allocatable(a), requested)
  IN  /\ hold[h].status = "absent"
      /\ account[a].status = "active"
      /\ RefreshCommits(a, now)
      /\ available >= requested
      /\ Sum(Eligible(a, t), share) = requested
      /\ grant' = RefreshedGrants(a, now)
      /\ journal' = journal \cup RefreshEntries(a, now)
      /\ hold' = [hold EXCEPT ![h] = [NoHold EXCEPT !.status = "active",
                                       !.account = a, !.requested = requested]]
      /\ allocation' = [allocation EXCEPT ![h] =
                          [g \in Grants |-> [NoAllocation EXCEPT !.held = share[g]]]]
      /\ account' = [account EXCEPT ![a].available = available - requested,
                                    ![a].held = @ + requested]
      /\ now' = t
      /\ UNCHANGED early

(***************************************************************************)
(* The integrity checks of #finishHold, #assertTerminalHold and            *)
(* #assertTerminalAllocations; a hold that fails one is reported corrupt   *)
(* and can never be captured or released.                                  *)
(***************************************************************************)
HoldIntact(h) ==
  IF hold[h].status = "active"
  THEN hold[h].source = None /\ hold[h].captured = 0 /\ hold[h].released = 0
  ELSE /\ hold[h].source # None
       /\ hold[h].captured + hold[h].released = hold[h].requested
       /\ hold[h].status # "captured" => hold[h].captured = 0

AllocationIntact(h, g) ==
  LET row == allocation[h][g]
  IN  /\ grant[g].account = hold[h].account
      /\ grant[g].remaining <= grant[g].original
      /\ IF hold[h].status = "active"
         THEN row.captured = 0 /\ row.released = 0 /\ grant[g].remaining >= row.held
         ELSE row.captured + row.released = row.held

AllocationsOf(h) == {g \in Grants : allocation[h][g].held > 0}

Total(h, field) == Sum(AllocationsOf(h), [g \in Grants |-> allocation[h][g][field]])

FinishIntact(h) ==
  /\ HoldIntact(h)
  /\ \A g \in AllocationsOf(h) : AllocationIntact(h, g)
  /\ Total(h, "held") = hold[h].requested
  /\ Total(h, "captured") = hold[h].captured
  /\ Total(h, "released") = hold[h].released

(***************************************************************************)
(* #finishHold of an active hold: actual micros are consumed, grant by     *)
(* grant in burn order, the rest returns to the account.                   *)
(***************************************************************************)
\* Mutant: a hold that is already finished is not told apart.
FinishableAgain(h, actual) ==
  /\ hold[h].status # "absent"
  /\ FinishIntact(h)
  /\ actual <= hold[h].requested
  /\ account[hold[h].account].held >= hold[h].requested

Finishable(h, actual) ==
  /\ hold[h].status = "active"
  /\ FinishIntact(h)
  /\ actual <= hold[h].requested
  /\ account[hold[h].account].held >= hold[h].requested

FinishedAccount(h, actual) ==
  [account EXCEPT ![hold[h].account].held = @ - hold[h].requested,
                  ![hold[h].account].available = @ + (hold[h].requested - actual)]

Finish(h, actual, terminal, source) ==
  LET held == [g \in Grants |-> allocation[h][g].held]
      used == Greedy(AllocationsOf(h), BurnsBefore, held, actual)
  IN  /\ Finishable(h, actual)
      /\ Sum(AllocationsOf(h), used) = actual
      /\ \A g \in AllocationsOf(h) : grant[g].remaining >= used[g]
      /\ hold' = [hold EXCEPT ![h].status = terminal, ![h].source = source,
                              ![h].captured = actual,
                              ![h].released = hold[h].requested - actual]
      /\ allocation' = [allocation EXCEPT ![h] =
                          [g \in Grants |-> [held |-> held[g], captured |-> used[g],
                                             released |-> held[g] - used[g]]]]
      /\ grant' = [g \in Grants |-> [grant[g] EXCEPT !.remaining = @ - used[g]]]
      /\ account' = FinishedAccount(h, actual)
      /\ UNCHANGED <<now, early>>

DebitEntries(h, actual, source) ==
  IF actual = 0 THEN {}
  ELSE {Entry(hold[h].account, NextSeq(hold[h].account), "debit", actual, source)}

Capture(h, actual, source) ==
  /\ Finish(h, actual, "captured", source)
  /\ \A k \in Holds : ~(hold[k].status = "captured" /\ hold[k].source = source)
  /\ actual > 0 => Unwritten("debit", source)
  /\ journal' = journal \cup DebitEntries(h, actual, source)

Release(h, source) ==
  /\ Finish(h, 0, "released", source)
  /\ UNCHANGED journal

\* Nothing under src/ disables an account; its operators do, in the database.
DisableAccount(a) ==
  /\ account[a].status = "active"
  /\ account' = [account EXCEPT ![a].status = "disabled"]
  /\ UNCHANGED <<now, grant, hold, allocation, journal, early>>

Tick ==
  /\ now < MaxTime
  /\ now' = now + 1
  /\ UNCHANGED <<account, grant, hold, allocation, journal, early>>

Next ==
  \/ \E a \in Accounts :
       \/ OpenMyAccount(a)
       \/ DisableAccount(a)
       \/ RefreshGrantWindows(a)
       \/ \E g \in Grants, amount \in Micros \ {0}, effective \in 0 .. MaxTime,
             expires \in 1 .. Never, t \in Later :
               GrantCredit(a, g, amount, effective, expires, t)
       \/ \E h \in Holds, requested \in Micros \ {0}, t \in Later :
               Reserve(a, h, requested, t)
  \/ \E h \in Holds, source \in Sources :
       \/ \E actual \in Micros : Capture(h, actual, source)
       \/ Release(h, source)
  \/ Tick

Spec == Init /\ [][Next]_vars
-------------------------------------------------------------------------------
(***************************************************************************)
(* What the ledger promises.                                               *)
(***************************************************************************)

HoldsOf(a) == {h \in ActiveHolds : hold[h].account = a}

Requested == [h \in Holds |-> hold[h].requested]

(***************************************************************************)
(* Money held is money in active holds: an account's held_micros is what   *)
(* its active holds requested. reserve and finishHold keep it by           *)
(* increments and decrements only.                                         *)
(***************************************************************************)
HeldIsActiveHolds ==
  \A a \in Accounts : account[a].held = Sum(HoldsOf(a), Requested)

(***************************************************************************)
(* No grant is promised twice: what active holds reserve of a grant is     *)
(* covered by what remains of it, also after it expired under a hold.      *)
(***************************************************************************)
GrantsCoverHolds ==
  \A g \in Grants : Reserved(g) <= grant[g].remaining /\ grant[g].remaining <= grant[g].original

(***************************************************************************)
(* What reserve requested is in the grants and in the account, together.   *)
(***************************************************************************)
HoldsAreBacked == HeldIsActiveHolds /\ GrantsCoverHolds

(***************************************************************************)
(* The ledger never locks itself: no hold, in whatever order of refreshes, *)
(* expiries and other captures, reaches a state that #finishHold reports   *)
(* as CREDIT_HOLD_TERMINAL_CORRUPT instead of finishing or replaying it,   *)
(* and refreshGrantWindows, which reserve depends on, is never refused by  *)
(* the CHECK on available_micros or by the journal's unique index.         *)
(***************************************************************************)
NeverCorrupt ==
  /\ \A h \in Holds : hold[h].status # "absent" =>
       /\ FinishIntact(h)
       /\ hold[h].status = "active" => account[hold[h].account].held >= hold[h].requested
  /\ \A a \in Accounts, t \in now .. MaxTime : RefreshCommits(a, t)

(***************************************************************************)
(* The projection is exact: available_micros is what is free in the grants *)
(* that are not pending, plus exactly the grants that the two clock        *)
(* readings of grant let in before their window opened.                    *)
(***************************************************************************)
AvailableIsFreeCredit ==
  \A a \in Accounts :
    account[a].available =
      Sum({g \in GrantsOf(a) : grant[g].status # "pending"}, [g \in Grants |-> Free(g)])
      + Sum(GrantsOf(a) \cap early, [g \in Grants |-> grant[g].original])

Captured(g) == Sum(Holds, [h \in Holds |-> allocation[h][g].captured])

Expired(g) == {e \in journal : e.kind = "expiry" /\ e.source = g}

\* Where the micros of grant g are: in the grant, captured, or journalled as expired.
Traced(g) == grant[g].remaining + Captured(g)
             + Sum(Expired(g), [e \in journal |-> e.amount])

(***************************************************************************)
(* No micro of a grant is lost or made: what remains of it, what holds     *)
(* captured of it and what was journalled as expired add up to what was    *)
(* granted, and stay so. The only step that may lose any is the expiry of  *)
(* a grant whose window closed before a refresh ever saw it open.          *)
(***************************************************************************)
LotConserved ==
  [][\A g \in Grants :
       /\ grant[g].status = "absent" => Traced(g)' = grant'[g].original
       /\ grant[g].status \in {"active", "expired"} => Traced(g)' = Traced(g)
       /\ grant[g].status = "pending" /\ grant'[g].status # "expired"
            => Traced(g)' = Traced(g)]_vars

(***************************************************************************)
(* Usage is charged once: the debits of the journal are the captured holds *)
(* of a positive amount, one for one, by account, source and amount.       *)
(***************************************************************************)
DebitsAreCaptures ==
  LET charged == {h \in Holds : hold[h].status = "captured" /\ hold[h].captured > 0}
      debits == {e \in journal : e.kind = "debit"}
  IN  /\ Cardinality(debits) = Cardinality(charged)
      /\ \A h \in charged : \E e \in debits :
            e.account = hold[h].account /\ e.source = hold[h].source
                                        /\ e.amount = hold[h].captured

(***************************************************************************)
(* A finished hold is finished: whatever runs later, its row and its       *)
(* allocations never change, so a replay returns the first result.         *)
(***************************************************************************)
TerminalIsFinal ==
  [][\A h \in Holds : hold[h].status \in {"captured", "released"} =>
       hold'[h] = hold[h] /\ allocation'[h] = allocation[h]]_vars

(***************************************************************************)
(* A reservation only takes credit whose window is open when it is taken,  *)
(* and takes from a grant only when nothing is left of the grants that     *)
(* burn before it.                                                         *)
(***************************************************************************)
ReservesOpenCreditInOrder ==
  [][\A h \in Holds, g \in Grants :
       (hold[h].status = "absent" /\ allocation'[h][g].held > 0) =>
         /\ InWindow(g, now')
         /\ \A k \in GrantsOf(grant[g].account) \cap BurnsBefore[g] :
              grant'[k].status = "active" /\ InWindow(k, now') => Free(k)' = 0]_vars

-------------------------------------------------------------------------------
(***************************************************************************)
(* What the repository says of a ledger, and the code does not keep.       *)
(***************************************************************************)

(***************************************************************************)
(* "account projection vs grant remaining": the account never shows more   *)
(* credit than its grants still have. (docs/RELIABILITY.md, section 7)     *)
(***************************************************************************)
ProjectionWithinGrants ==
  \A a \in Accounts :
    account[a].available + account[a].held <= Sum(GrantsOf(a), Remaining)

(***************************************************************************)
(* "expires active grant availability before another reservation": when    *)
(* refreshGrantWindows has nothing left to do, the available credit is     *)
(* credit of active grants. (test/integration/credit-metering.test.ts)     *)
(***************************************************************************)
ExpiredIsNotAvailable ==
  \A a \in Accounts :
    Opening(a, now) = {} /\ Lapsing(a, now) = {} =>
      account[a].available <= Sum({g \in GrantsOf(a) : grant[g].status = "active"},
                                  [g \in Grants |-> Free(g)])

===============================================================================
