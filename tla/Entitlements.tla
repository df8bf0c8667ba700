------------------------------ MODULE Entitlements ------------------------------
(***************************************************************************)
(* The entitlement_* tables and the services that change them outside the  *)
(* canonical credit module: usage holds (usage-settlement-service.ts), the *)
(* ways credit is granted (subscription, admin, redeem, payment), refunds  *)
(* and expiry.                                                             *)
(*                                                                         *)
(* Every action is one committed transaction. Each of them updates the     *)
(* account row, conditionally and as the last thing it does to the credit  *)
(* tables, and locks the grants or the hold it decides about, so that the  *)
(* transactions of an account take effect one after the other; those that  *)
(* take the locks in opposite orders (a refund and a capture) deadlock and *)
(* PostgreSQL aborts one. A call that is refused, aborted, or replays an   *)
(* earlier result changes nothing and is not a step.                       *)
(***************************************************************************)
EXTENDS Integers, FiniteSets, CreditAmounts

CONSTANTS
  Accounts,        \* credit accounts, one per subject
  Periods,         \* paid periods of subscriptions
  Subscriber,      \* the account of the subscription of each period
  Grants,          \* grants, numbered in the order of issue and of identifiers
  Codes,           \* redeem codes of the campaign
  Holds,           \* holds, identified by their idempotency key
  Usages,          \* usage events, identified by their source event
  Refunds,         \* succeeded refunds of payments
  Amounts,         \* amounts credit is granted and refunded in
  MaxMicros,       \* bound on the amount of a direct hold
  MaxRedemptions,  \* redemptions the campaign allows
  MaxTime,         \* bound on the clock
  Ttl,             \* ttlSeconds of a hold
  ExpiryLimit,     \* holds one expiry batch may end
  None             \* no account, no hold, no period

ASSUME EntitlementsAssumption ==
  /\ Grants \subseteq Nat /\ IsFiniteSet(Grants) /\ IsFiniteSet(Holds)
  /\ Subscriber \in [Periods -> Accounts] /\ Periods \cap Grants = {}
  /\ Amounts \subseteq Nat \ {0}
  /\ MaxMicros \in Nat /\ MaxTime \in Nat /\ Ttl \in Nat \ {0}
  /\ ExpiryLimit \in Nat \ {0} /\ MaxRedemptions \in Nat
  /\ None \notin Accounts \cup Holds \cup Periods

VARIABLES
  now,         \* the database clock
  account,     \* entitlement_credit_account; a missing row is zeros
  grant,       \* entitlement_credit_grant
  hold,        \* entitlement_credit_hold
  allocation,  \* entitlement_credit_hold_allocation; a missing row is zeros
  usage,       \* entitlement_usage_event and its settlement
  journal,     \* entitlement_credit_journal without its numbering
  code,        \* entitlement_redeem_code
  campaign     \* entitlement_redeem_campaign

creditVars == <<account, grant, hold, allocation, usage, journal>>
redeemVars == <<code, campaign>>
entitlementVars == <<now, creditVars, redeemVars>>

Never == MaxTime + 1
Micros == 0 .. MaxMicros

NoGrant == [status |-> "absent", account |-> None, paid |-> FALSE, original |-> 0,
            remaining |-> 0, expires |-> Never, reversed |-> 0, period |-> None]
NoHold  == [status |-> "absent", account |-> None, requested |-> 0, captured |-> 0,
            expires |-> 0]
NoUsage == [status |-> "absent", owner |-> None, hold |-> None]
NoRows  == [g \in Grants |-> [held |-> 0, captured |-> 0, released |-> 0]]

EntitlementsTypeOK ==
  /\ now \in 0 .. MaxTime
  /\ account \in [Accounts -> [available : Nat, held : Nat]]
  /\ grant \in [Grants -> [status : {"absent", "active", "exhausted", "expired"},
                           account : Accounts \cup {None}, paid : BOOLEAN,
                           original : Amounts \cup {0}, remaining : Nat, reversed : Nat,
                           expires : 0 .. Never, period : Periods \cup {None}]]
  /\ hold \in [Holds -> [status : {"absent", "active", "captured", "released", "expired"},
                         account : Accounts \cup {None}, requested : Nat,
                         captured : Nat, expires : 0 .. MaxTime]]
  /\ allocation \in [Holds -> [Grants -> [held : Nat, captured : Nat, released : Nat]]]
  /\ usage \in [Usages -> [status : {"absent", "recorded", "settled"},
                           owner : Accounts \cup {None}, hold : Holds \cup {None}]]
  /\ journal \subseteq [account : Accounts, amount : Int,
                        source : Grants \cup Periods \cup Holds \cup Refunds,
                        kind : {"grant", "debit", "expiry", "reversal"}]
  /\ code \in [Codes -> {"absent", "issued", "disabled", "redeemed"}]
  /\ campaign \in [open : BOOLEAN, credit : Amounts \cup {0}, count : 0 .. MaxRedemptions]

EntitlementsInit ==
  /\ now = 0
  /\ account = [a \in Accounts |-> [available |-> 0, held |-> 0]]
  /\ grant = [g \in Grants |-> NoGrant]
  /\ hold = [h \in Holds |-> NoHold]
  /\ allocation = [h \in Holds |-> NoRows]
  /\ usage = [u \in Usages |-> NoUsage]
  /\ journal = {}
  /\ code = [c \in Codes |-> "absent"]
  /\ campaign = [open |-> FALSE, credit |-> 0, count |-> 0]

Tick == /\ now < MaxTime
        /\ now' = now + 1
        /\ UNCHANGED <<creditVars, redeemVars>>

Entry(a, kind, amount, source) ==
  [account |-> a, kind |-> kind, amount |-> amount, source |-> source]

-------------------------------------------------------------------------------
(***************************************************************************)
(* Granting credit: the grant, unique by its source, a journal entry, and  *)
(* the account, which is created when the subject has none.                *)
(***************************************************************************)
IssueGrant(g, row) ==
  /\ grant[g].status = "absent"
  /\ \A k \in Grants : k < g => grant[k].status # "absent"
  /\ grant' = [grant EXCEPT ![g] = row]

NewGrant(a, amount, expires) ==
  [NoGrant EXCEPT !.status = "active", !.account = a, !.original = amount,
                  !.remaining = amount, !.expires = expires]

Book(a, amount, source) ==
  /\ account' = [account EXCEPT ![a].available = @ + amount]
  /\ journal' = journal \cup {Entry(a, "grant", amount, source)}

Journaled(p) == \E e \in journal : e.kind = "grant" /\ e.source = p

(***************************************************************************)
(* A subscription period; refused once the period is over. The grant is    *)
(* unique by period and program, the journal entry by period alone: when   *)
(* the plan changed and the period is granted again for another program,   *)
(* the new row is committed without an entry and without its credit. The   *)
(* same period and program replay.                                         *)
(***************************************************************************)
SubscriptionGrant(p, g, amount, expires) ==
  LET a == Subscriber[p]
  IN  /\ expires > now
      /\ IssueGrant(g, [NewGrant(a, amount, expires) EXCEPT !.period = p])
      /\ IF Journaled(p) THEN UNCHANGED <<account, journal>> ELSE Book(a, amount, p)
      /\ UNCHANGED <<now, hold, allocation, usage, redeemVars>>

\* The other services have one source for both and write all three, or replay.
Credit(a, g, paid, amount) ==
  /\ IssueGrant(g, [NewGrant(a, amount, Never) EXCEPT !.paid = paid])
  /\ Book(a, amount, g)
  /\ UNCHANGED <<now, hold, allocation, usage>>

\* An operator's grant, which the journal calls an adjustment.
AdminGrant(a, g, amount) ==
  /\ Credit(a, g, FALSE, amount)
  /\ UNCHANGED redeemVars

\* The credit of a settled payment: the only one that can be refunded.
FulfillSettlement(a, g, amount) ==
  /\ Credit(a, g, TRUE, amount)
  /\ UNCHANGED redeemVars

CreateCampaign(credit) ==
  /\ ~campaign.open
  /\ campaign' = [open |-> TRUE, credit |-> credit, count |-> 0]
  /\ UNCHANGED <<now, creditVars, code>>

IssueCodes(codes) ==
  /\ campaign.open
  /\ \A c \in codes : code[c] = "absent"
  /\ code' = [c \in Codes |-> IF c \in codes THEN "issued" ELSE code[c]]
  /\ UNCHANGED <<now, creditVars, campaign>>

DisableCode(c) ==
  /\ code[c] = "issued"
  /\ code' = [code EXCEPT ![c] = "disabled"]
  /\ UNCHANGED <<now, creditVars, campaign>>

Redeem(a, g, c) ==
  /\ code[c] = "issued"
  /\ campaign.count < MaxRedemptions
  /\ Credit(a, g, FALSE, campaign.credit)
  /\ code' = [code EXCEPT ![c] = "redeemed"]
  /\ campaign' = [campaign EXCEPT !.count = @ + 1]

-------------------------------------------------------------------------------
(***************************************************************************)
(* What the queries compute.                                               *)
(***************************************************************************)
ActiveHolds == {h \in Holds : hold[h].status = "active"}

Open(h, g) == allocation[h][g].held - allocation[h][g].captured - allocation[h][g].released

Reserved(g) == Sum(ActiveHolds, [h \in Holds |-> Open(h, g)])

GrantsOf(a) == {g \in Grants : grant[g].account = a}

\* The grants of a period that another program had been granted before.
Uncredited(a) ==
  {g \in GrantsOf(a) :
     grant[g].period # None /\ \E k \in Grants : k < g /\ grant[k].period = grant[g].period}

Free == [g \in Grants |-> LET free == grant[g].remaining - Reserved(g)
                          IN  IF free > 0 THEN free ELSE 0]

Affordable(a, amount) == account[a].available >= amount

\* What allocateCreditGrants is given: no window but effective_at, and expiry.
Eligible(a) == {g \in GrantsOf(a) : grant[g].status = "active" /\ grant[g].expires > now}

\* The order of allocateCreditGrants: expiry, then issue and identifier.
BurnsBefore == [g \in Grants |->
  {k \in Grants : \/ grant[k].expires < grant[g].expires
                  \/ grant[k].expires = grant[g].expires /\ k < g}]

\* "ORDER BY credit_grant_id" of a capture: identifiers, not the burn order.
ListedBefore == [g \in Grants |-> {k \in Grants : k < g}]

Field(rows, field) == [g \in Grants |-> rows[g][field]]

-------------------------------------------------------------------------------
(***************************************************************************)
(* Usage holds.                                                            *)
(***************************************************************************)
AuthorizeUsage(h, a, requested) ==
  LET share == Greedy(Eligible(a), BurnsBefore, Free, requested)
  IN  /\ hold[h].status = "absent"
      /\ now + Ttl <= MaxTime                                    \* bound
      /\ Sum(Eligible(a), share) = requested
      /\ Affordable(a, requested)
      /\ hold' = [hold EXCEPT ![h] = [NoHold EXCEPT
                    !.status = "active", !.account = a, !.requested = requested,
                    !.expires = now + Ttl]]
      /\ allocation' = [allocation EXCEPT ![h] =
                          [g \in Grants |-> [NoRows[g] EXCEPT !.held = share[g]]]]
      /\ account' = [account EXCEPT ![a].available = @ - requested,
                                    ![a].held = @ + requested]
      /\ UNCHANGED <<grant, usage, journal>>

RecordUsageEvent(u, a) ==
  /\ usage[u].status = "absent"
  /\ usage' = [usage EXCEPT ![u] = [status |-> "recorded", owner |-> a, hold |-> None]]
  /\ UNCHANGED <<account, grant, hold, allocation, journal>>

(***************************************************************************)
(* ensureUsageEventForHold: the event of an admission's hold, created while *)
(* the hold is active, found again later; no other event may have the hold. *)
(***************************************************************************)
CanEnsureUsage(h) ==
  /\ \A u \in Usages \ {h} : usage[u].hold # h
  /\ IF usage[h].status = "absent" THEN hold[h].status = "active" ELSE usage[h].hold = h

EnsuredUsage(h) ==
  IF usage[h].status # "absent" THEN usage
  ELSE [usage EXCEPT ![h] = [status |-> "recorded", owner |-> hold[h].account, hold |-> h]]

\* What each allocation of h gives to a settlement of actual micros.
CapturedShare(h, actual) ==
  LET rows == allocation[h]
  IN  Greedy({g \in Grants : rows[g].held > 0}, ListedBefore, Field(rows, "held"), actual)

(***************************************************************************)
(* settleUsage commits: the hold is active, the event is recorded and free *)
(* to be bound to this hold, and no conditional update finds its row       *)
(* changed. rows are the usage events as this transaction sees them.       *)
(***************************************************************************)
CanSettle(h, u, rows, actual) ==
  LET share == CapturedShare(h, actual)
  IN  /\ hold[h].status = "active"
      /\ actual <= hold[h].requested
      /\ rows[u].status = "recorded" /\ rows[u].owner = hold[h].account
      /\ rows[u].hold \in {None, h} /\ \A v \in Usages \ {u} : rows[v].hold # h
      /\ \A g \in Grants : grant[g].remaining >= share[g]
      /\ Sum(Grants, share) = actual
      /\ account[hold[h].account].held >= hold[h].requested

SettleUsage(h, u, rows, actual) ==
  LET share == CapturedShare(h, actual)
      released == [g \in Grants |-> allocation[h][g].held - share[g]]
      a == hold[h].account
  IN  /\ CanSettle(h, u, rows, actual)
      /\ allocation' = [allocation EXCEPT ![h] = [g \in Grants |->
                          [@[g] EXCEPT !.captured = share[g], !.released = released[g]]]]
      /\ grant' = [g \in Grants |-> [grant[g] EXCEPT
                     !.remaining = @ - share[g],
                     !.status = IF share[g] > 0 /\ grant[g].remaining = share[g]
                                THEN "exhausted" ELSE @]]
      /\ journal' = journal \cup {Entry(a, "debit", -n, h) : n \in {actual} \ {0}}
      /\ hold' = [hold EXCEPT ![h].status = "captured", ![h].captured = actual]
      /\ account' = [account EXCEPT ![a].available = @ + Sum(Grants, released),
                                    ![a].held = @ - hold[h].requested]
      /\ usage' = [rows EXCEPT ![u].status = "settled", ![u].hold = h]

\* The allocations of the holds in ended, everything still open released.
AllocationReleased(ended) ==
  [h \in Holds |-> IF h \in ended
     THEN [g \in Grants |-> [allocation[h][g] EXCEPT !.released = @ + Open(h, g)]]
     ELSE allocation[h]]

\* Mutant: what was reserved leaves held_micros but returns to nobody.
AccountLosesHolds(ended) ==
  [a \in Accounts |->
     LET total == Sum({h \in ended : hold[h].account = a}, [h \in Holds |-> hold[h].requested])
     IN  [account[a] EXCEPT !.held = @ - total]]

\* Their accounts, with everything requested returned.
AccountAfter(ended) ==
  [a \in Accounts |->
     LET total == Sum({h \in ended : hold[h].account = a}, [h \in Holds |-> hold[h].requested])
     IN  [account[a] EXCEPT !.available = @ + total, !.held = @ - total]]

HeldSuffices(ended) == \A a \in Accounts :
  Sum({h \in ended : hold[h].account = a}, [h \in Holds |-> hold[h].requested]) <= account[a].held

EndHolds(ended, status) ==
  /\ HeldSuffices(ended)
  /\ allocation' = AllocationReleased(ended)
  /\ account' = AccountAfter(ended)
  /\ hold' = [h \in Holds |-> IF h \in ended THEN [hold[h] EXCEPT !.status = status] ELSE hold[h]]
  /\ UNCHANGED <<grant, usage, journal>>

\* A released hold replays, a captured or expired one is refused.
CanRelease(h) == hold[h].status = "active" /\ HeldSuffices({h})

ReleaseUsage(h) == CanRelease(h) /\ EndHolds({h}, "released")

-------------------------------------------------------------------------------
(***************************************************************************)
(* Expiry, by a worker that a Redis lease only asks to run alone.          *)
(***************************************************************************)
\* Mutant: the batch joins the grants and misses a hold a refund has undercut.
DueBacked == {h \in ActiveHolds : /\ hold[h].expires <= now
                                  /\ \A g \in Grants : Open(h, g) <= grant[g].remaining}

Due == {h \in ActiveHolds : hold[h].expires <= now}

\* "ORDER BY expires_at, credit_hold_id LIMIT": the longest overdue first. One
\* that another transaction ends before its row is locked is skipped.
Selections ==
  {S \in SUBSET Due :
     /\ Cardinality(S) \in 1 .. ExpiryLimit
     /\ \A s \in S, d \in Due \ S : hold[s].expires <= hold[d].expires}

\* A batch ends all the holds it still finds active, or none. A batch that is retried
\* under its identity replays the list in its receipt.
ExpireExpiredHolds ==
  /\ Due # {}
  /\ \E ended \in Selections : EndHolds(ended, "expired")
  /\ UNCHANGED <<now, redeemVars>>

\* Mutant: what active holds reserve of the grant is not looked at.
ExpirableReserved(g) ==
  /\ grant[g].status = "active" /\ grant[g].expires <= now
  /\ grant[g].remaining > 0

\* The candidate query and the checks repeated under the lock of the grant.
Expirable(g) ==
  /\ grant[g].status = "active" /\ grant[g].expires <= now
  /\ grant[g].remaining > 0
  /\ \A h \in ActiveHolds : Open(h, g) <= 0

\* A batch of grants is one transaction: these steps, one after the other, or none
\* when the account cannot pay for one of them.
ExpireGrant(g) ==
  LET a == grant[g].account
  IN  /\ Expirable(g)
      /\ Affordable(a, grant[g].remaining)
      /\ journal' = journal \cup {Entry(a, "expiry", -grant[g].remaining, g)}
      /\ account' = [account EXCEPT ![a].available = @ - grant[g].remaining]
      /\ grant' = [grant EXCEPT ![g].remaining = 0, ![g].status = "expired"]
      /\ UNCHANGED <<now, hold, allocation, usage, redeemVars>>

(***************************************************************************)
(* reverseCredits: a refund takes its share of the credit back. It looks   *)
(* at what remains of the grant and at the account, not at what active     *)
(* holds reserve of the grant.                                             *)
(***************************************************************************)
ReverseCredits(r, g, amount) ==
  LET a == grant[g].account
      remaining == grant[g].remaining - amount
  IN  /\ grant[g].paid
      /\ \A e \in journal : ~(e.kind = "reversal" /\ e.source = r)
      /\ remaining >= 0
      /\ Affordable(a, amount)
      /\ grant' = [grant EXCEPT ![g].remaining = remaining, ![g].reversed = @ + amount,
                                ![g].status = IF remaining = 0 THEN "exhausted" ELSE "active"]
      /\ journal' = journal \cup {Entry(a, "reversal", -amount, r)}
      /\ account' = [account EXCEPT ![a].available = @ - amount]
      /\ UNCHANGED <<now, hold, allocation, usage, redeemVars>>
-------------------------------------------------------------------------------
(***************************************************************************)
(* The accounts that reconciliation reports: the balance against what the  *)
(* grants have left and what the journal adds up to, the held credit       *)
(* against the active holds and their allocations.                         *)
(***************************************************************************)
AccountDrifts == {a \in Accounts :
  LET balance == account[a].available + account[a].held
      held    == {h \in ActiveHolds : hold[h].account = a}
      credits == {e \in journal : e.account = a /\ e.amount > 0}
      debits  == {e \in journal : e.account = a /\ e.amount < 0}
  IN  \/ balance # Sum(GrantsOf(a), [g \in Grants |-> grant[g].remaining])
      \/ balance + Sum(debits, [e \in journal |-> -e.amount])
           # Sum(credits, [e \in journal |-> e.amount])
      \/ account[a].held # Sum(held, [h \in Holds |-> hold[h].requested])
      \/ account[a].held # Sum(held, [h \in Holds |-> Sum(Grants, [g \in Grants |-> Open(h, g)])])}
===============================================================================
