# Specifications of kokoro-billing

TLA+ models of kokoro-billing, the configurations that model-check them, and
machine-checked proofs about them. Paths of code are relative to the
repository's root (`src/` below is the repository's own `src/`).

    CreditAmounts          sums and greedy allocation, as closed forms
    CreditLedger           accounts, grants, holds, allocations, journal
    CreditReads            the paged listing of the journal
    IdempotentCommands     what command receipts promise (abstract)
    CommandReceipts        CommandReceiptRepository.execute, query by query
    Outbox                 leased delivery of billing_outbox
    PaymentPipeline        provider events, settlements, refunds, payment_outbox
    ProviderEvents         what the payment providers tell, and what becomes of it
    Entitlements           the older credit tables: grants, usage holds, refunds, expiry
    Admissions             admitted invocations and their execution events
    Runtime                start, shutdown, connection pool, transactions of requests
    MeteringPricing        price of metered usage, rates that may be published
    Metering               publication and selection of prices, settlement of usage
    Catalog                plans, prices and quotes
    Checkouts              checkouts and their hosted sessions
    Subscriptions          subscription periods and their credit
    Commerce               Checkouts and Subscriptions over one Catalog
    Connection             nested transactions of the PostgreSQL services
    Sweeps                 the expiry worker and its Redis lease
    UsageEvidence          evidence of the Agent and its reader
    CreditAmountsProofs    laws of sums and of greedy allocation
    CreditLedgerProofs     theorems about CreditLedger and CreditReads
    TransactionsProofs     ... CommandReceipts and Connection
    LeasesProofs           ... Outbox and Sweeps
    PaymentPipelineProofs  ... PaymentPipeline and ProviderEvents
    AdmissionsProofs       ... Admissions with Entitlements
    MeteringProofs         ... Runtime, Metering and UsageEvidence
    CommerceProofs         ... Commerce: catalog, checkouts, subscriptions
    MC...                  instances for TLC

`tlc -config MCX.cfg MCX` runs a model, `tlapm XProofs.tla` checks proofs.
`PROJECT.json` lists the runs, the code each definition stands for, for each
property a plausible bug that breaks it, the hazards and the theorems.


## 1. The system

kokoro-billing is the billing service of a multi-tenant platform: a NestJS
process over PostgreSQL. It holds two generations of code. The *canonical*
modules (`src/modules`, `src/database`) use Prisma and the tables `billing_*` of
`database/schema.sql`. The *PostgreSQL services*
(`src/infrastructure/postgres`, `src/domain`) serve three worker scripts and
use older tables (`payment_*`, `entitlement_*`).

### 1.1 Components

| component | state | operations | correct when |
|---|---|---|---|
| canonical credit, `src/modules/credit` | account balances, grants, holds, allocations, journal | openMyAccount, grant, refreshGrantWindows, reserve, capture, release, listMyLedger | held is what active holds requested; grants cover the holds; no micro is lost or made; usage is charged once; a listing is a snapshot |
| command receipts, `src/database/command-receipt.repository.ts` | receipts, bindings of keys | execute | one effect per key and identity; every answer is the first one; nothing is half done |
| transactions, `src/database/transaction.service.ts` | context in AsyncLocalStorage, rollback-only mark, deadline | run, readRoot, nested run | a root commits only if nothing in it failed; no query after the deadline |
| outbox, `src/database/outbox.repository.ts` | `billing_outbox` | enqueue, claimNext, renew, complete, retry, deadLetter, requeue | one worker at a time per event; no event is lost; a requeue refers to what its administrator saw |
| lifecycle, `src/database/prisma.service.ts`, `src/bootstrap`, `src/main.ts` | connection pool, state of the service | start, init, destroy, signals | the pool outlives the connections; a process that is told to stop ends |
| metering prices, `src/modules/metering/metering-pricing*` | published revisions of rates and policies | publish, select, price | revisions are numbered 1, 2, ...; the selected one is in force; no request matches two rates; usage is charged once |
| metering settlement, `src/modules/metering/metering.*.ts` | usage rows, settlements | settle | settlement, usage and capture come together |
| agent usage evidence | the evidence accepted so far; open reads | decode, verify a successor, read | what was known stays known; a read is accounted for |
| payments, `.../repositories/payment`, `.../refund` | provider events, receipts, settlements, fulfilments, reversals, `payment_outbox` | accept, record, fulfil, reverse, admin retry | a payment is fulfilled once, a reversal takes back its share once |
| payment providers, `.../providers/payment` | none | parse notifications, open sessions | facts are what the provider did |
| usage services, `.../repositories/metering` | admissions, holds, execution events | admit, capture, release, expire, process event | admission, hold and charge tell one story; every hold and event comes to its end |
| other grants, `.../repositories/credit` | redeem codes, admin grants, subscription periods | redeem, grant, expire | the books drift for one known reason only; a period is credited once |
| catalog, prices and checkout, `.../repositories/checkout`, `.../metering/usage-pricing*` | revisions, receipts, checkouts | publish, list, quote, buy, open a session | a command acts once; a listing is complete; usage is charged as quoted; one session per checkout |
| PostgreSQL connection, `src/infrastructure/postgres/connection.ts` | contexts, sessions of the pool | withTransaction, savepoints | what returned is durable, what was rolled back is not |
| expiry worker, `scripts/expire-credit-holds.ts` and `src/infrastructure/redis/lease.ts` | the key of the lease | sweep under the lease | one at a time as long as the lease holds; sweeping goes on |
| reconciliation, audit, account queries, IAM client, Redis hints, HTTP, configuration | none, or rows nobody reads back | | |
| schema tooling, contract, generated code | none | | |

### 1.2 How they interact

* Every canonical operation runs inside `TransactionService.run`, which keeps
  the transaction in an AsyncLocalStorage context. A nested `run` joins its
  root; any error inside marks the root rollback-only.
* `credit.service` wraps grant and reserve in `CommandReceiptRepository.execute`,
  and so do the publications of prices. Capture and release have no receipt:
  `#finishHold` decides a replay from the hold's own terminal state.
* Metering settles usage and captures its hold in one transaction; the credit module
  may end the same hold for others.
* Workers talk to `billing_outbox` by repeated transactions, between which
  nothing but the lease protects them. The repository has no consumer of the
  outbox; its tests stand in for one.
* The PostgreSQL services share a pool (`connection.ts`) with contexts of their own,
  in which transactions nest by savepoints. A provider event goes from the inbox to
  `payment_outbox`, is claimed in one transaction, processed in a second (settlement,
  fulfilment or reversal, and its own status, all or nothing) and reported in a third.
* Grants of payments, subscriptions, codes and operators, usage holds, refunds and both
  expiries meet in the same entitlement tables, kept in step by conditional updates
  that compute no sum.
* Execution events are processed by a batch script without a lease; row locks and the
  status of the event order overlapping passes.

### 1.3 What is hard

* Transactions at READ COMMITTED that decide from rows read before a lock.
* Clocks: the application's and the database's, each read more than once in a
  transaction (`grant`, `reserve`, the outbox).
* Retries after lost answers, under the same key or another one; a commit whose answer
  is lost; a provider that acts after its caller has given up.
* A lifecycle that spans transactions: a grant expires or is refunded under an active
  hold, a hold is captured after that, a lease runs out under a worker.
* Events of providers and executions in any order, twice, or contradicting each other.
* Errors swallowed by a caller inside a transaction; sessions that die inside a nest of
  savepoints; deadlines that close a transaction whose callback still runs.
* Shutdown against everything that is under way, handlers whose client is gone included.

`PROJECT.json` lists these as hazards at their lines.


## 2. Plan

Done, in this order: credit (`CreditAmounts`, `CreditLedger`), command receipts
(`IdempotentCommands`, `CommandReceipts`), the outbox, payments; then the older usage
services (`Entitlements`, `Admissions`), the process and metering (`Runtime`,
`MeteringPricing`, `Metering`), what is sold (`Catalog`, `Checkouts`, `Subscriptions`),
the reads of the ledger, and the parts that stand alone (`Connection`, `Sweeps`,
`UsageEvidence`, `ProviderEvents`).

Every safety property of these modules but two closed forms (section 6) is also proved.

Left:

1. **Operators' reversals** in `PaymentPipeline`, by an amount of credit.
2. **The strict JSON parser** of evidence and the codec of published revisions, over
   bounded documents.
3. **Composition.** `PaymentPipeline` takes usage as `Spend`, `Entitlements` takes a
   payment as one grant: a refinement of the first's grants by the second's would
   replace both.


## 3. The models

Common conventions. A call that is refused, rolled back, or replays an earlier result
without a write is not a step, unless it changes what somebody goes on with. Amounts
are small naturals; names are only compared. Tables of one tenant.

### 3.1 CreditLedger, CreditAmounts, CreditReads

State: one record per account, grant, hold, allocation as in the tables; the
journal is a set of rows; `now` is the database clock. A row that does not exist
has status `absent`; a missing allocation is a row of zeros. `early` records, for
the properties only, the grants that were credited before their window opened.

Every action is one committed transaction. Each one locks the account row (grant
and openMyAccount the subject's advisory lock first) and keeps it to the end, so
transactions of one account are serial, and what is read before the lock cannot
change (the account a hold belongs to) or is guarded by a unique index (the
source of a capture). What does not become atomic by the lock is time: the clock moves
by up to `TxSpan` between two reads of it inside an action, and the application's clock
differs from the database's by `AppSkew`.

| code | action |
|---|---|
| `openMyAccount`, and the account upsert inside `grant` | `OpenMyAccount`, `GrantCredit` |
| `grant`: status by one reading of the clock, credit by the other | `GrantCredit` |
| `refreshGrantWindows`: opens and expires grants, writes one expiry entry per grant, adjusts `available_micros` | `RefreshGrantWindows`; the same operators inside `Reserve` |
| `reserve`: refresh, then eligible grants in burn order | `Reserve` |
| `capture`, `release` through `#finishHold` | `Capture`, `Release` |
| an operator disables an account (no code does; the code reads the flag) | `DisableAccount` |
| `listMyLedger`: one snapshot transaction per page, the cursor between | `FirstPage`, `NextPage` of `CreditReads` |

Grants are numbers in the order in which they burn, so `ORDER BY` needs no keys.
`CreditAmounts` has the arithmetic: `Sum` is SQL's SUM and `Greedy` is the loop
that takes what is still missing from one row after the other. They are closed
forms (a sum of naturals is the number of its units), because the proof system
cannot reason about recursion; `MCParts` compares them with folds that follow the loops.
For the same reason a page is defined by rank (`Rows` of `CreditReads`, `FirstRows` of
`Catalog`): its i-th row is the one that i - 1 rows come before.

### 3.2 IdempotentCommands and CommandReceipts

`IdempotentCommands` is the promise: in one step, an attempt performs its command
and binds its key, or is answered by the command its key is bound to, or by the
one of its identity (which binds its key too), or leaves no trace.

`CommandReceipts` is the code: each attempt is a transaction that takes the sorted
advisory locks, reads by key, reads by identity, decides, inserts the receipt
('processing'), binds the key, runs the effect, completes the receipt, and
commits. Writes are a draft others see after the commit; an insert waits on the
unique index for a draft with the same value. Any query may fail, the effect may
fail, the caller may swallow an error (then only the rollback-only mark of
`TransactionService` keeps the root from committing), and any transaction may end
at any point by crash or deadline. `ExecutesAtomically` is the refinement: a command is
performed when its attempt commits.

### 3.3 Outbox

State: the row of each event; for each worker the rows it holds a fence for and
how long it still *believes* to have the lease; for each administrator the
dead-lettered event on the screen. Times are what is left of them. The token of a
claim is the worker's name: claimNext overwrites tokens, and a worker forgets the
rows of an earlier claim when it claims. Answers of renew may be lost, a report may
be sent again, a worker may crash, time passes at any moment. `claimNext` takes any set
of claimable rows up to the limit: with SKIP LOCKED the order of the query is no
promise. `attempts` is counted up to `MaxAttempts` and read by nobody.

### 3.4 PaymentPipeline

A provider's event passes through the inbox and `payment_outbox` to a worker.
`job[w]` is where worker `w` is:

    Claim -> Read -> ProcessPayment | ProcessRefund -> Publish
              |________________|_______________________-> GiveUp

| code | action |
|---|---|
| `accept`: event and outbox row in one transaction, once per event | `Accept` |
| `retry` of the admin service: upsert that resets the outbox row and its lease | `AdminRetry` |
| `processOnce`, its first transaction | `Claim` |
| `process`: the first look at the event, without a lock | `Read` |
| `process` under `withTransaction`, to its COMMIT: `recordSettlement`, `fulfillSettlement`, `markProcessed` | `ProcessPayment` |
| the same with `recordReversal`, `reverseCredits` | `ProcessRefund` |
| an exception or a lost connection anywhere | `Fail` |
| `processOnce`: published; retry or dead letter; lease lost | `Publish`; `GiveUp`; `Report` |
| process exit, also a failure while reporting an outcome | `Crash` |
| usage that captures from the grant (its net effect) | `Spend` |

All of the processing is one transaction: nested transactions of the services are
savepoints of it, and a failure leaves nothing, the note of `markFailed` included. The
answer of its COMMIT may be lost; then the worker gives up an event that is processed.

Time is left out: a live row may be claimed at any moment, since a worker stalls, or
fails to renew, for as long as it takes `lease_until` to pass. So nothing rests on the
lease's length; what the code relies on is the token, the worker's name.

### 3.5 ProviderEvents

One sale at Stripe, Alipay or WeChat Pay, external: it is paid, at once or late, closed,
refunded in parts, or renewed, and the provider sends a notification for each change.
`StripeFact`, `AlipayFact` and `WechatFact` are the `parseEvent` of the three adapters;
`HandleEvent` is what `process` does with the fact, for any notification, in any order,
again and again while it fails. Amounts that Alipay writes as text are digits, because
padding them is what could go wrong. What is refunded and what is reversed in all are sums
as in `CreditAmounts` (`AmountRefunded`, `AmountReversed`).

### 3.6 Entitlements and Admissions

`Entitlements` has the tables that everything outside the canonical module shares, and one
action per service: `SubscriptionGrant`, `AdminGrant`, `FulfillSettlement`, campaigns and
codes (`CreateCampaign`, `IssueCodes`, `DisableCode`, `Redeem`), `AuthorizeUsage`,
`RecordUsageEvent`, `SettleUsage`, `ReleaseUsage`, `ExpireExpiredHolds`, `ExpireGrant`,
`ReverseCredits`. Each is one committed transaction; all but the one case below end in a
conditional update of the account. Transactions that lock in opposite orders deadlock and PostgreSQL
aborts one; an aborted one is no step. The details kept on purpose: eligibility knows no
window but expiry, a capture takes allocations in the order of identifiers and not the one
they burn in, and `ReverseCredits` looks at what remains of a grant and not at what holds
reserve of it. And the services that grant credit insert the grant (`IssueGrant`) and then
journal entry and account (`Book`), both under one source (`Credit`); but the grant of a
subscription period is unique by period *and program*, its entry by period alone. When the
period is granted again for another program, after a change of plan, `SubscriptionGrant`
commits the grant and leaves journal and account as they are. `Uncredited` are these grants.

`Admissions` adds `billing-admission-service.ts` with the receipts of capture and release,
and the batch script: `StartPass` reads a batch without locks, `StepPass` takes the next
event of it, whatever other passes have done since, `CrashPass` ends the script between two
events. Events arrive in any order, before their admission too.

### 3.7 Runtime, Metering, MeteringPricing

`Runtime` is the process: `PrismaService` (initialise, a connection that succeeds after the
service was given up, cleanup once), `createBillingRuntime` and `main` (signals, drain,
providers, the deadline), and the transaction of each request, which an error dooms, its
deadline closes while the callback still runs, and shutdown refuses. The drain waits for
connections (`Drained`), not for handlers: a client may disconnect at any moment
(`Disconnects`), and its handler goes on, `"abandoned"`, through the drain and the end of the
pool (`InHandler`). A pool that is closed waits for the connections that transactions hold
(`CleanupEnds`), each of which ends by itself or is cancelled (`DeadlineOf`). `Metering` lives
inside: its steps are queries, possible while `CanQuery`. `Receipt`, `LockTable`,
`ReadNumber`, `Insert`, `Verify` are a publication; `SelectRate`, `SelectPolicy` a
selection, whose two reads see different commits; `FindUsage`, `CreateUsage`, `FinishHold`,
`Settle` a settlement. Uncommitted rows are `work[r]`, visible at `CommitWork`; an insert
waits for a draft with its key. `MeteringPricing` is the arithmetic: price of nested
buckets in exact fractions, rounded up once, and which rates may be published together.

### 3.8 Catalog, Checkouts, Subscriptions

Clients with one task each, tried again after any failure. A publication takes its receipt,
the lock of its title, the next number, and commits, and the answer may be lost. A listing
keeps a cursor between pages. A quote pins a revision, by which the hold is priced later.
`Checkouts` asks the provider within the transaction that has the row locked: the request
may be carried out after the caller has given up (`OpenSession`), and the idempotency key
makes it the same session. `Subscriptions` reads the plan before its transaction writes, and
works on events in any order. `Commerce` puts both over the catalog they share.

### 3.9 Connection, Sweeps, UsageEvidence

`Connection`: contexts over a pool. `frames` are the calls of `withTransaction` a context is
in, `server` what the sessions have open. Statements fail, sessions die at any moment, work
throws and outer work catches; a statement of control that fails poisons the transaction.
`Sweeps`: the expiry workers and their key in Redis, whose commands arrive late, twice, or
after their sender has gone. The token of an attempt is a UUID in the code; here it is any
that nobody has and that is not on its way. `UsageEvidence`: what evidence may say, what a
successor may change, and calls of the reader against abort, deadline and shutdown; the causes
of errors are evaluated when the error is thrown. A read asks for a revision that exists.
Each has a specification of its own (`ConnectionSpec`, `SweepsSpec`, `EvidenceSpec`, and
`ProviderSpec` of 3.5), which is what the theorems are about.


## 4. What the runs check

Every run has the whole state graph of its instance explored.

**credit_ledger** -- one account, two grants, two holds, two sources, amounts up
to 2, clock up to 2, one tick inside a transaction. Two grants are what
allocation order and partial exhaustion need, two holds what competition for one
grant and repeated sources need, and amounts of 2 let a hold split over both grants
and a capture take less than was held. About 820 thousand states.

* `HoldsAreBacked`: held_micros is the sum of the active holds, and holds never reserve
  more of a grant than remains of it.
* `NeverCorrupt`: no hold reaches what `#finishHold` reports as corrupt, and the CHECK
  on available_micros never refuses a refresh, which would block the account for good.
* `AvailableIsFreeCredit`: the exact value of available_micros, early grants included.
* `LotConserved`: what remains, was captured, or was journalled as expired adds up
  to what was granted.
* `DebitsAreCaptures`: debits of the journal are the captured holds, one for one.
* `ReservesOpenCreditInOrder`: a reservation takes only credit that is open when it
  is taken, and in burn order.

**credit_reads** -- two accounts that share sources and a hold, the application's clock one
tick ahead, pages of one entry, each other's cursors: `PagesAreTheHistory`. The numbering of
entries, also when one refresh writes several, is part of it. About 190 thousand states.

**command_receipts** -- three attempts over two keys, two identities (or none) and
two payloads: three are the least that let one attempt share its key with the
second and its identity with the third. `LocksSuffice` (under the locks no insert ever
meets its unique index: what was read stays true), `ExecutesAtomically` (the refinement).
About 110 thousand states.

**outbox** -- two events, two workers, one administrator, a lease of two ticks,
delays up to one, two requeues, batches of up to two. Two workers are enough for a
lease to be lost to another, two requeues for a screen to be out of date. `LeaseIsExclusive`,
`RequeueIsInformed` (a requeue follows the dead letter its administrator saw, not a later
one), `NeverStuck` (an event nobody has leased is taken up again, or given up). About 150
thousand states.

**payments** -- one payment of 4 for a credit of 2, two events that report it, two refunds
of 1 or 3 each, two workers, one attempt, one administrator's retry, usage of up to
one unit. Two events compete for the settlement; the refunds add up to less than the
payment, to all of it, and to more; shares of 1 and 3 quarters of 2 are rounded, and the
second refund of 1 has a share of nothing. The retry after a dead letter is what a late
outcome could spoil. About 1.1 million states; more workers and attempts are what the proofs
of section 6 are for.

* `CreditIsPayments`: the grant of a payment has the credit that was paid for, less
  usage and refunds, the account what its grants have.
* `ReversalIsProportional`: the refunds taken back took the share of their total,
  rounded up once.
* `ProcessedIsDone`: what is processed, or published, had its effect.
* `DeadIsExhausted`: no late worker gives up a try that was begun anew.

**admissions** -- one admitted invocation on one account with two grants, and one of four
casts per behaviour (`MCCasts`): two overlapping passes over two events that may contradict
each other, with refunds; the same with events that differ in their receipts; one event and
a direct caller of the usage service; one event and a redeem campaign. Batches of one, so
that an event at their head can starve the other; one tick, so that grants and holds expire
under everything.

* `DriftIsExplained`: reconciliation reports exactly the accounts that have a grant of a period
  which another program had been granted before; balance and grants differ by what these were
  granted, whatever became of them since, and nothing is overdrawn. One period and two grants
  are what it takes.
* `AdmissionsMatchHolds`, `ProcessedEventsHold`: admission, hold, usage, debit and event
  tell one story.
* `ReservationsAreBacked`: only a refund can make a capture fail for want of credit. It speaks
  of the grants that a hold reserves of; the others may have been refunded under other holds,
  as the proof for more grants than this instance has made plain.
* `HoldsEnd`, `EventsConverge`: a hold ends; an event is processed unless it is `Blocked` by
  one of the reasons listed there, or `Starved` by a batch's worth of older blocked events.

About 140 thousand states.

**metering** -- three requests, either of publications and a selection, or of settlements and
ends of one hold, in a process that serves; or one request in a process from its start
to its end, with both signals (`MCMetering`). Two publications are what a number could be
given twice by, and the third request is what sees both. `RevisionsAreNumbered`,
`SelectionsAreSound`, `SettlementsMatchHolds`, `PoolOutlivesConnections` (a handler finds the
pool gone only after the end of the drain, and one whose client still waits only when the drain
failed), `ShutdownEnds`. About 790 thousand states.

**commerce** -- four clients, in casts (`Casts`): three publications and a listing with pages
of one; publications and two buyers, of the same checkout or another; publications and two
subscription events; prices and two users of them. `PublicationsActOnce`,
`OffersAreListedOnce`, `ChargedAsQuoted`, `OneSessionPerCheckout`, `PeriodsAreCreditedOnce`.
About 190 thousand states.

**parts** -- in a behaviour one part plays (`part`), so that the run has the states of each and
not of their product. About 370 thousand states.

* `GreedyIsTheLoop`, `QuoteCountsUsageOnce`: three rows with amounts 0..3 and every need up to
  7: equal and empty rows, needs below, at and beyond every partial sum, every inclusion of
  buckets. `SumAddsRows` is evaluated as an assumption over the same rows.
* `TransactionsAreHonest`: two contexts, two sessions, three writes, a savepoint, a death.
* `LeasedSweepsAreAlone`, `SweepingGoesOn`: two workers, two failures; enough tokens that
  there always is a fresh one.
* `KnowledgeOnlyGrows`: chains of three revisions over documents in which each field is
  unknown, told, or contradicted; `ReadsAreAccountedFor`: two reads, one of sealed evidence and
  one of evidence that is not.
* `FactsAreTheProviders`: a payment of 2.10 and refunds of 0.55 and 1.00: fractions with two,
  one and no digits.

`CHECK_DEADLOCK FALSE` stands where a behaviour may end: all attempts have ended
(**command_receipts**), every event is published or dead and the retries used up (**payments**,
**payment_attempts**), the bounded clock, grants, events and clients are used up
(**admissions**, **commerce**), the process has exited or every request is done (**metering**), a
part has played (**parts**).

### 4.1 Disagreements

Three runs expect a violation.

* **credit_clock_read**: `grant` reads the clock once for the status of the grant
  (`credit.repository.ts:376`) and once more for the credit of the account (`:379`).
  If the window opens in between, the grant is stored pending and credited; the next
  refresh credits it again. `docs/RELIABILITY.md` section 7 wants projection and
  grants to agree. `AvailableIsFreeCredit` shows that this is the only source
  of such credit.
* **credit_late_release**: credit released from a hold whose grant expired meanwhile
  goes back to `available_micros` (`:740`), though the grant stays expired and
  nothing can reserve it. A test says of the refresh that it expires the
  availability of grants.
* **payment_attempts**: `docs/RELIABILITY.md:69` says that an event of the payment worker
  is dead-lettered when it reaches the limit of attempts. The claim
  (`outbox-worker.ts:53`) compares attempts with no limit; only a handler that throws
  dead-letters (`:138`). A worker that dies with its claim, every time, leaves the event
  to be claimed for ever.

None is assumed away: all properties of section 4 hold with all three.

### 4.2 Observations no property states

What came up while modelling; the models behave like the code in each.

* Payments. `markFailed` writes in the transaction its failure rolls back, so an event that
  fails for ever stays 'received' (`docs/IMPLEMENTATION_PLAN.md:974` knows). A small refund
  whose share is nothing after rounding is refused at every try.
* Providers. Alipay's refunds all carry the trade as reference, Stripe's without a list of
  refunds the charge and the total so far: a second partial refund then conflicts with the
  first. Alipay's TRADE_FINISHED after TRADE_SUCCESS fails as a second event of one payment.
  Hosted checkouts in subscription mode name neither team nor plan, so their subscription
  events fail. `FactsAreTheProviders` says exactly what is left: never too much, and exact
  where refunds are told apart (`ToldApart`).
* Subscriptions. A period whose plan changed gets a second grant row that journal and account
  do not follow: the account drifts by it (`DriftIsExplained`), a hold that the balance affords
  may reserve it, and its expiry takes credit that other grants brought, or fails with
  `billing.credit_projection_drift`, and the batch with it, while the balance is too small. The
  credit of the period stays that of the first plan. An event that names an offer resolves to
  its newest revision when it is worked on, and conflicts if that has another credit by then. A
  late 'active' revives a canceled subscription.
* Usage. The expiry of holds ends those of admissions that are held or unknown
  (`docs/RELIABILITY.md:116` and `docs/TECHNICAL_DESIGN.md:1064` read otherwise); their capture
  or release then fails for ever. Such events, at the head of a batch, starve later ones. A
  refund takes what an active hold reserves.
* Sweeps. A worker that loses Redis sweeps without a lease for good (`docs/RUNBOOK.md` section
  6 accepts that it does).
* Metering. Of two identical settlements at once the second fails on the unique source; trying
  again replays it. Rates and policy of a selection may be of different moments, which
  `docs/DATA_MODEL.md:144` disclaims.
* Runtime. A comment (`create-billing-runtime.ts:64`) says that the adapter is drained first "so
  in-flight requests retain their database pool". `adapter.close` (`:59`) waits for connections;
  a client that disconnects in the middle of its request ends its connection and not the
  handler, which then outlives a drain that succeeded and finds the pool closed. A transaction
  it has open is rolled back, or was about to commit. `PoolOutlivesConnections` says what does
  hold; demanding `drainFailed` for the handlers of clients that are gone too, it is violated.
* Signals. One before the handlers are installed, or the second of a kind, kills. A
  listen that fails closes the runtime before main's deadline is armed; if a handler hung then
  there would be no timer, but no request has arrived.
* Connection. Work whose own query failed at the outermost level and that swallowed the error
  would commit nothing and look successful. No caller does; `Query` excludes it.


## 5. Fairness

Safety needs none. Five properties are liveness.

* `NeverStuck`: time passes, and for every event that stays claimable some worker's poll takes
  it. The first is the database's clock. The second is an assumption about the consumer,
  which is outside the repository: it keeps polling, and no event is passed over for ever.
  Nothing is assumed of what a worker does with an event.
* `HoldsEnd`: time passes and the expiry daemon runs (weak fairness: its loop in
  `expire-credit-holds.ts`, which `SweepingGoesOn` is about).
* `EventsConverge`: the batch script is started again and again by one worker (a scheduled job),
  and no event is for ever the one at which it dies (strong fairness of `StepPass` per event,
  since a crash takes the batch away and the next pass brings it back). The other worker,
  events, callers and crashes are unfair.
* `ShutdownEnds`: timers fire and promises that nothing outside delays settle. Nothing is
  assumed of handlers, the connection attempt or listen: they may hang for ever.
* `SweepingGoesOn`: workers go on, time-outs fire, commands that were sent arrive, a worker that
  ended is started again, and a key that nobody renews lapses.

`CommandReceipts` promises no progress: an attempt may always be refused or time out. In
`PaymentPipeline` a worker may die with every claim, so an event may never end.


## 6. What is proved

All proofs are for any number of accounts, grants, holds, payments, events, requests,
clients and workers and any bounds. What they assume of the constants, each in an `ASSUME` of
the module, which the runs evaluate on their instances:

* constants have their types, sets are finite where sums are taken over them, amounts
  and credit of payments are positive, payments and refunds are different events
  (`LedgerAssumption`, `EntitlementsAssumption`, `AdmissionsAssumption`,
  `PipelineAssumption`, `OutboxAssumption`, `EvidenceAssumption`); what is refunded is more
  than nothing (`ProviderAssumption`); a period has one subscriber and is no grant
  (`EntitlementsAssumption`);
* a page has room for a row (`ReadsAssumption`, `PageAssumption`);
* `None` is no name, no command and no cursor (`NoneAssumption`, `ReadsAssumption`), "no
  session" is no session (`ConnectionAssumption`), "no lease" no token (`SweepsAssumption`);
* jobs and tasks are what validation lets through: rates have bounds that are integers, a
  settlement captures (`JobsAssumption`); a plan gives credit or none, titles of what is
  published are numbers, whose order is that of `offer_key`, an event is about a plan and a
  time or no time (`TasksAssumption`).

**CreditAmountsProofs**: lemmas on `Sum` (its value is a natural, it is additive over
disjoint rows and over amounts, it grows and shrinks with one row) from the
library's facts on cardinality; `GreedyBounds`, no row gives more than it has; and
`GreedyInOrder`, a row gives only when those before it have given all.

**CreditLedgerProofs**: `CoverInvariant` is the inductive invariant `Cover`. It
joins `TypeOK`, `GrantsCoverHolds` and what they rest on: the journal is finite (so
that the next number exists), the allocations of an active hold are neither captured
nor released yet, and those of a hold that does not exist are zero. `GrantsCoverHolds` is
not inductive alone: a capture takes the allocation from the grant and leaves the
set of active holds, and only with the allocation untouched until then do both
change by the same amount. From it follow `TypeCorrect`, `TerminalHoldsAreFinal` (every
action that changes a hold has it active or absent) and, with an induction of its own for
the held amounts, `HoldsAreAlwaysBacked`.

What the sums say needs `Books`: `Cover`, and that the rows of each hold add up to what the
hold says, that nothing is reserved of a grant that is missing or pending, and that only
expired grants have an expiry in the journal. `BooksInvariant`. From it
`AvailableAlwaysIsFreeCredit` (a refresh, a reservation and a capture each move the balance by
what they move of the sum), `LedgerIsNeverCorrupt` (because the balance is that sum, what
expires of it can be subtracted), `LotsAreConserved`, `ReservationsTakeInOrder` and
`DebitsAlwaysAreCaptures` (sources of captures are unique, so entries and holds can be counted
against each other).

`ReadersChangeNothing`: the ledger with its readers implements the ledger, so what is proved of
it holds for readers too. `ReadsInvariant` adds `JournalInOrder` and `ListingsInOrder`. Entries
are numbered 1, 2, ... also when one refresh writes several (`Numbered`); no prefix of the
history is overdrawn (`Solvent`), because what the journal adds up to covers what grants have
left (`Backed`) and no entry takes more than its grant or hold had; and a listing goes down
from its ceiling without a gap to where its cursor stands. An entry is never changed, and a
later one has a higher number, so writes between two pages disturb none of this.
`PagesAlwaysAreTheHistory`, for pages of any size.

**TransactionsProofs**: `Inv` says of each attempt, at each point of `execute`, which locks
it has, that what it has read is still so, and what it has drafted (`Sound`); and that bindings
lead to receipts. The step of an attempt can only disturb another that holds the same lock,
which there is none of (`OneAttempt`). `LocksAlwaysSuffice` follows, and
`EffectsAreAlwaysAnsweredFor`. `ExecuteIsAtomic` is the refinement: the initial states map, a
commit maps to a `Perform` or a `Replay` of the abstract specification, every other step to a
stutter. That a commit performs what is not performed yet is where the invariant is needed.

`ConnectionInv` is about `withTransaction`. The levels the server has open for a transaction
that can still be committed are the calls of its context, each with what it wrote (`Mirrors`):
only so does releasing a savepoint, or rolling back to it, hit the right writes. Of a poisoned
transaction, or one whose session died, nothing of the kind is claimed, and it is not committed.
Contexts do not share sessions (`SessionsApart`), and every write is committed, rolled back or
one call's (`WritesApart`). `TransactionsStayHonest`.

**AdmissionsProofs**: two layers. `CreditInv` is about the credit tables and kept by every
transaction of `Entitlements`: the balances of an account and the period grants nobody credited
(`Unbooked`) add up to what its grants have left, the balances alone to what its journal says, an
active hold has reserved all it requested, a grant that no refund
touched has what active holds reserve of it, and an entry of the journal has its row, so that
none is written twice. That a grant is one nobody credited never changes once it is issued:
grants are issued in the order of their numbers, and a period with a grant is in the journal
(`IssueOK`), so the first grant of a period is the one that was booked and every later one is
not. `StoryInv` is about admissions, receipts and events above it: admission
and hold are in one of four pairs of states, none of which a command leaves that answered.
`DriftIsAlwaysExplained`, `TablesAreTyped`, `AdmissionsAlwaysMatchHolds`,
`ProcessedEventsAlwaysHold`, `ReservationsAreAlwaysBacked`. Not proved is that the batch of a
pass is a sequence of events (part of `TypeOK`): it comes out of a sort.

**LeasesProofs**: `Inv` is `TypeOK`, the CHECKs of the table, and `LeaseIsExclusive`,
event by event. The exclusion is inductive with them: a row is claimable only when its
lease has run out, and belief never outlasts the lease, because both get shorter
together (`TickInv`) and belief is renewed only with the row. `OneEvent` reduces a
step on one event to that event. `OutboxTypeCorrect`, `LeasesAreExclusive`. `ScreensAreTrue`,
a second invariant on top, says that a screen with the generation of a dead row shows its
last dead letter, because a generation never dies twice. `RequeuesAreInformed`.

`SweepsInv` is about the lease in Redis: no two workers have one token (`TokensDiffer`), what a
worker has on its way carries its token and is what it waits for (`SweepsTypeOK`), so a late
`set` or `release` of somebody else meets another token; and the key is that of a worker that
sweeps by it, as long as it did not lapse (`LeasedOwn`). `LeasedSweepsStayAlone`.

**PaymentPipelineProofs**: type correctness, and three inductive invariants on top of it,
one per question.

* `DeadInv` adds `Tokens`: a worker whose token is in a row was given that row's
  count of attempts by its claim. That is what makes the count a worker remembers,
  by which it dead-letters, the count of the row. `DeadLettersAreExhausted`.
* `EffectInv` adds `Progress` (a worker that is about to publish an event has its
  effect in the tables, whoever made it) and `Unheard` (an event that has not
  arrived is nobody's work). Effects are never undone (`EffectsKept`), so `Progress`
  survives the steps of the others. `ProcessedEventsAreDone`.
* `CreditInv` joins `CreditIsPayments`, `ReversalIsProportional` and
  `RefundsWithinPayment`: every sum moves with the one row an action changes
  (`SumMoves`). The heart is `ReverseCredit`, where the share of the new total replaces
  the old one: rounding cancels because the code subtracts what was taken before. The
  division is used only through being the same value on both sides.
  `CreditAlwaysIsPayments`, `ReversalsAreProportional`, `RefundsAreWithinPayment`.

`ProviderInv` is about one sale of `ProviderEvents`. `NoticesOK`: as many notifications tell of
refunds as there were refunds, the k-th, where the adapter tells refunds apart, of the k-th and
its amount, and otherwise all of them of no more than what was refunded by then; a payment is
told only of what was paid. `ReversalsOK`, `SettledOK`, `RenewedOK`: what was recorded is the
fact of a notification, once per reference. That no more is taken back than refunded follows
where references differ because distinct references have distinct refunds, and where they do not
because there is one reference. `PendingOK` comes on top: only a payment at Stripe is ever
pending. What Alipay writes as text is read as the amount it stands for (`TextsAreRead`).
`FactsAlwaysAreTheProviders`.

**MeteringProofs**: `RuntimeInv` is about the process: from its start until the drain has come
to the providers the pool is ready; requests are in handlers only in a process that has
listened; and once a drain without failure is over no client waits for an answer, though
handlers may still run. `MeteringInv` says what a
transaction may rely on between its queries: locks exclude (`LocksExclude`), a new publication
has the lock of its identity and, from its number on, that of the table, and the number stays
the next (`PublishInv`); published rates never overlap and tables only grow (`SelectInv`); from
the end of its hold on a settlement has the lock of the account, and its usage resembles no
other (`SettleInv`). A transaction whose deadline passed or that an error doomed keeps its locks
until it is rolled back, and commits nothing. `PoolAlwaysOutlivesConnections`,
`RevisionsAreAlwaysNumbered`, `SelectionsAreAlwaysSound`, `SettlementsAlwaysMatchHolds`, of the
specification from the start of the process; the run starts some behaviours in a process
that serves already (`MCInit`), to keep it small.

`EvidenceInv`: the accepted evidence is a `Chain`, in which between *any* two revisions, not
only neighbours, what was known stays known (`Knows`, which is transitive, while the code
compares neighbours); and each read (`ReadOK`) is at a point that what it asked for, its
signals and the shutdown allow. `KnowledgeAlwaysGrows`, `ReadsAreAlwaysAccountedFor`.

**CommerceProofs**: `PublishInv` pairs revisions and receipts and gives every receipt that is
being inserted, and every title that is locked, to one client; `ChargeInv` keeps the revision
that priced a quote, in which a feature has one rate; `SessionInv` has the session of a checkout
determined by its key, and a row that has one has this one; `PeriodInv` has journal and grants
be of the same periods. Revisions are never changed, so what is said of a client stays true
while others publish. `PublicationsAlwaysActOnce`, `UsageAlwaysIsChargedAsQuoted`,
`CheckoutsAlwaysHaveOneSession`, `PeriodsAreAlwaysCreditedOnce`, of the specification without
the bounds of the run (`Bound`).

`Listings` is about pages. What a lister has is in the order of its offers, and a plan that was
there when it began has been listed or comes after the last of them (`ListOK`). A page takes the
first of the rows that follow the cursor (`FirstRowsAre`), so what it leaves out comes after
it; a new revision of an offer takes the place of the old one and moves no offer.
`OffersAreAlwaysListedOnce`.

Only model-checked, because the proof system cannot reason about them: the liveness properties;
and the comparison of closed forms with the loops of the code (`GreedyIsTheLoop`,
`QuoteCountsUsageOnce`), which needs induction over the rows the loops go through.


## 7. What is not modelled

* Audit (rows in the caller's transaction that nothing reads back), Redis idempotency hints
  (written, never read), account queries and statistics (single reads), HTTP, validation,
  configuration: no state of their own. Of reconciliation only the account drifts.
* The IAM client: one HTTP call of the form of `UsageEvidence`'s reader.
* Signatures, certificates and decryption of webhooks; the JSON parser of evidence and the
  codec of revisions: data whose detail no property tells apart.
* Operators' reversals, by an amount of credit of their own choice (planned).
* Tenants: every table is keyed by tenant and every query names one, so one
  tenant is modelled.
* Overflow of amounts: the code refuses values beyond the safe integers on entry.
* Expiry of the canonical module's holds: `expires_at` is stored and nothing looks at it, so
  there is no promise to check.
* Generated code, schema tooling and tests.
