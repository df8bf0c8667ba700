----------------------------- MODULE PaymentPipeline -----------------------------
(***************************************************************************)
(* Payments and refunds, from the provider's event to credit: the inbox,   *)
(* the rows of payment_outbox that worker processes claim one at a time    *)
(* (OutboxWorker.processOnce), and the processor of provider events, which *)
(* works on one event in one transaction (ProviderEventProcessor.process   *)
(* under withTransaction): the settlement or reversal, the credit it buys  *)
(* or takes back and the event's own status are committed together.        *)
(*                                                                         *)
(* The transactions of one event follow one another, since each begins by  *)
(* updating the event's row; those of one payment do, since a settlement   *)
(* is found by its unique reference and a refund locks it. So each is one  *)
(* action. Only the first look at the event's status is a step of its own: *)
(* it takes no lock. A transaction that fails is rolled back whole, with   *)
(* the note of the failure that markFailed wrote in it: all that is left   *)
(* of a failure is how the worker goes on from there (Fail). Any step may  *)
(* fail, whether it is refused, cannot find what it needs, or loses its    *)
(* connection, and a transaction may also commit and the worker never hear *)
(* of it.                                                                  *)
(*                                                                         *)
(* The token of a claim is the worker's name: a worker has one event at a  *)
(* time, and a new claim replaces the token it may have left in the row.   *)
(* leaseLost is left out: once the token of a worker is gone from the row  *)
(* it never comes back, and every statement that leaseLost would skip      *)
(* compares the token anyway. lease_until is left out too: a worker that   *)
(* stalls, or whose renewals fail, loses its lease at any time, so every   *)
(* live row may be claimed, and only the token tells the claims apart. The *)
(* rows that settlements and reversals add to the outboxes are of types    *)
(* that this worker does not claim.                                        *)
(***************************************************************************)
EXTENDS CreditAmounts

CONSTANTS
  Payments,      \* external payment references, each of one checkout
  PaymentEvents, \* events that report a payment
  RefundEvents,  \* events that report a refund, each of its own reference
  payment,       \* the payment an event is about
  Workers,
  PaidMinor,     \* amount of every payment, in minor units
  RefundAmounts, \* amounts that refund events report
  Credit,        \* credit that a payment buys, in micros
  MaxAttempts,   \* BILLING_OUTBOX_MAX_ATTEMPTS; attempts is not counted beyond
  MaxResets,     \* bound on administrators' retries
  MaxSpent,      \* bound on what usage takes from a grant
  None

Events == PaymentEvents \cup RefundEvents

ASSUME PipelineAssumption ==
  /\ IsFiniteSet(Payments) /\ IsFiniteSet(RefundEvents)
  /\ PaymentEvents \cap RefundEvents = {}
  /\ payment \in [Events -> Payments]
  /\ PaidMinor \in Nat \ {0} /\ RefundAmounts \subseteq 1 .. PaidMinor
  /\ Credit \in Nat \ {0}
  /\ MaxAttempts \in Nat \ {0} /\ MaxResets \in Nat /\ MaxSpent \in Nat
  /\ None \notin Workers \cup Events

VARIABLES
  inbox,      \* payment_provider_event.processing_status
  amount,     \* what the payload of a refund event says, in minor units
  row,        \* payment_outbox, the row of each event
  job,        \* what each worker is doing
  settlement, \* payment_settlement: the event that recorded a payment
  granted,    \* the payments that are fulfilled
  remaining,  \* remaining_micros of the grant of a payment
  reversal,   \* payment_reversal: the refunds recorded
  reversed,   \* amount_micros of entitlement_fulfillment_reversal
  available,  \* available_micros of the account
  spent,      \* auxiliary: what usage took from the grant of a payment
  resets      \* auxiliary: administrators' retries

money == <<settlement, granted, remaining, reversal, reversed, available, spent>>
vars == <<inbox, amount, row, job, money, resets>>

Attempts == 0 .. MaxAttempts

NoRow == [state |-> "absent", holder |-> None, attempts |-> 0]

Rows == [state : {"absent", "live", "published", "dead"}, holder : Workers \cup {None},
         attempts : Attempts]

Idle == [event |-> None, step |-> "idle", attempt |-> 0]

Jobs == {Idle} \cup
  [event : Events, attempt : Attempts,
   step : {"read", "process", "publish", "giveUp"}]

\* The types; a row that has left the outbox is nobody's.
TypeOK ==
  /\ inbox \in [Events -> {"absent", "received", "processed"}]
  /\ amount \in [RefundEvents -> 0 .. PaidMinor]
  /\ row \in [Events -> Rows]
  /\ job \in [Workers -> Jobs]
  /\ settlement \in [Payments -> PaymentEvents \cup {None}]
  /\ granted \subseteq Payments
  /\ remaining \in [Payments -> 0 .. Credit]
  /\ reversal \subseteq RefundEvents
  /\ reversed \in [RefundEvents -> 0 .. Credit]
  /\ available \in Nat
  /\ spent \in [Payments -> Nat]
  /\ resets \in 0 .. MaxResets
  /\ \A e \in Events : row[e].holder # None => row[e].state = "live"

Init ==
  /\ inbox = [e \in Events |-> "absent"]
  /\ amount = [r \in RefundEvents |-> 0]
  /\ row = [e \in Events |-> NoRow]
  /\ job = [w \in Workers |-> Idle]
  /\ settlement = [p \in Payments |-> None]
  /\ granted = {}
  /\ remaining = [p \in Payments |-> 0]
  /\ reversal = {}
  /\ reversed = [r \in RefundEvents |-> 0]
  /\ available = 0
  /\ spent = [p \in Payments |-> 0]
  /\ resets = 0

-------------------------------------------------------------------------------
(***************************************************************************)
(* The inbox: an event enters it once, however often it is delivered.      *)
(***************************************************************************)
BegunAnew == [NoRow EXCEPT !.state = "live"]

Accept(e) ==
  /\ inbox[e] = "absent"
  /\ inbox' = [inbox EXCEPT ![e] = "received"]
  /\ \/ e \in PaymentEvents /\ UNCHANGED amount
     \/ e \in RefundEvents /\ \E n \in RefundAmounts : amount' = [amount EXCEPT ![e] = n]
  /\ row' = [row EXCEPT ![e] = BegunAnew]
  /\ UNCHANGED <<job, money, resets>>

\* Mutant: the lease is left to the worker that has it.
ResetKeepingLease(e) == [row[e] EXCEPT !.state = "live", !.attempts = 0]

\* The upsert of an administrator's retry takes the lease away from whoever has it.
Reset(e) == BegunAnew

\* A status of failed would do as well; nothing commits one.
AdminRetry(e) ==
  /\ inbox[e] = "received"
  /\ resets < MaxResets
  /\ row' = [row EXCEPT ![e] = Reset(e)]
  /\ resets' = resets + 1
  /\ UNCHANGED <<inbox, amount, job, money>>

-------------------------------------------------------------------------------
(***************************************************************************)
(* The claim. next_attempt_at only puts it off and is left out.            *)
(***************************************************************************)
NextAttempt(e) ==
  IF row[e].attempts < MaxAttempts THEN row[e].attempts + 1 ELSE MaxAttempts

Claim(w, e) ==
  /\ job[w] = Idle
  /\ row[e].state = "live"
  /\ row' = [row EXCEPT ![e] = [state |-> "live", holder |-> w,
                                attempts |-> NextAttempt(e)]]
  /\ job' = [job EXCEPT ![w] = [event |-> e, step |-> "read", attempt |-> NextAttempt(e)]]
  /\ UNCHANGED <<inbox, amount, money, resets>>

\* The row still has the token of this worker's claim.
Owns(w) ==
  /\ job[w] # Idle
  /\ row[job[w].event].state = "live"
  /\ row[job[w].event].holder = w

\* The process dies; it comes back without a job.
Crash(w) ==
  /\ job[w] # Idle
  /\ job' = [job EXCEPT ![w] = Idle]
  /\ UNCHANGED <<inbox, amount, row, money, resets>>

-------------------------------------------------------------------------------
(***************************************************************************)
(* The processor: a look at the event, then its transaction.               *)
(***************************************************************************)
GoTo(w, step) == job' = [job EXCEPT ![w] = [@ EXCEPT !.step = step]]

NeedsNothing(e) == inbox[e] = "processed"

Read(w) ==
  /\ job[w].step = "read"
  /\ GoTo(w, IF NeedsNothing(job[w].event) THEN "publish" ELSE "process")
  /\ UNCHANGED <<inbox, amount, row, money, resets>>

\* Mutant: another event of the payment takes its settlement over.
RecordableByAll(e) == TRUE

\* The event that recorded the payment is replayed, another one is refused.
Recordable(e) == settlement[payment[e]] \in {None, e}

(***************************************************************************)
(* recordSettlement: the settlement's name and the receipt come from the   *)
(* event, the payment reference is unique.                                 *)
(***************************************************************************)
RecordSettlement(e) ==
  /\ Recordable(e)
  /\ settlement' = [settlement EXCEPT ![payment[e]] = e]

\* Mutant: what was fulfilled before is not looked up.
FulfilledNever(p) == FALSE

Fulfilled(p) == p \in granted

\* fulfillSettlement, under the lock of the settlement.
FulfillSettlement(p) ==
  \/ Fulfilled(p) /\ UNCHANGED <<granted, remaining, available>>
  \/ /\ ~Fulfilled(p)
     /\ granted' = granted \cup {p}
     /\ remaining' = [remaining EXCEPT ![p] = Credit]
     /\ available' = available + Credit

RefundsOf(p) == {r \in RefundEvents : payment[r] = p}

\* What the recorded refunds of the payment and this one add up to was paid.
WithinPayment(r) ==
  Sum((RefundsOf(payment[r]) \cap reversal) \ {r}, amount) + amount[r] <= PaidMinor

\* recordReversal; the processor has found settlement and grant before.
RecordReversal(r) ==
  /\ payment[r] \in granted
  /\ r \in reversal \/ WithinPayment(r)
  /\ reversal' = reversal \cup {r}

\* n divided by PaidMinor, rounded up.
OfPaid(n) == (n + PaidMinor - 1) \div PaidMinor

TakenBack(p) == {r \in RefundsOf(p) : reversed[r] > 0}

\* Mutant: each refund is rounded up on its own.
ShareAlone(r) == OfPaid(Credit * amount[r])

(***************************************************************************)
(* The credit a refund takes back: the share of all refunds so far,        *)
(* rounded up, without what the earlier ones took.                         *)
(***************************************************************************)
Share(r) ==
  LET before == TakenBack(payment[r]) \ {r}
  IN  OfPaid(Credit * (Sum(before, amount) + amount[r])) - Sum(before, reversed)

Covered(r) == Share(r) <= remaining[payment[r]] /\ Share(r) <= available

Reversed(r) == reversed[r] > 0

\* reverseCredits, under the locks of the reversal, the grant and the account.
ReverseCredits(r) ==
  \/ Reversed(r) /\ UNCHANGED <<reversed, remaining, available>>
  \/ /\ ~Reversed(r)
     /\ Share(r) > 0
     /\ Covered(r)
     /\ reversed' = [reversed EXCEPT ![r] = Share(r)]
     /\ remaining' = [remaining EXCEPT ![payment[r]] = @ - Share(r)]
     /\ available' = available - Share(r)

\* markProcessed, and COMMIT: its answer may be lost.
Commits(w) ==
  /\ inbox' = [inbox EXCEPT ![job[w].event] = "processed"]
  /\ GoTo(w, "publish") \/ GoTo(w, "giveUp")

ProcessPayment(w) ==
  LET e == job[w].event
  IN  /\ job[w].step = "process" /\ e \in PaymentEvents
      /\ RecordSettlement(e)
      /\ FulfillSettlement(payment[e])
      /\ Commits(w)
      /\ UNCHANGED <<amount, row, reversal, reversed, spent, resets>>

ProcessRefund(w) ==
  LET r == job[w].event
  IN  /\ job[w].step = "process" /\ r \in RefundEvents
      /\ RecordReversal(r)
      /\ ReverseCredits(r)
      /\ Commits(w)
      /\ UNCHANGED <<amount, row, settlement, granted, spent, resets>>

\* A step fails; nothing of it stays.
Fail(w) ==
  /\ job[w].step \in {"read", "process", "publish"}
  /\ GoTo(w, "giveUp")
  /\ UNCHANGED <<inbox, amount, row, money, resets>>

-------------------------------------------------------------------------------
(***************************************************************************)
(* processOnce reports the outcome, with effect only through its token.    *)
(***************************************************************************)
Ended(e, state) == [row[e] EXCEPT !.state = state, !.holder = None]

Report(w, state) ==
  /\ \/ Owns(w) /\ row' = [row EXCEPT ![job[w].event] = Ended(job[w].event, state)]
     \/ ~Owns(w) /\ UNCHANGED row
  /\ job' = [job EXCEPT ![w] = Idle]
  /\ UNCHANGED <<inbox, amount, money, resets>>

Publish(w) == job[w].step = "publish" /\ Report(w, "published")

\* Given up for good after MaxAttempts claims, for another claim before.
GiveUp(w) ==
  /\ job[w].step = "giveUp"
  /\ Report(w, IF job[w].attempt >= MaxAttempts THEN "dead" ELSE "live")

\* Usage takes a unit of credit from a grant, and from the account.
Spend(p) ==
  /\ spent[p] < MaxSpent
  /\ remaining[p] > 0 /\ available > 0
  /\ remaining' = [remaining EXCEPT ![p] = @ - 1]
  /\ available' = available - 1
  /\ spent' = [spent EXCEPT ![p] = @ + 1]
  /\ UNCHANGED <<inbox, amount, row, job, settlement, granted, reversal, reversed, resets>>

Proceed(w) == Read(w) \/ ProcessPayment(w) \/ ProcessRefund(w)

Next ==
  \/ \E e \in Events : Accept(e) \/ AdminRetry(e)
  \/ \E w \in Workers :
       \/ \E e \in Events : Claim(w, e)
       \/ Crash(w) \/ Proceed(w) \/ Fail(w) \/ Publish(w) \/ GiveUp(w)
  \/ \E p \in Payments : Spend(p)

Spec == Init /\ [][Next]_vars

-------------------------------------------------------------------------------
(***************************************************************************)
(* However often an event is delivered, claimed, interrupted or retried,   *)
(* its payment is credited once and each refund taken back once: the grant *)
(* has what was paid for, less usage and refunds, and the account has what *)
(* its grants have.                                                        *)
(***************************************************************************)
CreditIsPayments ==
  /\ \A p \in Payments :
       remaining[p] + spent[p] + Sum(RefundsOf(p), reversed) =
         IF p \in granted THEN Credit ELSE 0
  /\ available = Sum(Payments, remaining)

(***************************************************************************)
(* The refunds taken back of a payment took the share of credit of their   *)
(* total, rounded up once: in whatever order they are processed, by        *)
(* whichever workers, rounding never adds up.                              *)
(***************************************************************************)
ReversalIsProportional ==
  \A p \in Payments :
    Sum(TakenBack(p), reversed) = OfPaid(Credit * Sum(TakenBack(p), amount))

\* Refunds that were accepted one by one never exceed the payment together.
RefundsWithinPayment ==
  \A p \in Payments : Sum(RefundsOf(p) \cap reversal, amount) <= PaidMinor

Done(e) ==
  \/ e \in PaymentEvents /\ settlement[payment[e]] = e /\ payment[e] \in granted
  \/ e \in RefundEvents /\ e \in reversal /\ reversed[e] > 0

(***************************************************************************)
(* An event that the inbox calls processed, or that has left the outbox as *)
(* published, had its effect on the credit, whoever worked on it.          *)
(***************************************************************************)
ProcessedIsDone ==
  \A e \in Events : inbox[e] = "processed" \/ row[e].state = "published" => Done(e)

(***************************************************************************)
(* An event is dead-lettered only after its own MaxAttempts: a worker that *)
(* was at work when an administrator started the event anew cannot give up *)
(* the new try.                                                            *)
(***************************************************************************)
DeadIsExhausted ==
  \A e \in Events : row[e].state = "dead" => row[e].attempts >= MaxAttempts

(***************************************************************************)
(* docs/RELIABILITY.md: an event whose attempts reach the limit is         *)
(* dead-lettered, so that no event is claimed more often than that.        *)
(***************************************************************************)
AttemptsAreLimited ==
  [][\A w \in Workers, e \in Events : Claim(w, e) => row[e].attempts < MaxAttempts]_vars
===============================================================================
