------------------------------ MODULE ProviderEvents ------------------------------
(***************************************************************************)
(* The webhook adapters: what Stripe, Alipay and WeChat Pay tell of a sale *)
(* and what facts their notifications become (parseEvent of the three      *)
(* adapters, normalize.ts). The provider (external) sells one checkout and *)
(* notifies every change; the notifications are worked on in any order,    *)
(* any number of times, and a fact is recorded as in PaymentPipeline: by   *)
(* its reference, once, and refunds up to what was paid.                   *)
(***************************************************************************)
EXTENDS CreditAmounts, Sequences

CONSTANTS
  PaidAmount,    \* of the checkout, in minor units
  RefundedParts  \* amounts that may be refunded at a time

ASSUME ProviderAssumption == PaidAmount \in Nat /\ RefundedParts \subseteq Nat \ {0}

VARIABLES
  sale,       \* what was agreed: provider, mode, whose checkout it is
  trade,      \* "open", "pending", "paid", "closed"; a subscription: its status
  refunds,    \* auxiliary: what the provider has refunded, oldest first
  notified,   \* the notifications, in the order in which they were sent
  handled,    \* what became of each: "received", "processed", "ignored", "failed"
  settled,    \* payment_settlement: references and the notifications that told of them
  reversals,  \* payment_reversal: references and amounts
  renewed     \* the notifications whose period was credited

providerVars == <<sale, trade, refunds, notified, handled, settled, reversals, renewed>>

NoReference == "none"

ProviderInit ==
  /\ sale \in [provider : {"stripe"}, mode : {"payment", "subscription"}, hosted : BOOLEAN]
                \cup [provider : {"alipay", "wechat"}, mode : {"payment"}, hosted : BOOLEAN]
  /\ trade = "open"
  /\ refunds = <<>> /\ notified = <<>> /\ handled = <<>>
  /\ settled = {} /\ reversals = {} /\ renewed = {}

-------------------------------------------------------------------------------
(***************************************************************************)
(* Amounts are numbers in minor units, or text in major units.             *)
(***************************************************************************)
\* The number, or the text with none, one or two digits of fraction.
TextsOf(n) ==
  {[whole |-> n \div 100, fraction |-> <<(n \div 10) % 10, n % 10>>]}
    \cup {[whole |-> n \div 100, fraction |-> <<(n \div 10) % 10>>] : z \in {0} \cap {n % 10}}
    \cup {[whole |-> n \div 100, fraction |-> <<>>] : z \in {0} \cap {n % 100}}

Padded(digits) == [i \in 1 .. 2 |-> IF i \in DOMAIN digits THEN digits[i] ELSE 0]

\* minorAmount of a text, 0 for none: no amount is 0.
MinorAmount(text) == 100 * text.whole + 10 * Padded(text.fraction)[1] + Padded(text.fraction)[2]

-------------------------------------------------------------------------------
(***************************************************************************)
(* What a notification becomes: a fact, or nothing to be done.             *)
(***************************************************************************)
Acknowledged == [kind |-> "none", ref |-> NoReference, amount |-> 0, ours |-> FALSE, grants |-> FALSE]

PaymentFact(ref, ours) == [Acknowledged EXCEPT !.kind = "payment", !.ref = ref, !.ours = ours]

RefundFact(ref, amount, ours) ==
  [Acknowledged EXCEPT !.kind = "refund", !.ref = ref, !.amount = amount, !.ours = ours]

\* amount_refunded of a charge.
AmountRefunded(parts) == Sum(DOMAIN parts, parts)

\* Mutant: what all refunds so far come to, as the amount of the last.
RefundFactsTotal(e) == RefundFact(Len(e.refunds), AmountRefunded(e.refunds), e.ours)

\* stripeRefundFacts: the last refund where they are listed, else the charge and its total.
StripeRefundFacts(e) ==
  IF e.listed THEN RefundFact(Len(e.refunds), e.refunds[Len(e.refunds)], e.ours)
  ELSE RefundFact("charge", AmountRefunded(e.refunds), e.ours)

\* mapSubscriptionStatus
SubscriptionStatus(status) ==
  CASE status \in {"active", "trialing"} -> "active"
    [] status \in {"canceled", "incomplete_expired"} -> "canceled"
    [] OTHER -> "past_due"

\* buildSubscriptionEvent: without a team and a plan there is no subscription to tell of.
SubscriptionFact(e) ==
  LET status == IF e.type = "subscription.deleted" THEN "canceled" ELSE SubscriptionStatus(e.status)
  IN  [Acknowledged EXCEPT !.kind = "subscription",
         !.ref = IF e.plan THEN status ELSE NoReference, !.grants = status = "active"]

StripeFact(e) ==
  CASE e.type \in {"session.completed", "session.async_payment_succeeded"} ->
         IF e.mode = "payment" /\ e.paid THEN PaymentFact("intent", e.ours) ELSE Acknowledged
    [] e.type = "charge.refunded" -> StripeRefundFacts(e)
    [] e.type \in {"subscription.updated", "subscription.deleted"} -> SubscriptionFact(e)
    [] OTHER -> Acknowledged

\* A refund is known by the trade; the notification tells its amount as text.
AlipayFact(e) ==
  CASE e.refund # <<>> -> RefundFact("trade", MinorAmount(e.refund[1]), e.ours)
    [] e.refund = <<>> /\ e.type \in {"TRADE_SUCCESS", "TRADE_FINISHED"} -> PaymentFact("trade", e.ours)
    [] OTHER -> Acknowledged

WechatFact(e) ==
  CASE e.type = "TRANSACTION.SUCCESS" -> PaymentFact("transaction", e.ours)
    [] e.type = "REFUND.SUCCESS" -> RefundFact(e.number, e.amount, e.ours)
    [] OTHER -> Acknowledged

Fact(e) == CASE sale.provider = "stripe" -> StripeFact(e)
             [] sale.provider = "alipay" -> AlipayFact(e)
             [] sale.provider = "wechat" -> WechatFact(e)

-------------------------------------------------------------------------------
(***************************************************************************)
(* The provider. A checkout of ours carries its id wherever the provider   *)
(* repeats it; of a subscription it tells neither team nor plan.           *)
(***************************************************************************)
Notifies(sent) ==
  /\ notified' = notified \o sent
  /\ handled' = handled \o [i \in DOMAIN sent |-> "received"]
  /\ UNCHANGED <<sale, settled, reversals, renewed>>

StripeSession(type, paid) == [type |-> type, mode |-> sale.mode, paid |-> paid, ours |-> sale.hosted]

Pays ==
  /\ trade = "open" /\ sale.mode = "payment"
  /\ trade' = "paid"
  /\ CASE sale.provider = "stripe" ->
            Notifies(<<StripeSession("session.completed", TRUE), [type |-> "payment_intent.succeeded"]>>)
       [] sale.provider = "alipay" ->
            Notifies(<<[type |-> "TRADE_SUCCESS", refund |-> <<>>, ours |-> sale.hosted]>>)
       [] sale.provider = "wechat" ->
            Notifies(<<[type |-> "TRANSACTION.SUCCESS", ours |-> sale.hosted]>>)
  /\ UNCHANGED refunds

\* A session that is completed before it is paid for.
CompletesUnpaid ==
  /\ trade = "open" /\ sale.provider = "stripe" /\ sale.mode = "payment"
  /\ trade' = "pending"
  /\ Notifies(<<StripeSession("session.completed", FALSE)>>)
  /\ UNCHANGED refunds

PaysLate ==
  /\ trade = "pending"
  /\ \/ trade' = "paid" /\ Notifies(<<StripeSession("session.async_payment_succeeded", TRUE)>>)
     \/ trade' = "closed" /\ Notifies(<<[type |-> "session.async_payment_failed"]>>)
  /\ UNCHANGED refunds

\* Alipay: a trade that was not paid for, or the end of one that was.
Closes ==
  /\ sale.provider = "alipay" /\ trade \in {"open", "paid"}
  /\ trade' = "closed"
  /\ Notifies(<<[type |-> IF trade = "open" THEN "TRADE_CLOSED" ELSE "TRADE_FINISHED",
                 refund |-> <<>>, ours |-> sale.hosted]>>)
  /\ UNCHANGED refunds

Refund(n) ==
  LET all == Append(refunds, n)
      total == AmountRefunded(all)
  IN  /\ trade = "paid" /\ total <= PaidAmount
      /\ refunds' = all
      /\ \E listed \in BOOLEAN, text \in TextsOf(n) \cup TextsOf(total) :
           CASE sale.provider = "stripe" ->
                  /\ \A i \in DOMAIN notified :
                       notified[i].type = "charge.refunded" => notified[i].listed = listed
                  /\ Notifies(<<[type |-> "charge.refunded", listed |-> listed, refunds |-> all,
                                 ours |-> sale.hosted]>>)
             [] sale.provider = "alipay" ->
                  Notifies(<<[type |-> "TRADE_SUCCESS", refund |-> <<text>>, ours |-> sale.hosted]>>)
             [] sale.provider = "wechat" ->
                  Notifies(<<[type |-> "REFUND.SUCCESS", number |-> Len(all), amount |-> n,
                              ours |-> sale.hosted]>>)
      /\ UNCHANGED trade

Statuses == {"trialing", "active", "past_due", "unpaid", "incomplete_expired", "canceled"}

Renews ==
  /\ sale.mode = "subscription" /\ trade # "canceled" /\ Len(notified) < 2
  /\ \E status \in Statuses :
       /\ trade' = status
       /\ Notifies(<<[type |-> IF status = "canceled" THEN "subscription.deleted"
                               ELSE "subscription.updated",
                      status |-> status, plan |-> ~sale.hosted]>>)
  /\ UNCHANGED refunds

-------------------------------------------------------------------------------
(***************************************************************************)
(* process: the fact is recorded, or the event fails and is tried again.   *)
(***************************************************************************)
Becomes(i, status) == handled' = [handled EXCEPT ![i] = status]

Settleable(i, fact) == fact.ours /\ \A s \in settled : s.ref = fact.ref => s.by = i

AmountReversed(rows) == Sum(rows, [r \in rows |-> r.amount])

\* The same reference has the same amount; refunds come to no more than was paid.
Reversible(fact) ==
  LET others == {r \in reversals : r.ref # fact.ref}
  IN  /\ fact.ours /\ settled # {}
      /\ \A r \in reversals \ others : r.amount = fact.amount
      /\ fact.amount + AmountReversed(others) <= PaidAmount

HandlePayment(i, fact) ==
  /\ fact.kind = "payment"
  /\ IF Settleable(i, fact)
     THEN settled' = settled \cup {[ref |-> fact.ref, by |-> i]} /\ Becomes(i, "processed")
     ELSE Becomes(i, "failed") /\ UNCHANGED settled
  /\ UNCHANGED <<reversals, renewed>>

HandleRefund(i, fact) ==
  /\ fact.kind = "refund"
  /\ IF Reversible(fact)
     THEN /\ reversals' = reversals \cup {[ref |-> fact.ref, amount |-> fact.amount]}
          /\ Becomes(i, "processed")
     ELSE Becomes(i, "failed") /\ UNCHANGED reversals
  /\ UNCHANGED <<settled, renewed>>

HandleSubscription(i, fact) ==
  /\ fact.kind = "subscription"
  /\ Becomes(i, IF fact.ref = NoReference THEN "failed" ELSE "processed")
  /\ renewed' = IF fact.ref # NoReference /\ fact.grants THEN renewed \cup {i} ELSE renewed
  /\ UNCHANGED <<settled, reversals>>

\* A failed event may be tried again.
HandleEvent(i) ==
  LET fact == Fact(notified[i])
  IN  /\ handled[i] \in {"received", "failed"}
      /\ \/ HandlePayment(i, fact) \/ HandleRefund(i, fact) \/ HandleSubscription(i, fact)
         \/ /\ fact.kind = "none" /\ Becomes(i, "ignored")
            /\ UNCHANGED <<settled, reversals, renewed>>
      /\ UNCHANGED <<sale, trade, refunds, notified>>

ProviderStep ==
  \/ Pays \/ CompletesUnpaid \/ PaysLate \/ Closes \/ Renews
  \/ \E n \in RefundedParts : Refund(n)
  \/ \E i \in DOMAIN notified : HandleEvent(i)

ProviderSpec == ProviderInit /\ [][ProviderStep]_providerVars

-------------------------------------------------------------------------------
\* The provider tells its refunds apart: Alipay does not, nor Stripe without a list.
ToldApart(i) ==
  \/ sale.provider = "wechat"
  \/ sale.provider = "stripe" /\ notified[i].listed

RefundTold(i) == Cardinality({k \in 1 .. i : Fact(notified[k]).kind = "refund"})

(***************************************************************************)
(* Whatever is delivered late, again or out of order: what was not paid    *)
(* for or is a subscription settles nothing, a payment is settled once,    *)
(* never more is taken back than the provider refunded, and exactly each   *)
(* refund's amount where the provider tells its refunds apart; of a        *)
(* subscription only periods in which it ran are credited.                 *)
(***************************************************************************)
FactsAreTheProviders ==
  /\ settled # {} => sale.mode = "payment" /\ sale.hosted /\ trade \in {"paid", "closed"}
  /\ Cardinality(settled) <= 1
  /\ AmountReversed(reversals) <= AmountRefunded(refunds)
  /\ \A i \in DOMAIN notified :
       /\ (handled[i] = "processed" /\ Fact(notified[i]).kind = "refund" /\ ToldApart(i)) =>
            [ref |-> RefundTold(i), amount |-> refunds[RefundTold(i)]] \in reversals
       /\ i \in renewed => notified[i].status \in {"active", "trialing"}
===============================================================================
