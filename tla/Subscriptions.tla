----------------------------- MODULE Subscriptions -----------------------------
(***************************************************************************)
(* Subscription events (processSubscription of provider-event-processor.ts *)
(* and subscription-grant-service.ts), each one transaction as in          *)
(* PaymentPipeline, in whatever order they are worked on. What a period is *)
(* credited is what the plan gives when its event is worked on. One        *)
(* subscription of one subject at one provider account.                    *)
(***************************************************************************)
EXTENDS Catalog

Amounts == INSTANCE CreditAmounts

VARIABLES
  standing,  \* payment_provider_subscription.status
  period,    \* payment_subscription_period and entitlement_subscription_term
  granted,   \* entitlement_credit_grant of subscription periods
  credited,  \* entitlement_credit_journal of subscription periods, in order
  credit     \* available_micros of the account

subscriptionVars == <<standing, period, granted, credited, credit>>

NoTerm == [open |-> FALSE, status |-> "none", title |-> 0, credit |-> 0]

SubscriptionsInit ==
  /\ standing = "none"
  /\ period = [p \in 1 .. MaxTime |-> NoTerm]
  /\ granted = {} /\ credited = <<>> /\ credit = 0

NoPeriod == 0   \* the event tells no period; otherwise the period ends at that time

\* The plan that an event names: a revision of it, or the newest of an offer.
PlanOf(c) ==
  {v \in RevisionsOf(task[c].title) :
     IF task[c].number = 0 THEN v \in Newest ELSE v.number = task[c].number}

\* Mutant: the journal is not searched for the period.
JournaledNever(p) == FALSE

Journaled(p) == \E i \in DOMAIN credited : credited[i].period = p

(***************************************************************************)
(* grant: the grant is found or made by period and plan, and has to be     *)
(* what is asked for; the journal and the account follow when the journal  *)
(* has nothing of the period. The insert into the journal is without       *)
(* effect on what has the same period, the account is added to regardless. *)
(***************************************************************************)
GrantPeriod(p, title, micros) ==
  LET grants == {g \in granted : g.period = p /\ g.title = title}
  IN  /\ p > now
      /\ \A g \in grants : g.credit = micros
      /\ granted' = granted \cup {[period |-> p, title |-> title, credit |-> micros]}
      /\ IF Journaled(p) THEN UNCHANGED <<credited, credit>>
         ELSE /\ credited' = IF \E i \in DOMAIN credited : credited[i].period = p THEN credited
                             ELSE Append(credited, [period |-> p, credit |-> micros])
              /\ credit' = credit + micros

\* The plan of a term stays the one that it began with.
Term(c, v) ==
  LET term == period[task[c].period]
  IN  [open |-> task[c].status = "active", status |-> task[c].status,
       title |-> IF term = NoTerm THEN v.title ELSE term.title, credit |-> v.content.credit]

\* A cancellation that tells no period needs no plan, and may come before the subscription.
Cancel(c) ==
  /\ Does(c, "event", "start")
  /\ task[c].status = "canceled" /\ task[c].period = NoPeriod
  /\ standing' = IF standing = "none" THEN "none" ELSE "canceled"
  /\ GoesOn(c, "done")
  /\ UNCHANGED <<now, task, revision, receipt, period, granted, credited, credit>>

\* The plan is read before anything is locked.
ReadPlan(c) ==
  /\ Does(c, "event", "start")
  /\ task[c].period = NoPeriod => task[c].status # "canceled" /\ ~task[c].grants
  /\ \E v \in PlanOf(c) : call' = [call EXCEPT ![c].at = "plan", ![c].number = v.number]
  /\ UNCHANGED <<now, task, revision, receipt, subscriptionVars>>

\* Subscription, period, term and grant; the event is then processed for good.
ProcessSubscription(c) ==
  /\ Does(c, "event", "plan")
  /\ standing' = task[c].status
  /\ \E v \in RevisionsOf(task[c].title) :
       /\ v.number = call[c].number
       /\ IF task[c].period = NoPeriod THEN UNCHANGED <<period, granted, credited, credit>>
          ELSE /\ period' = [period EXCEPT ![task[c].period] = Term(c, v)]
               /\ IF task[c].grants /\ v.content.credit > 0
                  THEN GrantPeriod(task[c].period, v.title, v.content.credit)
                  ELSE UNCHANGED <<granted, credited, credit>>
  /\ GoesOn(c, "done")
  /\ UNCHANGED <<now, task, revision, receipt>>

SubscriptionStep(c) == Cancel(c) \/ ReadPlan(c) \/ ProcessSubscription(c)

-------------------------------------------------------------------------------
AllCredited == Amounts!Sum(DOMAIN credited, [i \in DOMAIN credited |-> credited[i].credit])

(***************************************************************************)
(* A period is credited once, whichever and however many of its events are *)
(* worked on, while plans are published: the journal has one entry of each *)
(* period at most, for a grant of that period, the account has what the    *)
(* journal says, and a period without credit was never granted.            *)
(***************************************************************************)
PeriodsAreCreditedOnce ==
  /\ IsInjective([i \in DOMAIN credited |-> credited[i].period])
  /\ \A i \in DOMAIN credited : \E g \in granted :
       g.period = credited[i].period /\ g.credit = credited[i].credit
  /\ credit = AllCredited
  /\ \A g \in granted : \E i \in DOMAIN credited : credited[i].period = g.period
===============================================================================
