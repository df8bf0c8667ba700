------------------------------- MODULE MCCommerce -------------------------------
(***************************************************************************)
(* A small instance of Commerce for TLC. Each behaviour has one cast of    *)
(* clients.                                                                *)
(***************************************************************************)
EXTENDS Commerce

Plan(micros) == [amount |-> 1, credit |-> micros]
Rate(feature, price) == [feature |-> feature, input |-> price, output |-> 1, reservation |-> 1]

Publish(key, title, content, effective) ==
  [kind |-> "publish", key |-> key, title |-> title, content |-> content, effective |-> effective]

PublishPlan(key, offer, micros) == Publish(key, offer, Plan(micros), 0)
PublishPrices(key, price, effective) == Publish(key, Tariff, {Rate("chat", price)}, effective)

Unsound == {Publish("k9", Tariff, rates, 0) :
              rates \in {{}, {[Rate("chat", 1) EXCEPT !.reservation = 0]},
                         {Rate("chat", 1), Rate("chat", 2)}}}

List == [kind |-> "list"]
Use == [kind |-> "use", feature |-> "chat", tokens |-> [input |-> 1, output |-> 1]]

Buy(key, expires) ==
  [kind |-> "buy", key |-> key, title |-> 1, number |-> 1, content |-> Plan(1), expires |-> expires]

Event(status, p, grants, number) ==
  [kind |-> "event", title |-> 1, number |-> number, status |-> status, period |-> p,
   grants |-> grants]

Renewals == {Event("active", p, TRUE, n) : p \in {1, 2}, n \in {0, 1}}
              \cup {[Event("active", 2, TRUE, 0) EXCEPT !.title = 2]}
Changes == {Event("past_due", 2, FALSE, 0), Event("past_due", NoPeriod, FALSE, 0),
            Event("active", NoPeriod, TRUE, 0), Event("canceled", NoPeriod, FALSE, 0),
            Event("canceled", 2, FALSE, 0)}

FirstPlan == {PublishPlan("k1", 1, 1)}
OtherPlans == {PublishPlan("k2", 1, 2), PublishPlan("k1", 1, 1), PublishPlan("k1", 2, 1),
               PublishPlan("k3", 2, 0)}
Prices == {PublishPrices("k1", 1, e) : e \in {0, 1}}
OtherPrices == {PublishPrices("k2", 2, e) : e \in {0, 1}} \cup Unsound

\* Who is about what.
Casts == (FirstPlan \X OtherPlans \X OtherPlans \X {List})
           \cup (FirstPlan \X OtherPlans \X {Buy("b1", 2)} \X {Buy("b1", 2), Buy("b1", 1), Buy("b2", 2)})
           \cup (FirstPlan \X OtherPlans \X Renewals \X (Renewals \cup Changes))
           \cup (Prices \X OtherPrices \X {Use} \X {Use})

MCTasks == UNION {{cast[c] : c \in Clients} : cast \in Casts}

MCInit == Init /\ task \in Casts

\* The bound: time is of no account where plans are only listed.
Bound == now' # now => \E c \in Clients : task[c].kind # "list"

MCSpec == MCInit /\ [][Next /\ Bound]_vars
===============================================================================
