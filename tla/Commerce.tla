-------------------------------- MODULE Commerce --------------------------------
(***************************************************************************)
(* Checkouts and Subscriptions over the Catalog they share: clients with   *)
(* tasks of all kinds, the clock, and the requests that are on their way   *)
(* to the provider.                                                        *)
(***************************************************************************)
EXTENDS Checkouts, Subscriptions

vars == <<catalogVars, checkoutVars, subscriptionVars>>

Init == CatalogInit /\ CheckoutsInit /\ SubscriptionsInit

Next ==
  \/ /\ Tick \/ \E c \in Clients : CatalogStep(c)
     /\ UNCHANGED <<checkoutVars, subscriptionVars>>
  \/ /\ \E c \in Clients : CheckoutStep(c)
     /\ UNCHANGED subscriptionVars
  \/ /\ \E q \in asked : OpenSession(q)
     /\ UNCHANGED subscriptionVars
  \/ /\ \E c \in Clients : SubscriptionStep(c)
     /\ UNCHANGED checkoutVars

Spec == Init /\ [][Next]_vars
===============================================================================
