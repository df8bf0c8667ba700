------------------------------- MODULE Checkouts -------------------------------
(***************************************************************************)
(* Checkouts of the plans of Catalog (checkout-service.ts) and their       *)
(* hosted payment sessions (stripe-checkout-provider.ts). The provider is  *)
(* asked while the transaction holds the row of the checkout; it may open  *)
(* the session after the caller has given up, and it knows a request it    *)
(* has seen before by its idempotency key (external).                      *)
(***************************************************************************)
EXTENDS Catalog

VARIABLES
  checkout,  \* payment_checkout; hosted is what provider_session_id and checkout_url are
  asked,     \* requests on their way to the provider
  session    \* the provider's sessions, by idempotency key (external)

checkoutVars == <<checkout, asked, session>>

CheckoutsInit == checkout = {} /\ asked = {} /\ session = {}

-------------------------------------------------------------------------------
(***************************************************************************)
(* create: under the unique key of the checkout, for what the revision     *)
(* says it costs. What exists is replayed although its revision is no      *)
(* longer the newest, or its time is over.                                 *)
(***************************************************************************)
CheckoutsOf(c) == {k \in checkout : k.key = task[c].key}

IsCheckoutOf(k, c) == k.title = task[c].title /\ k.number = task[c].number
                      /\ k.content = task[c].content

Sellable(c) ==
  \E v \in RevisionsOf(task[c].title) : v.number = task[c].number /\ v.content = task[c].content

CreateCheckout(c) ==
  /\ Does(c, "buy", "start")
  /\ \/ /\ CheckoutsOf(c) = {} /\ Sellable(c) /\ task[c].expires > now
        /\ checkout' = checkout \cup
             {[key |-> task[c].key, title |-> task[c].title, number |-> task[c].number,
               content |-> task[c].content, expires |-> task[c].expires, hosted |-> {}]}
     \/ /\ \E k \in CheckoutsOf(c) : IsCheckoutOf(k, c)
        /\ UNCHANGED checkout
  /\ GoesOn(c, "created") \/ UNCHANGED call
  /\ UNCHANGED <<now, task, revision, receipt, asked, session>>

-------------------------------------------------------------------------------
(***************************************************************************)
(* createHostedSession: FOR UPDATE, the provider, UPDATE, COMMIT.          *)
(***************************************************************************)
LockCheckout(c) ==
  /\ Does(c, "buy", "created")
  /\ ~\E d \in Clients : task[d].kind = "buy" /\ call[d].at = "asking" /\ task[d].key = task[c].key
  /\ \E k \in CheckoutsOf(c) :
       \/ k.hosted # {} /\ Answers(c, k.hosted) /\ UNCHANGED asked
       \/ /\ k.hosted = {} /\ k.expires > now
          /\ GoesOn(c, "asking")
          /\ asked' = asked \cup {[key |-> k.key, by |-> c]}
  /\ UNCHANGED <<now, task, revision, receipt, checkout, session>>

\* Mutant: each request has an idempotency key of its own.
IdempotencyKeyPerRequest(q) == q

IdempotencyKey(q) == [key |-> q.key]

\* A request reaches the provider, perhaps when nobody waits for the answer.
OpenSession(q) ==
  /\ q \in asked
  /\ session' = session \cup {[checkout |-> q.key, id |-> IdempotencyKey(q)]}
  /\ UNCHANGED <<catalogVars, checkout, asked>>

SessionsFor(c) ==
  {s \in session : s.checkout = task[c].key
                   /\ s.id = IdempotencyKey([key |-> task[c].key, by |-> c])}

\* The answer of the provider arrives; COMMIT's own answer may be lost.
SaveSession(c) ==
  /\ Does(c, "buy", "asking")
  /\ \E s \in SessionsFor(c) :
       /\ checkout' = {IF k.key = task[c].key THEN [k EXCEPT !.hosted = {s.id}] ELSE k :
                         k \in checkout}
       /\ Answers(c, {s.id}) \/ GoesOn(c, "created")
  /\ UNCHANGED <<now, task, revision, receipt, asked, session>>

CheckoutStep(c) == CreateCheckout(c) \/ LockCheckout(c) \/ SaveSession(c)

-------------------------------------------------------------------------------
(***************************************************************************)
(* A checkout leads to one payment: although requests to the provider time *)
(* out, are repeated or arrive late, the provider has one session for it   *)
(* at most, and whoever was given a session was given the one in the row.  *)
(***************************************************************************)
OneSessionPerCheckout ==
  /\ \A k \in checkout : Cardinality({s \in session : s.checkout = k.key}) <= 1
  /\ \A c \in Clients : task[c].kind = "buy" =>
       \A id \in call[c].answer : \E k \in CheckoutsOf(c) : k.hosted = {id}
===============================================================================
