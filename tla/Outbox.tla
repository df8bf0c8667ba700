--------------------------------- MODULE Outbox ---------------------------------
(***************************************************************************)
(* The events of billing_outbox, as database/outbox.repository.ts leases   *)
(* them to workers, and as administrators requeue those given up.          *)
(*                                                                         *)
(* Every action is one transaction, a single statement on the row after    *)
(* its lock. Only differences of times matter, so the clock is what is     *)
(* left: of a lease, and of the delay before the next attempt. Workers     *)
(* are processes outside the repository; one works on a batch until it     *)
(* claims the next one, knows of its lease what claim and renew told it,   *)
(* and may repeat a call whose answer was lost. The token of a claim is    *)
(* the worker's name: a claim replaces the tokens of the rows it takes,    *)
(* and a worker that claims forgets the rows it had.                       *)
(***************************************************************************)
EXTENDS Naturals, FiniteSets

CONSTANTS
  Events,        \* events of one tenant, namespace and type
  Workers,
  Admins,
  LeaseSpan,     \* leaseMs, in ticks
  MaxDelay,      \* bound on delayMs, in ticks
  Limit,         \* rows of one claim
  MaxAttempts,   \* attempts is not counted beyond this
  MaxGeneration, \* bound on requeues of one event
  None

ASSUME OutboxAssumption ==
  /\ LeaseSpan \in Nat \ {0} /\ MaxDelay \in Nat /\ Limit \in Nat \ {0}
  /\ MaxAttempts \in Nat /\ MaxGeneration \in Nat
  /\ None \notin Workers \cup Events

VARIABLES
  row,     \* billing_outbox
  fence,   \* the rows each worker holds a fence for
  belief,  \* how long a worker still counts on its lease of an event
  screen,  \* the dead-lettered event an administrator looks at
  deaths   \* auxiliary: how often an event was dead-lettered

vars == <<row, fence, belief, screen, deaths>>

Rows == [state : {"absent", "live", "completed", "dead"},
         holder : Workers \cup {None}, left : 0 .. LeaseSpan,
         delay : 0 .. MaxDelay, attempts : 0 .. MaxAttempts,
         error : {"none", "failed", "retired"}, generation : 0 .. MaxGeneration]

NoRow == [state |-> "absent", holder |-> None, left |-> 0, delay |-> 0,
          attempts |-> 0, error |-> "none", generation |-> 0]

Blank == [event |-> None, generation |-> 0, deaths |-> 0]

(***************************************************************************)
(* The types, with the CHECKs of the table: a lease has a holder, an event *)
(* that is done has neither, and a completed one shows no error.           *)
(***************************************************************************)
TypeOK ==
  /\ row \in [Events -> Rows]
  /\ fence \in [Workers -> SUBSET Events]
  /\ belief \in [Workers -> [Events -> 0 .. LeaseSpan]]
  /\ screen \in [Admins -> {Blank} \cup
                   [event : Events, generation : 0 .. MaxGeneration,
                    deaths : 0 .. MaxGeneration + 1]]
  /\ deaths \in [Events -> 0 .. MaxGeneration + 1]
  /\ \A e \in Events :
       /\ row[e].state \in {"completed", "dead"} => row[e].holder = None
       /\ row[e].holder = None => row[e].left = 0
       /\ row[e].state = "completed" => row[e].error = "none"

Init ==
  /\ row = [e \in Events |-> NoRow]
  /\ fence = [w \in Workers |-> {}]
  /\ belief = [w \in Workers |-> [e \in Events |-> 0]]
  /\ screen = [a \in Admins |-> Blank]
  /\ deaths = [e \in Events |-> 0]

-------------------------------------------------------------------------------
Enqueue(e) ==
  /\ row[e].state = "absent"
  /\ \E delay \in 0 .. MaxDelay :
       row' = [row EXCEPT ![e] = [@ EXCEPT !.state = "live", !.delay = delay]]
  /\ UNCHANGED <<fence, belief, screen, deaths>>

\* Mutant: an event is claimed only when it was given back.
ClaimableUnleased(e) ==
  row[e].state = "live" /\ row[e].delay = 0 /\ row[e].holder = None

Claimable(e) ==
  /\ row[e].state = "live"
  /\ row[e].delay = 0
  /\ row[e].holder = None \/ row[e].left = 0

(***************************************************************************)
(* claimNext: some of the claimable rows, for rows that another            *)
(* transaction has locked are skipped.                                     *)
(***************************************************************************)
ClaimNext(w, batch) ==
  /\ batch # {} /\ Cardinality(batch) <= Limit
  /\ \A e \in batch : Claimable(e)
  /\ row' = [e \in Events |->
               IF e \notin batch THEN row[e]
               ELSE [row[e] EXCEPT !.holder = w, !.left = LeaseSpan,
                       !.attempts = IF @ < MaxAttempts THEN @ + 1 ELSE @]]
  /\ fence' = [fence EXCEPT ![w] = batch]
  /\ belief' = [belief EXCEPT ![w] =
                  [e \in Events |-> IF e \in batch THEN LeaseSpan ELSE 0]]
  /\ UNCHANGED <<screen, deaths>>

(***************************************************************************)
(* renew, complete, deadLetter and retry have an effect only through a     *)
(* fence that still holds: the worker's token, on a live row, in time.     *)
(***************************************************************************)
\* Mutant: the token of the fence is not compared.
FencedByTime(w, e) == /\ e \in fence[w]
                      /\ row[e].state = "live"
                      /\ row[e].left > 0

Fenced(w, e) == /\ e \in fence[w]
                /\ row[e].state = "live"
                /\ row[e].holder = w
                /\ row[e].left > 0

\* The answer of renew may be lost: then the worker counts on the old lease.
Renew(w, e) ==
  /\ Fenced(w, e)
  /\ row' = [row EXCEPT ![e].left = LeaseSpan]
  /\ belief' \in {belief, [belief EXCEPT ![w][e] = LeaseSpan]}
  /\ UNCHANGED <<fence, screen, deaths>>

\* A worker that reports is done with the event, or will repeat the report.
Reported(w, e) ==
  /\ belief' = [belief EXCEPT ![w][e] = 0]
  /\ fence' \in {fence, [fence EXCEPT ![w] = @ \ {e}]}
  /\ UNCHANGED screen

Completed(e) ==
  [row[e] EXCEPT !.state = "completed", !.holder = None, !.left = 0, !.error = "none"]

Complete(w, e) ==
  /\ Fenced(w, e)
  /\ row' = [row EXCEPT ![e] = Completed(e)]
  /\ Reported(w, e)
  /\ UNCHANGED deaths

DeadLetter(w, e) ==
  /\ Fenced(w, e)
  /\ row' = [row EXCEPT ![e] = [@ EXCEPT !.state = "dead", !.holder = None,
                                         !.left = 0, !.error = "failed"]]
  /\ deaths' = [deaths EXCEPT ![e] = @ + 1]
  /\ Reported(w, e)

Retry(w, e, delay) ==
  /\ Fenced(w, e)
  /\ row' = [row EXCEPT ![e] = [@ EXCEPT !.holder = None, !.left = 0,
                                         !.delay = delay, !.error = "failed"]]
  /\ Reported(w, e)
  /\ UNCHANGED deaths

\* A report through a fence that no longer holds returns false.
Rejected(w, e) ==
  /\ e \in fence[w]
  /\ ~Fenced(w, e)
  /\ Reported(w, e)
  /\ UNCHANGED <<row, deaths>>

\* A worker that crashes or is restarted has neither fences nor leases.
Crash(w) ==
  /\ fence[w] # {}
  /\ fence' = [fence EXCEPT ![w] = {}]
  /\ belief' = [belief EXCEPT ![w] = [e \in Events |-> 0]]
  /\ UNCHANGED <<row, screen, deaths>>

-------------------------------------------------------------------------------
Look(a, e) ==
  /\ row[e].state = "dead"
  /\ screen' = [screen EXCEPT ![a] =
                  [event |-> e, generation |-> row[e].generation, deaths |-> deaths[e]]]
  /\ UNCHANGED <<row, fence, belief, deaths>>

\* Mutant: the generation the administrator saw is not compared.
RequeueableAsDead(e, generation) == row[e].state = "dead" /\ row[e].error # "retired"

Requeueable(e, generation) ==
  /\ row[e].state = "dead"
  /\ row[e].generation = generation
  /\ row[e].error \notin {"none", "retired"}

Requeued(e) ==
  [row[e] EXCEPT !.state = "live", !.error = "none", !.delay = 0, !.attempts = 0,
                 !.generation = @ + 1]

\* The request may be sent again, whenever it was answered.
Requeue(a) ==
  /\ \E e \in Events :
       /\ screen[a].event = e
       /\ row[e].generation < MaxGeneration
       /\ Requeueable(e, screen[a].generation)
       /\ row' = [row EXCEPT ![e] = Requeued(e)]
  /\ UNCHANGED <<fence, belief, screen, deaths>>

\* The migration gives up deliveries by hand, for good.
Retire(e) ==
  /\ row[e].state = "live" /\ row[e].holder = None
  /\ row' = [row EXCEPT ![e] = [@ EXCEPT !.state = "dead", !.error = "retired"]]
  /\ deaths' = [deaths EXCEPT ![e] = @ + 1]
  /\ UNCHANGED <<fence, belief, screen>>

Sooner(n) == IF n > 0 THEN n - 1 ELSE 0

Tick ==
  /\ row' = [e \in Events |-> [row[e] EXCEPT !.left = Sooner(@), !.delay = Sooner(@)]]
  /\ belief' = [w \in Workers |-> [e \in Events |-> Sooner(belief[w][e])]]
  /\ UNCHANGED <<fence, screen, deaths>>

Report(w, e) ==
  \/ Renew(w, e) \/ Complete(w, e) \/ DeadLetter(w, e) \/ Rejected(w, e)
  \/ \E delay \in 0 .. MaxDelay : Retry(w, e, delay)

Next ==
  \/ \E e \in Events : Enqueue(e) \/ Retire(e)
  \/ \E w \in Workers :
       \/ \E batch \in SUBSET Events : ClaimNext(w, batch)
       \/ \E e \in Events : Report(w, e)
       \/ Crash(w)
  \/ \E a \in Admins : Requeue(a) \/ \E e \in Events : Look(a, e)
  \/ Tick

(***************************************************************************)
(* Time passes, and workers keep polling: an event that stays claimable is *)
(* claimed. Nothing is assumed of what a worker does with it.              *)
(***************************************************************************)
Polled(e) == \E w \in Workers : ClaimNext(w, {e})

Fairness ==
  /\ WF_vars(Tick)
  /\ \A e \in Events : WF_vars(Polled(e))

Spec == Init /\ [][Next]_vars /\ Fairness

-------------------------------------------------------------------------------
(***************************************************************************)
(* A lease is exclusive for as long as its worker counts on it: until then *)
(* the row is the worker's, and no other worker counts on it too.          *)
(***************************************************************************)
LeaseIsExclusive ==
  \A w \in Workers, e \in Events : belief[w][e] > 0 =>
    /\ row[e].state = "live" /\ row[e].holder = w /\ row[e].left >= belief[w][e]
    /\ \A v \in Workers \ {w} : belief[v][e] = 0

(***************************************************************************)
(* An administrator only revives the failure they saw: a request sent      *)
(* twice, or from an old screen, does not revive an event that failed      *)
(* again in the meantime.                                                  *)
(***************************************************************************)
RequeueIsInformed ==
  [][\A e \in Events : row[e].state = "dead" /\ row'[e].state = "live" =>
       \E a \in Admins : screen[a].event = e /\ screen[a].deaths = deaths[e]]_vars

(***************************************************************************)
(* No event is lost to a worker that died, stalled or lost an answer: an   *)
(* event in nobody's lease is taken up again, or given up.                 *)
(***************************************************************************)
NeverStuck ==
  \A e \in Events :
    (row[e].state = "live" /\ row[e].left = 0)
      ~> (row[e].state # "live" \/ row[e].left > 0)
===============================================================================
