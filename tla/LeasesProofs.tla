------------------------------ MODULE LeasesProofs -----------------------------
(***************************************************************************)
(* Both kinds of lease are exclusive: those of the outbox, in the          *)
(* database, for any number of events and workers and any span of a lease, *)
(* and that of the expiry worker, in Redis, for any number of workers.     *)
(*                                                                         *)
(* The first invariant is inductive together with the types, so the proof  *)
(* goes action by action; what screens show, and that requeues are         *)
(* informed, is a second one on top of it. The third is about Redis.       *)
(***************************************************************************)
EXTENDS Outbox, Sweeps, TLAPS

\* What TypeOK says of one row.
RowOK(r) ==
  /\ r \in Rows
  /\ r.state \in {"completed", "dead"} => r.holder = None
  /\ r.holder = None => r.left = 0
  /\ r.state = "completed" => r.error = "none"

\* What LeaseIsExclusive says of one event.
Exclusive(e) ==
  \A w \in Workers : belief[w][e] > 0 =>
    /\ row[e].state = "live" /\ row[e].holder = w /\ row[e].left >= belief[w][e]
    /\ \A v \in Workers \ {w} : belief[v][e] = 0

Screens == {Blank} \cup [event : Events, generation : 0 .. MaxGeneration,
                         deaths : 0 .. MaxGeneration + 1]

\* A dead-letter and the requeue after it take turns.
Deaths(e) ==
  deaths[e] \in Nat /\ deaths[e] <= row[e].generation + (IF row[e].state = "dead" THEN 1 ELSE 0)

(* The types and the exclusion, event by event. *)
Inv ==
  /\ row \in [Events -> Rows]
  /\ \A e \in Events : RowOK(row[e]) /\ Deaths(e) /\ Exclusive(e)
  /\ fence \in [Workers -> SUBSET Events]
  /\ belief \in [Workers -> [Events -> 0 .. LeaseSpan]]
  /\ screen \in [Admins -> Screens]
  /\ deaths \in [Events -> 0 .. MaxGeneration + 1]

(* The invariant is what the runs check. *)
LEMMA InvImplies == Inv => TypeOK /\ LeaseIsExclusive
BY DEF Inv, RowOK, Exclusive, Screens, TypeOK, LeaseIsExclusive

(* The outbox starts empty and nobody counts on anything. *)
LEMMA InitInv == Init => Inv
BY OutboxAssumption DEF Init, Inv, RowOK, Deaths, Exclusive, Screens, Rows, NoRow, Blank

(***************************************************************************)
(* A step that only concerns event e preserves the invariant if it does so *)
(* for e.                                                                  *)
(***************************************************************************)
LEMMA OneEvent ==
  ASSUME Inv, NEW e \in Events,
         row' \in [Events -> Rows], \A k \in Events \ {e} : row'[k] = row[k],
         deaths' \in [Events -> Nat], \A k \in Events \ {e} : deaths'[k] = deaths[k],
         belief' \in [Workers -> [Events -> 0 .. LeaseSpan]],
         \A w \in Workers, k \in Events \ {e} : belief'[w][k] = belief[w][k],
         fence' \in [Workers -> SUBSET Events],
         screen' \in [Admins -> Screens],
         RowOK(row'[e]), Deaths(e)', Exclusive(e)'
  PROVE  Inv'
<1>1. \A k \in Events : RowOK(row'[k]) /\ Deaths(k)'
  BY DEF Inv, Deaths
<1>2. ASSUME NEW k \in Events
      PROVE  Exclusive(k)'
  <2>1. CASE k = e BY <2>1
  <2>2. CASE k # e
    <3>1. row'[k] = row[k] /\ \A w \in Workers : belief'[w][k] = belief[w][k]
      BY <2>2
    <3> QED BY <3>1 DEF Inv, Exclusive
  <2> QED BY <2>1, <2>2
<1>3. \A k \in Events : row'[k].generation \in 0 .. MaxGeneration
  BY <1>1 DEF RowOK, Rows
<1>4. \A k \in Events : deaths'[k] \in 0 .. MaxGeneration + 1
  BY <1>1, <1>3, OutboxAssumption DEF Deaths
<1>5. deaths' \in [Events -> 0 .. MaxGeneration + 1]
  BY <1>4
<1> QED BY <1>1, <1>2, <1>5 DEF Inv

(* A new row changes nothing for those that exist. *)
LEMMA EnqueueInv ==
  ASSUME Inv, NEW e \in Events, Enqueue(e)
  PROVE  Inv'
<1>1. PICK delay \in 0 .. MaxDelay :
        row' = [row EXCEPT ![e] = [@ EXCEPT !.state = "live", !.delay = delay]]
  BY DEF Enqueue
<1>2. row \in [Events -> Rows] /\ row[e] \in Rows BY DEF Inv
<1>3. [row[e] EXCEPT !.state = "live", !.delay = delay] \in Rows
  BY <1>2 DEF Rows
<1>4. /\ row' \in [Events -> Rows]
      /\ row'[e] = [row[e] EXCEPT !.state = "live", !.delay = delay]
      /\ \A k \in Events \ {e} : row'[k] = row[k]
  BY <1>1, <1>2, <1>3
<1>5. RowOK(row'[e]) /\ row'[e].generation = row[e].generation
  BY <1>2, <1>3, <1>4 DEF Inv, RowOK, Rows, Enqueue
<1>6. Deaths(e)'
  BY <1>2, <1>4, <1>5 DEF Inv, Deaths, Rows, Enqueue
<1>7. Exclusive(e)'
  BY DEF Inv, Exclusive, Enqueue
<1> QED BY <1>4, <1>5, <1>6, <1>7, OneEvent DEF Enqueue, Inv

(* A migration retires an event that nobody has leased. *)
LEMMA RetireInv ==
  ASSUME Inv, NEW e \in Events, Retire(e)
  PROVE  Inv'
<1>1. row \in [Events -> Rows] /\ row[e] \in Rows /\ deaths \in [Events -> Nat]
  BY DEF Inv
<1>2. [row[e] EXCEPT !.state = "dead", !.error = "retired"] \in Rows
  BY <1>1 DEF Rows
<1>3. /\ row' \in [Events -> Rows]
      /\ row'[e] = [row[e] EXCEPT !.state = "dead", !.error = "retired"]
      /\ \A k \in Events \ {e} : row'[k] = row[k]
  BY <1>1, <1>2 DEF Retire
<1>4. RowOK(row'[e])
  BY <1>1, <1>2, <1>3 DEF Inv, RowOK, Rows, Retire
<1>5. /\ deaths' \in [Events -> Nat] /\ deaths'[e] = deaths[e] + 1
      /\ \A k \in Events \ {e} : deaths'[k] = deaths[k]
  BY <1>1 DEF Retire
<1>6. Deaths(e)'
  BY <1>1, <1>3, <1>5 DEF Inv, Deaths, Rows, Retire
<1>7. Exclusive(e)'
  BY OutboxAssumption DEF Inv, Exclusive, Retire
<1> QED BY <1>3, <1>4, <1>5, <1>6, <1>7, OneEvent DEF Retire, Inv

(* Only the worker that holds a lease can count on it. *)
LEMMA OthersDoNot ==
  ASSUME Inv, NEW e \in Events, NEW w \in Workers, Fenced(w, e)
  PROVE  \A v \in Workers \ {w} : belief[v][e] = 0
BY DEF Inv, Exclusive, Fenced

(* A worker that has reported counts on nothing, and is alone to have done so. *)
LEMMA ReportedExclusive ==
  ASSUME Inv, NEW e \in Events, NEW w \in Workers, Reported(w, e),
         Fenced(w, e) \/ row' = row
  PROVE  /\ Exclusive(e)'
         /\ belief' \in [Workers -> [Events -> 0 .. LeaseSpan]]
         /\ \A v \in Workers, k \in Events \ {e} : belief'[v][k] = belief[v][k]
         /\ fence' \in [Workers -> SUBSET Events]
<1>1. belief \in [Workers -> [Events -> 0 .. LeaseSpan]] /\ fence \in [Workers -> SUBSET Events]
  BY DEF Inv
<1>2. belief' = [belief EXCEPT ![w] = [@ EXCEPT ![e] = 0]] BY DEF Reported
<1>3. 0 \in 0 .. LeaseSpan BY OutboxAssumption
<1>4. /\ belief' \in [Workers -> [Events -> 0 .. LeaseSpan]]
      /\ belief'[w][e] = 0
      /\ \A v \in Workers, k \in Events \ {e} : belief'[v][k] = belief[v][k]
      /\ \A v \in Workers \ {w} : belief'[v][e] = belief[v][e]
  BY <1>1, <1>2, <1>3
<1>5. fence' \in [Workers -> SUBSET Events]
  BY <1>1 DEF Reported
<1>6. CASE Fenced(w, e)
  <2>1. \A v \in Workers : belief'[v][e] = 0
    BY <1>4, <1>6, OthersDoNot
  <2> QED BY <2>1, <1>4, <1>5 DEF Exclusive
<1>7. CASE row' = row
  <2>1. \A v \in Workers : belief'[v][e] = belief[v][e] \/ belief'[v][e] = 0
    BY <1>4
  <2>2. Exclusive(e) BY DEF Inv
  <2> QED BY <2>1, <2>2, <1>4, <1>5, <1>7 DEF Exclusive
<1> QED BY <1>6, <1>7

(* What the span of a lease is. *)
LEMMA Spans == 0 \in 0 .. LeaseSpan /\ LeaseSpan \in 0 .. LeaseSpan /\ LeaseSpan > 0
BY OutboxAssumption

(* A renewed lease is still that of its worker. *)
LEMMA RenewInv ==
  ASSUME Inv, NEW e \in Events, NEW w \in Workers, Renew(w, e)
  PROVE  Inv'
<1>1. row \in [Events -> Rows] /\ row[e] \in Rows
      /\ belief \in [Workers -> [Events -> 0 .. LeaseSpan]]
  BY DEF Inv
<1>2. row' = [row EXCEPT ![e] = [@ EXCEPT !.left = LeaseSpan]]
  BY DEF Renew
<1>3. [row[e] EXCEPT !.left = LeaseSpan] \in Rows
  BY <1>1, Spans DEF Rows
<1>4. /\ row' \in [Events -> Rows]
      /\ row'[e] = [row[e] EXCEPT !.left = LeaseSpan]
      /\ \A k \in Events \ {e} : row'[k] = row[k]
  BY <1>1, <1>2, <1>3
<1>5. RowOK(row'[e])
  BY <1>1, <1>3, <1>4, OutboxAssumption DEF Inv, RowOK, Rows, Renew, Fenced
<1>6. Deaths(e)'
  BY <1>1, <1>4 DEF Inv, Deaths, Rows, Renew
<1>7. LeaseSpan \in 0 .. LeaseSpan BY OutboxAssumption
<1>8. belief' = belief \/ belief' = [belief EXCEPT ![w] = [@ EXCEPT ![e] = LeaseSpan]]
  BY DEF Renew
<1>9. /\ belief' \in [Workers -> [Events -> 0 .. LeaseSpan]]
      /\ \A v \in Workers, k \in Events \ {e} : belief'[v][k] = belief[v][k]
      /\ \A v \in Workers \ {w} : belief'[v][e] = 0
      /\ belief'[w][e] \in 0 .. LeaseSpan
  <2>1. Fenced(w, e) BY DEF Renew
  <2>2. \A v \in Workers \ {w} : belief[v][e] = 0 BY <2>1, OthersDoNot
  <2>3. CASE belief' = belief BY <2>2, <2>3, <1>1
  <2>4. CASE belief' = [belief EXCEPT ![w] = [@ EXCEPT ![e] = LeaseSpan]]
    BY <2>2, <2>4, <1>1, <1>7
  <2> QED BY <2>3, <2>4, <1>8
<1>10. /\ row'[e].state = "live" /\ row'[e].holder = w /\ row'[e].left = LeaseSpan
  BY <1>1, <1>4 DEF Renew, Fenced, Rows
<1>11. Exclusive(e)'
  BY <1>9, <1>10, OutboxAssumption DEF Exclusive
<1>12. /\ screen' \in [Admins -> Screens] /\ fence' \in [Workers -> SUBSET Events]
       /\ deaths' \in [Events -> Nat]
       /\ \A k \in Events \ {e} : deaths'[k] = deaths[k]
  BY DEF Renew, Inv
<1> QED BY <1>4, <1>5, <1>6, <1>9, <1>11, <1>12, OneEvent

(* A completed event is in no lease. *)
LEMMA CompleteInv ==
  ASSUME Inv, NEW e \in Events, NEW w \in Workers, Complete(w, e)
  PROVE  Inv'
<1>1. row \in [Events -> Rows] /\ row[e] \in Rows BY DEF Inv
<1>2. Completed(e) \in Rows
  BY <1>1, Spans DEF Completed, Rows
<1>3. /\ row' \in [Events -> Rows]
      /\ row'[e] = Completed(e)
      /\ \A k \in Events \ {e} : row'[k] = row[k]
  BY <1>1, <1>2 DEF Complete
<1>4. RowOK(row'[e])
  BY <1>1, <1>2, <1>3 DEF RowOK, Completed, Rows
<1>5. Deaths(e)'
  BY <1>1, <1>3 DEF Inv, Deaths, Rows, Complete, Completed, Fenced
<1>6. /\ Exclusive(e)'
      /\ belief' \in [Workers -> [Events -> 0 .. LeaseSpan]]
      /\ \A v \in Workers, k \in Events \ {e} : belief'[v][k] = belief[v][k]
      /\ fence' \in [Workers -> SUBSET Events]
  BY ReportedExclusive DEF Complete
<1>7. /\ screen' \in [Admins -> Screens]
      /\ deaths' \in [Events -> Nat]
      /\ \A k \in Events \ {e} : deaths'[k] = deaths[k]
  BY DEF Complete, Reported, Inv
<1> QED BY <1>3, <1>4, <1>5, <1>6, <1>7, OneEvent

(* A dead-lettered event is in no lease. *)
LEMMA DeadLetterInv ==
  ASSUME Inv, NEW e \in Events, NEW w \in Workers, DeadLetter(w, e)
  PROVE  Inv'
<1> DEFINE dead == [row[e] EXCEPT !.state = "dead", !.holder = None, !.left = 0,
                                  !.error = "failed"]
<1>1. row \in [Events -> Rows] /\ row[e] \in Rows /\ deaths \in [Events -> Nat]
  BY DEF Inv
<1>2. dead \in Rows
  BY <1>1, Spans DEF Rows
<1>3. /\ row' \in [Events -> Rows]
      /\ row'[e] = dead
      /\ \A k \in Events \ {e} : row'[k] = row[k]
  BY <1>1, <1>2 DEF DeadLetter
<1>4. RowOK(row'[e])
  BY <1>1, <1>2, <1>3 DEF RowOK, Rows
<1>5. /\ deaths' \in [Events -> Nat] /\ deaths'[e] = deaths[e] + 1
      /\ \A k \in Events \ {e} : deaths'[k] = deaths[k]
  BY <1>1 DEF DeadLetter
<1>6. Deaths(e)'
  BY <1>1, <1>3, <1>5 DEF Inv, Deaths, Rows, DeadLetter, Fenced
<1>7. /\ Exclusive(e)'
      /\ belief' \in [Workers -> [Events -> 0 .. LeaseSpan]]
      /\ \A v \in Workers, k \in Events \ {e} : belief'[v][k] = belief[v][k]
      /\ fence' \in [Workers -> SUBSET Events]
  BY ReportedExclusive DEF DeadLetter
<1>8. /\ screen' \in [Admins -> Screens]
      /\ deaths' \in [Events -> Nat]
      /\ \A k \in Events \ {e} : deaths'[k] = deaths[k]
  BY <1>5 DEF DeadLetter, Reported, Inv
<1> QED BY <1>3, <1>4, <1>5, <1>6, <1>7, <1>8, OneEvent

(* An event given back is in no lease. *)
LEMMA RetryInv ==
  ASSUME Inv, NEW e \in Events, NEW w \in Workers, NEW delay \in 0 .. MaxDelay,
         Retry(w, e, delay)
  PROVE  Inv'
<1> DEFINE again == [row[e] EXCEPT !.holder = None, !.left = 0, !.delay = delay,
                                   !.error = "failed"]
<1>1. row \in [Events -> Rows] /\ row[e] \in Rows BY DEF Inv
<1>2. again \in Rows
  BY <1>1, Spans DEF Rows
<1>3. /\ row' \in [Events -> Rows]
      /\ row'[e] = again
      /\ \A k \in Events \ {e} : row'[k] = row[k]
  BY <1>1, <1>2 DEF Retry
<1>4. RowOK(row'[e])
  BY <1>1, <1>2, <1>3 DEF RowOK, Rows, Retry, Fenced
<1>5. Deaths(e)'
  BY <1>1, <1>3 DEF Inv, Deaths, Rows, Retry, Fenced
<1>6. /\ Exclusive(e)'
      /\ belief' \in [Workers -> [Events -> 0 .. LeaseSpan]]
      /\ \A v \in Workers, k \in Events \ {e} : belief'[v][k] = belief[v][k]
      /\ fence' \in [Workers -> SUBSET Events]
  BY ReportedExclusive DEF Retry
<1>7. /\ screen' \in [Admins -> Screens]
      /\ deaths' \in [Events -> Nat]
      /\ \A k \in Events \ {e} : deaths'[k] = deaths[k]
  BY DEF Retry, Reported, Inv
<1> QED BY <1>3, <1>4, <1>5, <1>6, <1>7, OneEvent

(* A report that is refused changes no row. *)
LEMMA RejectedInv ==
  ASSUME Inv, NEW e \in Events, NEW w \in Workers, Rejected(w, e)
  PROVE  Inv'
<1>1. row' = row /\ deaths' = deaths /\ Reported(w, e) BY DEF Rejected
<1>2. Deaths(e)' BY <1>1 DEF Inv, Deaths
<1>3. /\ Exclusive(e)'
      /\ belief' \in [Workers -> [Events -> 0 .. LeaseSpan]]
      /\ \A v \in Workers, k \in Events \ {e} : belief'[v][k] = belief[v][k]
      /\ fence' \in [Workers -> SUBSET Events]
  BY ReportedExclusive DEF Rejected
<1>4. /\ screen' \in [Admins -> Screens]
      /\ deaths' \in [Events -> Nat]
      /\ \A k \in Events \ {e} : deaths'[k] = deaths[k]
  BY <1>1 DEF Rejected, Reported, Inv
<1>5. row' \in [Events -> Rows] /\ RowOK(row'[e]) /\ \A k \in Events \ {e} : row'[k] = row[k]
  BY <1>1 DEF Inv
<1> QED BY <1>1, <1>2, <1>3, <1>4, <1>5, OneEvent

(* A crashed worker counts on nothing; the rows wait for their leases to end. *)
LEMMA CrashInv ==
  ASSUME Inv, NEW w \in Workers, Crash(w)
  PROVE  Inv'
<1>1. belief \in [Workers -> [Events -> 0 .. LeaseSpan]] /\ fence \in [Workers -> SUBSET Events]
  BY DEF Inv
<1>2. belief' = [belief EXCEPT ![w] = [e \in Events |-> 0]]
      /\ fence' = [fence EXCEPT ![w] = {}]
      /\ UNCHANGED <<row, screen, deaths>>
  BY DEF Crash
<1>3. belief' \in [Workers -> [Events -> 0 .. LeaseSpan]] /\ fence' \in [Workers -> SUBSET Events]
  BY <1>1, <1>2, Spans
<1>4. \A v \in Workers, e \in Events : belief'[v][e] = belief[v][e] \/ belief'[v][e] = 0
  BY <1>1, <1>2
<1>5. ASSUME NEW e \in Events
      PROVE  RowOK(row'[e]) /\ Deaths(e)' /\ Exclusive(e)'
  <2>1. RowOK(row[e]) /\ Deaths(e) /\ Exclusive(e) BY DEF Inv
  <2>2. RowOK(row'[e]) /\ Deaths(e)' BY <2>1, <1>2 DEF Deaths
  <2>3. Exclusive(e)' BY <2>1, <1>2, <1>4 DEF Exclusive
  <2> QED BY <2>2, <2>3
<1> QED BY <1>2, <1>3, <1>5 DEF Inv

(* A claim replaces every lease that had ended, and nobody counts on those. *)
LEMMA ClaimNextInv ==
  ASSUME Inv, NEW w \in Workers, NEW batch \in SUBSET Events, ClaimNext(w, batch)
  PROVE  Inv'
<1> DEFINE claimed(e) == [row[e] EXCEPT !.holder = w, !.left = LeaseSpan,
                            !.attempts = IF @ < MaxAttempts THEN @ + 1 ELSE @]
<1>1. /\ row \in [Events -> Rows]
      /\ belief \in [Workers -> [Events -> 0 .. LeaseSpan]]
      /\ fence \in [Workers -> SUBSET Events]
  BY DEF Inv
<1>2. row' = [e \in Events |-> IF e \notin batch THEN row[e] ELSE claimed(e)]
  BY DEF ClaimNext
<1>3. ASSUME NEW e \in Events
      PROVE  claimed(e) \in Rows
  <2>1. row[e] \in Rows BY <1>1
  <2>2. row[e].attempts \in 0 .. MaxAttempts BY <2>1 DEF Rows
  <2>3. (IF row[e].attempts < MaxAttempts THEN row[e].attempts + 1 ELSE row[e].attempts)
          \in 0 .. MaxAttempts
    BY <2>2, OutboxAssumption
  <2> QED BY <2>1, <2>3, Spans DEF Rows
<1>4. row' \in [Events -> Rows]
  BY <1>1, <1>2, <1>3
<1>5. /\ belief' = [belief EXCEPT ![w] = [e \in Events |-> IF e \in batch THEN LeaseSpan ELSE 0]]
      /\ fence' = [fence EXCEPT ![w] = batch]
      /\ UNCHANGED <<screen, deaths>>
  BY DEF ClaimNext
<1>6. belief' \in [Workers -> [Events -> 0 .. LeaseSpan]] /\ fence' \in [Workers -> SUBSET Events]
  BY <1>1, <1>5, Spans
<1>7. ASSUME NEW e \in batch
      PROVE  RowOK(row'[e]) /\ Deaths(e)' /\ Exclusive(e)'
  <2> e \in Events OBVIOUS
  <2> HIDE DEF claimed
  <2>1a. row'[e] = claimed(e) BY <1>2
  <2>1b. row[e] \in Rows /\ Claimable(e) /\ row'[e] \in Rows
    BY <1>1, <1>3, <2>1a DEF ClaimNext
  <2> USE DEF claimed
  <2>1. row[e] \in Rows /\ Claimable(e) /\ row'[e] = claimed(e) /\ row'[e] \in Rows
    BY <2>1a, <2>1b
  <2>2. /\ row'[e].state = "live" /\ row'[e].holder = w /\ row'[e].left = LeaseSpan
        /\ row'[e].generation = row[e].generation
    BY <2>1 DEF Rows, Claimable
  <2>3. RowOK(row'[e])
    BY <2>1, <2>2, OutboxAssumption DEF RowOK
  <2>4. Deaths(e)'
    BY <2>1, <2>2, <1>5 DEF Inv, Deaths, Claimable
  <2>5. \A v \in Workers : belief[v][e] = 0
    <3>1. row[e].left = 0 BY <2>1 DEF Inv, RowOK, Claimable
    <3> QED BY <3>1, <1>1 DEF Inv, Exclusive
  <2>6. belief'[w][e] = LeaseSpan /\ \A v \in Workers \ {w} : belief'[v][e] = 0
    BY <2>5, <1>1, <1>5
  <2>7. Exclusive(e)'
    BY <2>2, <2>6, Spans DEF Exclusive
  <2> QED BY <2>3, <2>4, <2>7
<1>8. ASSUME NEW e \in Events \ batch
      PROVE  RowOK(row'[e]) /\ Deaths(e)' /\ Exclusive(e)'
  <2>1. row'[e] = row[e] /\ deaths'[e] = deaths[e] BY <1>2, <1>5
  <2>2. RowOK(row[e]) /\ Deaths(e) /\ Exclusive(e) BY DEF Inv
  <2>3. \A v \in Workers : belief'[v][e] = belief[v][e] \/ belief'[v][e] = 0
    BY <1>1, <1>5
  <2>4. RowOK(row'[e]) /\ Deaths(e)' BY <2>1, <2>2 DEF Deaths
  <2>5. Exclusive(e)' BY <2>1, <2>2, <2>3 DEF Exclusive
  <2> QED BY <2>4, <2>5
<1> QED BY <1>4, <1>5, <1>6, <1>7, <1>8 DEF Inv

(* Looking changes nothing. *)
LEMMA LookInv ==
  ASSUME Inv, NEW a \in Admins, NEW e \in Events, Look(a, e)
  PROVE  Inv'
<1>1. UNCHANGED <<row, fence, belief, deaths>> BY DEF Look
<1>2. [event |-> e, generation |-> row[e].generation, deaths |-> deaths[e]] \in Screens
  BY DEF Inv, Rows, Screens
<1>3. screen' \in [Admins -> Screens]
  BY <1>2 DEF Inv, Look
<1> QED BY <1>1, <1>3 DEF Inv, Deaths, Exclusive

(* A requeued event is in no lease, and has one generation more. *)
LEMMA RequeueInv ==
  ASSUME Inv, NEW a \in Admins, Requeue(a)
  PROVE  Inv'
<1>1. /\ row \in [Events -> Rows] /\ screen \in [Admins -> Screens]
      /\ deaths \in [Events -> Nat]
  BY DEF Inv
<1>2. PICK e \in Events :
        /\ row[e].generation < MaxGeneration
        /\ Requeueable(e, screen[a].generation)
        /\ row' = [row EXCEPT ![e] = Requeued(e)]
        /\ UNCHANGED <<fence, belief, screen, deaths>>
  BY DEF Requeue
<1>3. /\ row[e].generation < MaxGeneration /\ row[e].state = "dead"
      /\ UNCHANGED <<fence, belief, screen, deaths>>
  BY <1>2 DEF Requeueable
<1>4. RowOK(row[e]) /\ Deaths(e) /\ Exclusive(e) /\ row[e] \in Rows BY DEF Inv
<1>5. row[e].generation + 1 \in 0 .. MaxGeneration
  BY <1>3, <1>4, OutboxAssumption DEF Rows
<1>6. 0 \in 0 .. MaxDelay /\ 0 \in 0 .. MaxAttempts BY OutboxAssumption
<1>7. Requeued(e) \in Rows
  BY <1>4, <1>5, <1>6 DEF Rows, Requeued
<1>8. /\ row' \in [Events -> Rows]
       /\ row'[e] = Requeued(e)
       /\ \A k \in Events \ {e} : row'[k] = row[k]
  BY <1>1, <1>2, <1>7
<1>9. /\ row'[e].state = "live" /\ row'[e].holder = None /\ row'[e].left = 0
       /\ row'[e].generation = row[e].generation + 1
  BY <1>3, <1>4, <1>8 DEF Rows, RowOK, Requeued
<1>10. RowOK(row'[e]) BY <1>7, <1>8, <1>9 DEF RowOK
<1>11. Deaths(e)'
  BY <1>3, <1>4, <1>5, <1>9 DEF Deaths, Rows
<1>12. Exclusive(e)'
  BY <1>3, <1>4 DEF Exclusive
<1>13. /\ screen' \in [Admins -> Screens] /\ fence' \in [Workers -> SUBSET Events]
       /\ belief' \in [Workers -> [Events -> 0 .. LeaseSpan]]
       /\ \A w \in Workers, k \in Events \ {e} : belief'[w][k] = belief[w][k]
       /\ deaths' \in [Events -> Nat]
       /\ \A k \in Events \ {e} : deaths'[k] = deaths[k]
  BY <1>1, <1>3 DEF Inv
<1> QED BY <1>8, <1>10, <1>11, <1>12, <1>13, OneEvent

(* Leases and what workers count on get shorter together. *)
LEMMA TickInv ==
  ASSUME Inv, Tick
  PROVE  Inv'
<1> DEFINE later(e) == [row[e] EXCEPT !.left = Sooner(@), !.delay = Sooner(@)]
<1>1. /\ row \in [Events -> Rows]
      /\ belief \in [Workers -> [Events -> 0 .. LeaseSpan]]
  BY DEF Inv
<1>2. /\ row' = [e \in Events |-> later(e)]
      /\ belief' = [w \in Workers |-> [e \in Events |-> Sooner(belief[w][e])]]
      /\ UNCHANGED <<fence, screen, deaths>>
  BY DEF Tick
<1>3. \A m \in Nat : \A n \in 0 .. m : Sooner(n) \in 0 .. m
  BY DEF Sooner
<1>4. belief' \in [Workers -> [Events -> 0 .. LeaseSpan]]
  BY <1>1, <1>2, <1>3, OutboxAssumption
<1>5. ASSUME NEW e \in Events
      PROVE  later(e) \in Rows
  <2>1. row[e] \in Rows BY <1>1
  <2>2. Sooner(row[e].left) \in 0 .. LeaseSpan /\ Sooner(row[e].delay) \in 0 .. MaxDelay
    BY <2>1, <1>3, OutboxAssumption DEF Rows
  <2> QED BY <2>1, <2>2 DEF Rows
<1>6. row' \in [Events -> Rows]
  BY <1>2, <1>5
<1>7. ASSUME NEW e \in Events
      PROVE  RowOK(row'[e]) /\ Deaths(e)' /\ Exclusive(e)'
  <2>1. RowOK(row[e]) /\ Deaths(e) /\ Exclusive(e) /\ row[e] \in Rows BY <1>1 DEF Inv
  <2>2. row'[e] \in Rows /\ row'[e] = later(e) BY <1>2, <1>5
  <2>3. /\ row'[e].state = row[e].state /\ row'[e].holder = row[e].holder
        /\ row'[e].error = row[e].error /\ row'[e].generation = row[e].generation
        /\ row'[e].left = Sooner(row[e].left)
    BY <2>1, <2>2 DEF Rows
  <2>4. RowOK(row'[e])
    BY <2>1, <2>2, <2>3 DEF RowOK, Sooner
  <2>5. Deaths(e)'
    BY <2>1, <2>3, <1>2 DEF Deaths
  <2>6. ASSUME NEW w \in Workers, belief'[w][e] > 0
        PROVE  /\ row'[e].state = "live" /\ row'[e].holder = w
               /\ row'[e].left >= belief'[w][e]
               /\ \A v \in Workers \ {w} : belief'[v][e] = 0
    <3>0. \A v \in Workers : belief'[v][e] = Sooner(belief[v][e])
      BY <1>2
    <3>1. \A v \in Workers : belief'[v][e] = Sooner(belief[v][e]) /\ belief[v][e] \in 0 .. LeaseSpan
      BY <1>1, <3>0
    <3>2. belief[w][e] > 0
      BY <3>1, <2>6 DEF Sooner
    <3>3. /\ row[e].state = "live" /\ row[e].holder = w /\ row[e].left >= belief[w][e]
          /\ \A v \in Workers \ {w} : belief[v][e] = 0
      BY <2>1, <3>2 DEF Exclusive
    <3>4. row[e].left \in Nat BY <2>1, OutboxAssumption DEF Rows
    <3>5. Sooner(row[e].left) >= Sooner(belief[w][e])
      BY <3>1, <3>3, <3>4 DEF Sooner
    <3>6. \A v \in Workers \ {w} : belief'[v][e] = 0
      BY <3>1, <3>3 DEF Sooner
    <3> QED BY <3>1, <3>3, <3>5, <3>6, <2>3
  <2>7. Exclusive(e)' BY <2>6 DEF Exclusive
  <2> QED BY <2>4, <2>5, <2>7
<1> QED BY <1>2, <1>4, <1>6, <1>7 DEF Inv

(* Every step keeps the invariant. *)
LEMMA NextInv == Inv /\ [Next]_vars => Inv'
<1> SUFFICES ASSUME Inv, [Next]_vars PROVE Inv'
  OBVIOUS
<1>1. CASE UNCHANGED vars
  BY <1>1 DEF Inv, Deaths, Exclusive, vars
<1>2. ASSUME NEW e \in Events, Enqueue(e) PROVE Inv'
  BY <1>2, EnqueueInv
<1>3. ASSUME NEW e \in Events, Retire(e) PROVE Inv'
  BY <1>3, RetireInv
<1>4. ASSUME NEW w \in Workers, NEW batch \in SUBSET Events, ClaimNext(w, batch) PROVE Inv'
  BY <1>4, ClaimNextInv
<1>5. ASSUME NEW w \in Workers, NEW e \in Events, Report(w, e) PROVE Inv'
  BY <1>5, RenewInv, CompleteInv, DeadLetterInv, RetryInv, RejectedInv DEF Report
<1>6. ASSUME NEW w \in Workers, Crash(w) PROVE Inv'
  BY <1>6, CrashInv
<1>7. ASSUME NEW a \in Admins, Requeue(a) PROVE Inv'
  BY <1>7, RequeueInv
<1>8. ASSUME NEW a \in Admins, NEW e \in Events, Look(a, e) PROVE Inv'
  BY <1>8, LookInv
<1>9. CASE Tick
  BY <1>9, TickInv
<1> QED BY <1>1, <1>2, <1>3, <1>4, <1>5, <1>6, <1>7, <1>8, <1>9 DEF Next

(***************************************************************************)
(* The outbox keeps its types and the CHECKs of its table, whatever the    *)
(* workers and administrators do.                                          *)
(***************************************************************************)
THEOREM OutboxTypeCorrect == Spec => []TypeOK
<1>1. Inv => TypeOK BY InvImplies
<1> QED BY InitInv, NextInv, <1>1, PTL DEF Spec

(***************************************************************************)
(* A worker that counts on its lease is the only one to do so, and the row *)
(* is still its own: with any number of workers, any span, lost answers,   *)
(* crashes and requeues.                                                   *)
(***************************************************************************)
THEOREM LeasesAreExclusive == Spec => []LeaseIsExclusive
<1>1. Inv => LeaseIsExclusive BY InvImplies
<1> QED BY InitInv, NextInv, <1>1, PTL DEF Spec

-------------------------------------------------------------------------------
(***************************************************************************)
(* What a screen shows of event e is of its present generation only while  *)
(* the event is dead of the failure shown: an event dies once in each      *)
(* generation, and only a requeue begins the next one.                     *)
(***************************************************************************)
Shows(a, e) ==
  screen[a].event = e =>
    /\ screen[a].generation <= row[e].generation
    /\ screen[a].generation = row[e].generation =>
         row[e].state = "dead" /\ screen[a].deaths = deaths[e]

ScreensAreTrue == \A a \in Admins, e \in Events : Shows(a, e)

\* Administrator a revives event e, of the generation on the screen.
Revives(a, e) ==
  /\ screen[a].event = e /\ screen[a].generation = row[e].generation
  /\ row[e].state = "dead" /\ row'[e].generation = row[e].generation + 1

(* Nobody looks at anything yet. *)
LEMMA InitScreens == Init => ScreensAreTrue
BY OutboxAssumption DEF Init, ScreensAreTrue, Shows, Blank

(***************************************************************************)
(* What a step can do to an event as far as screens can tell: nothing, a   *)
(* change of an event that is not dead, or a requeue.                      *)
(***************************************************************************)
LEMMA StepOfEvent ==
  ASSUME Inv, [Next]_vars, NEW e \in Events
  PROVE  \/ /\ row'[e].state = row[e].state /\ row'[e].generation = row[e].generation
            /\ deaths'[e] = deaths[e]
         \/ row[e].state # "dead" /\ row'[e].generation = row[e].generation
         \/ \E a \in Admins : Revives(a, e)
<1> DEFINE same == /\ row'[e].state = row[e].state /\ row'[e].generation = row[e].generation
                   /\ deaths'[e] = deaths[e]
           alive == row[e].state # "dead" /\ row'[e].generation = row[e].generation
           revived == \E a \in Admins : Revives(a, e)
<1> SUFFICES same \/ alive \/ revived
  OBVIOUS
<1>1. /\ row \in [Events -> Rows] /\ row[e] \in Rows
      /\ deaths \in [Events -> 0 .. MaxGeneration + 1]
      /\ DOMAIN row[e] = {"state", "holder", "left", "delay", "attempts", "error", "generation"}
  BY DEF Inv, Rows
<1>2. CASE UNCHANGED vars
  BY <1>2 DEF vars
<1>3. ASSUME NEW k \in Events, Enqueue(k) PROVE same \/ alive
  BY <1>1, <1>3 DEF Enqueue
<1>4. ASSUME NEW k \in Events, Retire(k) PROVE same \/ alive
  BY <1>1, <1>4 DEF Retire
<1>5. ASSUME NEW w \in Workers, NEW batch \in SUBSET Events, ClaimNext(w, batch) PROVE same
  BY <1>1, <1>5 DEF ClaimNext
<1>6. ASSUME NEW w \in Workers, NEW k \in Events, Renew(w, k) PROVE same
  BY <1>1, <1>6 DEF Renew
<1>7. ASSUME NEW w \in Workers, NEW k \in Events, Complete(w, k) PROVE same \/ alive
  BY <1>1, <1>7 DEF Complete, Completed, Fenced
<1>8. ASSUME NEW w \in Workers, NEW k \in Events, DeadLetter(w, k) PROVE same \/ alive
  BY <1>1, <1>8 DEF DeadLetter, Fenced
<1>9. ASSUME NEW w \in Workers, NEW k \in Events, Rejected(w, k) PROVE same
  BY <1>9 DEF Rejected
<1>10. ASSUME NEW w \in Workers, NEW k \in Events, NEW delay \in 0 .. MaxDelay,
              Retry(w, k, delay)
       PROVE  same
  BY <1>1, <1>10 DEF Retry
<1>11. ASSUME NEW w \in Workers, Crash(w) PROVE same
  BY <1>11 DEF Crash
<1>12. ASSUME NEW a \in Admins, Requeue(a) PROVE same \/ revived
  <2>1. PICK k \in Events :
          /\ screen[a].event = k
          /\ Requeueable(k, screen[a].generation)
          /\ row' = [row EXCEPT ![k] = Requeued(k)]
          /\ deaths' = deaths
    BY <1>12 DEF Requeue
  <2>2. CASE k = e
    BY <1>1, <2>1, <2>2 DEF Requeueable, Requeued, Revives
  <2>3. CASE k # e
    BY <1>1, <2>1, <2>3
  <2> QED BY <2>2, <2>3
<1>13. ASSUME NEW a \in Admins, NEW k \in Events, Look(a, k) PROVE same
  BY <1>13 DEF Look
<1>14. CASE Tick
  BY <1>1, <1>14 DEF Tick
<1> HIDE DEF same, alive, revived
<1>15. ASSUME NEW w \in Workers, NEW k \in Events, Report(w, k) PROVE same \/ alive
  BY <1>15, <1>6, <1>7, <1>8, <1>9, <1>10 DEF Report
<1> QED BY <1>2, <1>3, <1>4, <1>5, <1>11, <1>12, <1>13, <1>14, <1>15 DEF Next

(* Screens change only by looking, and then show what the row is. *)
LEMMA StepOfScreen ==
  ASSUME [Next]_vars, NEW a \in Admins, screen \in [Admins -> Screens]
  PROVE  \/ screen'[a] = screen[a]
         \/ \E e \in Events :
              /\ row[e].state = "dead" /\ UNCHANGED <<row, deaths>>
              /\ screen'[a] = [event |-> e, generation |-> row[e].generation,
                               deaths |-> deaths[e]]
<1>1. CASE \E b \in Admins, e \in Events : Look(b, e)
  BY <1>1 DEF Look
<1>2. CASE ~ \E b \in Admins, e \in Events : Look(b, e)
  <2>1. CASE UNCHANGED vars BY <2>1, Zenon DEF vars
  <2>2. CASE Next
    BY <1>2, <2>2, Zenon DEF Next, Enqueue, Retire, ClaimNext, Report, Renew, Complete, DeadLetter,
                             Rejected, Retry, Reported, Crash, Requeue, Tick
  <2> QED BY <2>1, <2>2
<1> QED BY <1>1, <1>2

(* No step makes a screen show a failure of the present generation that is over. *)
LEMMA NextScreens ==
  ASSUME Inv, Inv', ScreensAreTrue, [Next]_vars
  PROVE  ScreensAreTrue'
<1> SUFFICES ASSUME NEW a \in Admins, NEW e \in Events, screen'[a].event = e
             PROVE  /\ screen'[a].generation <= row'[e].generation
                    /\ screen'[a].generation = row'[e].generation =>
                         row'[e].state = "dead" /\ screen'[a].deaths = deaths'[e]
  BY DEF ScreensAreTrue, Shows
<1>1. /\ screen \in [Admins -> Screens] /\ screen[a] \in Screens
      /\ row[e].generation \in Nat /\ row'[e].generation \in Nat
  BY DEF Inv, Rows
<1>2. CASE screen'[a] = screen[a]
  <2>1. screen[a].event = e /\ screen[a].generation \in Nat
    BY <1>1, <1>2 DEF Screens, Blank
  <2>2. /\ screen[a].generation <= row[e].generation
        /\ screen[a].generation = row[e].generation =>
             row[e].state = "dead" /\ screen[a].deaths = deaths[e]
    BY <2>1 DEF ScreensAreTrue, Shows
  <2>3. CASE /\ row'[e].state = row[e].state /\ row'[e].generation = row[e].generation
             /\ deaths'[e] = deaths[e]
    BY <1>2, <2>2, <2>3
  <2>4. CASE row[e].state # "dead" /\ row'[e].generation = row[e].generation
    BY <1>2, <2>2, <2>4
  <2>5. ASSUME NEW b \in Admins, Revives(b, e)
        PROVE  screen'[a].generation < row'[e].generation
    BY <1>1, <1>2, <2>1, <2>2, <2>5 DEF Revives
  <2>6. CASE \E b \in Admins : Revives(b, e)
    BY <1>1, <1>2, <2>1, <2>5, <2>6
  <2> QED BY <2>3, <2>4, <2>6, StepOfEvent
<1>3. ASSUME NEW k \in Events, row[k].state = "dead", UNCHANGED <<row, deaths>>,
             screen'[a] = [event |-> k, generation |-> row[k].generation,
                           deaths |-> deaths[k]]
      PROVE  /\ screen'[a].generation <= row'[e].generation
             /\ screen'[a].generation = row'[e].generation =>
                  row'[e].state = "dead" /\ screen'[a].deaths = deaths'[e]
  BY <1>1, <1>3
<1> QED BY <1>1, <1>2, <1>3, StepOfScreen

(***************************************************************************)
(* An administrator only revives the failure they saw, with any number of  *)
(* administrators and requests sent again at any time.                     *)
(***************************************************************************)
THEOREM RequeuesAreInformed == Spec => RequeueIsInformed
<1> DEFINE informed(e) == \E a \in Admins : screen[a].event = e /\ screen[a].deaths = deaths[e]
<1>1. Inv /\ ScreensAreTrue /\ [Next]_vars => Inv' /\ ScreensAreTrue'
  BY NextInv, NextScreens
<1>2. ASSUME Inv, ScreensAreTrue, [Next]_vars
      PROVE  [\A e \in Events : row[e].state = "dead" /\ row'[e].state = "live" =>
                \E a \in Admins : screen[a].event = e /\ screen[a].deaths = deaths[e]]_vars
  <2> SUFFICES ASSUME NEW e \in Events, row[e].state = "dead", row'[e].state = "live"
               PROVE  informed(e)
    OBVIOUS
  <2>1. PICK a \in Admins : Revives(a, e)
    BY <1>2, StepOfEvent
  <2> QED BY <1>2, <2>1 DEF ScreensAreTrue, Shows, Revives
<1>3. Inv /\ ScreensAreTrue /\ [Next]_vars =>
        [\A e \in Events : row[e].state = "dead" /\ row'[e].state = "live" =>
           \E a \in Admins : screen[a].event = e /\ screen[a].deaths = deaths[e]]_vars
  BY <1>2
<1> QED BY <1>1, <1>3, InitInv, InitScreens, PTL DEF Spec, RequeueIsInformed

-------------------------------------------------------------------------------
(***************************************************************************)
(* The sweeps of the expiry worker, under the lease it keeps in Redis:     *)
(* whoever sweeps by a lease that did not lapse owns the key, no two       *)
(* workers have the same token, and what is on its way to Redis is what    *)
(* its sender waits for.                                                   *)
(***************************************************************************)
Commands == [op : {"set", "get", "release"}, token : Tokens]

\* What a worker is, at every point of a sweep.
IsSweeper(n) ==
  /\ n \in [at : {"wait", "set", "get", "sweep", "release", "end"},
            token : Tokens \cup {NoToken}, connected : BOOLEAN, sent : {0, 1, 2},
            leased : BOOLEAN, lapsed : BOOLEAN, stopping : BOOLEAN, failed : BOOLEAN]
  /\ n.at \in {"wait", "end"} => n.token = NoToken
  /\ n.at \in {"set", "get", "release"} => n.token # NoToken
  /\ n.leased => n.token # NoToken

\* What is on its way to Redis is what its sender waits for, or has stopped to wait for.
Carries(q, n) ==
  /\ q \in Seq(Commands)
  /\ \A i \in 1 .. Len(q) : q[i].op = n.at /\ q[i].token = n.token

\* The worker sweeps by the lease, and it did not lapse.
ByLease(n) == n.at = "sweep" /\ n.leased /\ ~n.lapsed

SweepsTypeOK ==
  /\ owner \in Tokens \cup {NoToken}
  /\ DOMAIN sweeper = Sweepers /\ \A w \in Sweepers : IsSweeper(sweeper[w])
  /\ sweeper = [w \in Sweepers |-> sweeper[w]]
  /\ wire = [w \in Sweepers |-> wire[w]]
  /\ DOMAIN wire = Sweepers /\ \A w \in Sweepers : Carries(wire[w], sweeper[w])

TokensDiffer ==
  \A v, w \in Sweepers : v # w /\ sweeper[v].token = sweeper[w].token => sweeper[v].token = NoToken

LeasedOwn == \A w \in Sweepers : ByLease(sweeper[w]) => owner = sweeper[w].token

SweepsInv == SweepsTypeOK /\ TokensDiffer /\ LeasedOwn

-------------------------------------------------------------------------------
(* One worker goes on, to the state n with the commands q on their way. *)
LEMMA OneSweeper ==
  ASSUME SweepsInv, NEW w \in Sweepers, NEW n, NEW q,
         IsSweeper(n), Carries(q, n),
         sweeper' = [sweeper EXCEPT ![w] = n],
         wire' = [wire EXCEPT ![w] = q],
         owner' \in Tokens \cup {NoToken},
         n.token # NoToken => \A v \in Sweepers : v # w => sweeper[v].token # n.token,
         \A v \in Sweepers : v # w /\ ByLease(sweeper[v]) => owner' = owner,
         ByLease(n) => owner' = n.token
  PROVE  SweepsInv'
<1>1. sweeper'[w] = n /\ wire'[w] = q /\ DOMAIN sweeper' = Sweepers /\ DOMAIN wire' = Sweepers
  BY DEF SweepsInv, SweepsTypeOK
<1>2. \A v \in Sweepers : v # w => sweeper'[v] = sweeper[v] /\ wire'[v] = wire[v]
  BY DEF SweepsInv, SweepsTypeOK
<1>3. SweepsTypeOK'
  BY <1>1, <1>2 DEF SweepsInv, SweepsTypeOK
<1>4. TokensDiffer'
  BY <1>1, <1>2 DEF SweepsInv, TokensDiffer
<1>5. LeasedOwn'
  BY <1>1, <1>2 DEF SweepsInv, LeasedOwn
<1> QED BY <1>3, <1>4, <1>5 DEF SweepsInv

(* The token a worker has is nobody else's. *)
LEMMA OwnToken ==
  ASSUME SweepsInv, NEW w \in Sweepers, sweeper[w].token # NoToken
  PROVE  \A v \in Sweepers : v # w => sweeper[v].token # sweeper[w].token
BY DEF SweepsInv, TokensDiffer

(* A worker that pauses or has ended has nothing to do with the lease. *)
LEMMA PausesIs ==
  ASSUME NEW w \in Sweepers, IsSweeper(sweeper[w])
  PROVE  IsSweeper(Pauses(w)) /\ Pauses(w).token = NoToken /\ ~ByLease(Pauses(w))
         /\ Pauses(w).at \in {"wait", "end"}
BY SweepsAssumption DEF IsSweeper, Pauses, Ended, Waiting, ByLease

(* A worker that has ended. *)
LEMMA EndedIs ==
  ASSUME NEW stopping \in BOOLEAN
  PROVE  IsSweeper(Ended(stopping)) /\ Ended(stopping).token = NoToken /\ ~ByLease(Ended(stopping))
BY SweepsAssumption DEF IsSweeper, Ended, Waiting, ByLease

(* A worker that waits for its next sweep. *)
LEMMA WaitingIs ==
  ASSUME NEW connected \in BOOLEAN
  PROVE  IsSweeper(Waiting(connected)) /\ Waiting(connected).token = NoToken
         /\ ~ByLease(Waiting(connected))
BY SweepsAssumption DEF IsSweeper, Waiting, ByLease

(* A worker that sweeps has the token it had. *)
LEMMA SweepsIs ==
  ASSUME NEW w \in Sweepers, IsSweeper(sweeper[w]), NEW leased \in BOOLEAN,
         leased => sweeper[w].token # NoToken
  PROVE  /\ IsSweeper(Sweeps(w, leased))
         /\ Sweeps(w, leased).token = sweeper[w].token
         /\ Sweeps(w, leased).leased = leased
         /\ IsSweeper([Sweeps(w, leased) EXCEPT !.connected = FALSE])
         /\ [Sweeps(w, leased) EXCEPT !.connected = FALSE].token = sweeper[w].token
         /\ [Sweeps(w, leased) EXCEPT !.connected = FALSE].leased = leased
BY DEF IsSweeper, Sweeps

(* A worker whose key is taken asks whose it is. *)
LEMMA TakenIs ==
  ASSUME NEW w \in Sweepers, IsSweeper(sweeper[w]), sweeper[w].at = "set"
  PROVE  IsSweeper(Taken(w)) /\ Taken(w).token = sweeper[w].token /\ ~ByLease(Taken(w))
BY DEF IsSweeper, Taken, ByLease

(* A queue of no commands is the empty one. *)
LEMMA NothingSent == \A q \in Seq(Commands) : Len(q) = 0 => q = <<>>
OBVIOUS

(* Nothing is on its way from a worker that waits for no answer. *)
LEMMA WireEmpty ==
  ASSUME SweepsInv, NEW w \in Sweepers, sweeper[w].at \notin {"set", "get", "release"}
  PROVE  wire[w] = <<>>
<1>1. Carries(wire[w], sweeper[w]) BY DEF SweepsInv, SweepsTypeOK
<1>2. \A i \in 1 .. Len(wire[w]) : wire[w][i] \in Commands /\ wire[w][i].op = sweeper[w].at
  BY <1>1 DEF Carries
<1>3. \A c \in Commands : c.op \in {"set", "get", "release"}
  BY DEF Commands
<1>4. Len(wire[w]) = 0
  <2>1. 1 \notin 1 .. Len(wire[w])
    BY <1>2, <1>3
  <2>2. wire[w] \in Seq(Commands) BY <1>1 DEF Carries
  <2> QED BY <2>1, <2>2
<1>5. wire[w] \in Seq(Commands) BY <1>1 DEF Carries
<1> QED BY <1>4, <1>5

(* An empty queue carries what anybody waits for. *)
LEMMA CarriesNothing == \A n : Carries(<<>>, n)
BY DEF Carries

(* A command that is sent is what its sender waits for. *)
LEMMA CarriesMore ==
  ASSUME NEW q, NEW n, Carries(q, n), IsSweeper(n), n.at \in {"set", "get", "release"}
  PROVE  Carries(Append(q, [op |-> n.at, token |-> n.token]), n)
BY DEF Carries, Commands, IsSweeper

(* The next command on its way is what its sender waits for. *)
LEMMA CarriesLess ==
  ASSUME NEW q, NEW n, Carries(q, n), q # <<>>
  PROVE  Carries(Tail(q), n) /\ Head(q).op = n.at /\ Head(q).token = n.token
         /\ n.at \in {"set", "get", "release"}
<1>1. q \in Seq(Commands) /\ 1 \in 1 .. Len(q) /\ Head(q) = q[1]
  BY DEF Carries
<1>2. q[1] \in Commands /\ q[1].op = n.at /\ q[1].token = n.token
  BY <1>1 DEF Carries
<1>3. \A c \in Commands : c.op \in {"set", "get", "release"}
  BY DEF Commands
<1>4. Tail(q) \in Seq(Commands) /\ \A i \in 1 .. Len(Tail(q)) : Tail(q)[i] = q[i + 1]
        /\ i + 1 \in 1 .. Len(q)
  BY <1>1
<1>5. Carries(Tail(q), n)
  BY <1>4 DEF Carries
<1> QED BY <1>1, <1>2, <1>3, <1>5

-------------------------------------------------------------------------------
(* Nobody has a token at first. *)
LEMMA SweepsInitInv == SweepsInit => SweepsInv
<1> SUFFICES ASSUME SweepsInit PROVE SweepsInv
  OBVIOUS
<1>1. \A w \in Sweepers : IsSweeper(sweeper[w]) /\ sweeper[w].token = NoToken
                          /\ ~ByLease(sweeper[w])
  <2>1. \A w \in Sweepers : \E connected \in BOOLEAN : sweeper[w] = Waiting(connected)
    BY DEF SweepsInit
  <2> QED BY <2>1, WaitingIs
<1>2. \A w \in Sweepers : Carries(wire[w], sweeper[w])
  BY CarriesNothing DEF SweepsInit
<1> QED BY <1>1, <1>2 DEF SweepsInit, SweepsInv, SweepsTypeOK, TokensDiffer, LeasedOwn

(* A worker that asks for the lease takes a token nobody knows. *)
LEMMA AcquireKeeps ==
  ASSUME SweepsInv, NEW w \in Sweepers, Acquire(w)
  PROVE  SweepsInv'
<1> DEFINE token == CHOOSE token \in Tokens \ Known : TRUE
           n == [sweeper[w] EXCEPT !.at = "set", !.token = token, !.sent = 1, !.lapsed = FALSE]
<1>1. token \in Tokens /\ token \notin Known
  BY DEF Acquire
<1> HIDE DEF token
<1>2. IsSweeper(sweeper[w]) /\ sweeper[w].at = "wait"
  BY DEF SweepsInv, SweepsTypeOK, Acquire
<1>3. IsSweeper(n) /\ n.at = "set" /\ n.token = token
  BY <1>1, <1>2, SweepsAssumption DEF IsSweeper
<1>4. sweeper' = [sweeper EXCEPT ![w] = n]
  BY DEF Acquire, token
<1> HIDE DEF n
<1>5. wire' = [wire EXCEPT ![w] = Append(wire[w], [op |-> "set", token |-> token])]
  BY DEF Acquire, Sends, token, SweepsInv, SweepsTypeOK
<1>6. Carries(Append(wire[w], [op |-> "set", token |-> token]), n)
  <2>1. wire[w] = <<>> BY <1>2, WireEmpty
  <2> QED BY <1>3, <2>1, CarriesMore, CarriesNothing
<1>7. \A v \in Sweepers : sweeper[v].token # token
  BY <1>1 DEF Known
<1>8. owner' = owner /\ owner \in Tokens \cup {NoToken}
  BY DEF Acquire, SweepsInv, SweepsTypeOK
<1> QED BY <1>3, <1>4, <1>5, <1>6, <1>7, <1>8, OneSweeper DEF ByLease

(* A step of a worker that sends nothing and keeps its token, or gives it up. *)
LEMMA QuietStep ==
  ASSUME SweepsInv, NEW w \in Sweepers, NEW n, IsSweeper(n),
         sweeper' = [sweeper EXCEPT ![w] = n], UNCHANGED <<owner, wire>>,
         wire[w] = <<>> \/ n.at = sweeper[w].at,
         n.token \in {NoToken, sweeper[w].token},
         wire[w] # <<>> => n.token = sweeper[w].token,
         ByLease(n) => owner = n.token
  PROVE  SweepsInv'
<1>1. Carries(wire[w], n)
  BY CarriesNothing DEF SweepsInv, SweepsTypeOK, Carries
<1>2. wire' = [wire EXCEPT ![w] = wire[w]] /\ owner' \in Tokens \cup {NoToken}
  BY DEF SweepsInv, SweepsTypeOK
<1>3. n.token # NoToken => \A v \in Sweepers : v # w => sweeper[v].token # n.token
  BY OwnToken
<1> QED BY <1>1, <1>2, <1>3, OneSweeper

(* A step of a worker that sends a command about its token. *)
LEMMA SendingStep ==
  ASSUME SweepsInv, NEW w \in Sweepers, NEW n, IsSweeper(n), ~ByLease(n),
         sweeper' = [sweeper EXCEPT ![w] = n], UNCHANGED owner,
         n.at \in {"set", "get", "release"}, n.token = sweeper[w].token,
         wire[w] = <<>> \/ n.at = sweeper[w].at,
         Sends(w, n.at, n.token)
  PROVE  SweepsInv'
<1> DEFINE q == Append(wire[w], [op |-> n.at, token |-> n.token])
<1>1. Carries(wire[w], n)
  BY CarriesNothing DEF SweepsInv, SweepsTypeOK, Carries
<1>2. Carries(q, n)
  BY <1>1, CarriesMore
<1>3. wire' = [wire EXCEPT ![w] = q]
  BY DEF Sends, SweepsInv, SweepsTypeOK
<1> HIDE DEF q
<1>4. \A v \in Sweepers : v # w => sweeper[v].token # n.token
  BY OwnToken DEF IsSweeper
<1>5. owner' \in Tokens \cup {NoToken}
  BY DEF SweepsInv, SweepsTypeOK
<1> QED BY <1>2, <1>3, <1>4, <1>5, OneSweeper

(* The client of a worker is destroyed: it has no lease any more. *)
LEMMA DestroyingStep ==
  ASSUME SweepsInv, NEW w \in Sweepers, NEW n, IsSweeper(n), ~ByLease(n),
         sweeper' = [sweeper EXCEPT ![w] = n], Destroys(w),
         n.token \in {NoToken, sweeper[w].token}
  PROVE  SweepsInv'
<1>1. wire' = [wire EXCEPT ![w] = <<>>] /\ Carries(<<>>, n)
  BY CarriesNothing DEF Destroys
<1>2. n.token # NoToken => \A v \in Sweepers : v # w => sweeper[v].token # n.token
  BY OwnToken
<1>3. Carries(wire[w], sweeper[w]) /\ owner \in Tokens \cup {NoToken}
  BY DEF SweepsInv, SweepsTypeOK
<1>4. \A i \in DOMAIN wire[w] : wire[w][i].token \in Tokens
  <2>1. wire[w] \in Seq(Commands) BY <1>3 DEF Carries
  <2>2. \A i \in DOMAIN wire[w] : wire[w][i] \in Commands BY <2>1
  <2> QED BY <2>2 DEF Commands
<1>5. owner' \in Tokens \cup {NoToken}
  BY <1>3, <1>4 DEF Destroys
<1>6. \A v \in Sweepers : v # w /\ ByLease(sweeper[v]) => owner' = owner
  <2> SUFFICES ASSUME NEW v \in Sweepers, ByLease(sweeper[v]) PROVE owner' = owner
    OBVIOUS
  <2>1. owner = sweeper[v].token /\ IsSweeper(sweeper[v])
    BY DEF SweepsInv, LeasedOwn, SweepsTypeOK
  <2>2. owner # NoToken
    BY <2>1 DEF IsSweeper, ByLease
  <2> QED BY <2>2 DEF Destroys
<1> QED BY <1>1, <1>2, <1>5, <1>6, OneSweeper

(* Every other step of a worker. *)
LEMMA WorkerKeeps ==
  ASSUME SweepsInv, NEW w \in Sweepers,
         \/ SweepUnconnected(w) \/ AskOwner(w) \/ Resend(w) \/ RedisFails(w)
         \/ SweepEnds(w) \/ SweepFails(w) \/ ReleaseEnds(w)
         \/ Stop(w) \/ Dies(w) \/ Restart(w)
  PROVE  SweepsInv'
<1> DEFINE m == sweeper[w]
<1>1. IsSweeper(m) /\ owner \in Tokens \cup {NoToken}
  BY DEF SweepsInv, SweepsTypeOK
<1>2. ByLease(m) => owner = m.token
  BY DEF SweepsInv, LeasedOwn
<1>3. m.at \notin {"set", "get", "release"} => wire[w] = <<>>
  BY WireEmpty
<1>4. CASE SweepUnconnected(w)
  <2>1. IsSweeper(Sweeps(w, FALSE)) /\ Sweeps(w, FALSE).token = m.token /\ ~Sweeps(w, FALSE).leased
    BY <1>1, SweepsIs
  <2> QED BY <1>3, <1>4, <2>1, QuietStep DEF SweepUnconnected, ByLease
<1>5. CASE AskOwner(w)
  <2> DEFINE n == [m EXCEPT !.sent = 1]
  <2>1. IsSweeper(n) /\ n.at = "get" /\ n.token = m.token /\ ~ByLease(n)
    BY <1>1, <1>5 DEF IsSweeper, AskOwner, ByLease
  <2>2. sweeper' = [sweeper EXCEPT ![w] = n] /\ UNCHANGED owner /\ Sends(w, n.at, n.token) /\ m.at = "get"
    BY <1>1, <1>5, <2>1 DEF AskOwner, SweepsInv, SweepsTypeOK
  <2> HIDE DEF n
  <2> QED BY <2>1, <2>2, SendingStep
<1>6. CASE Resend(w)
  <2> DEFINE n == [m EXCEPT !.sent = 2]
  <2>1. IsSweeper(n) /\ n.at = m.at /\ n.token = m.token /\ ~ByLease(n) /\ n.at \in {"set", "get"}
    BY <1>1, <1>6 DEF IsSweeper, Resend, ByLease
  <2>2. sweeper' = [sweeper EXCEPT ![w] = n] /\ UNCHANGED owner /\ Sends(w, n.at, n.token)
    BY <1>1, <1>6, <2>1 DEF Resend, SweepsInv, SweepsTypeOK
  <2> HIDE DEF n
  <2> QED BY <2>1, <2>2, SendingStep
<1>7. CASE RedisFails(w)
  <2> DEFINE n == [Sweeps(w, FALSE) EXCEPT !.connected = FALSE]
  <2>1. IsSweeper(n) /\ n.token = m.token /\ ~n.leased
    BY <1>1, SweepsIs
  <2>2. sweeper' = [sweeper EXCEPT ![w] = n] /\ Destroys(w)
    BY <1>7 DEF RedisFails
  <2> HIDE DEF n
  <2> QED BY <2>1, <2>2, DestroyingStep DEF ByLease
<1>8. ASSUME NEW failed \in BOOLEAN, Ends(w, failed) PROVE SweepsInv'
  <2>1. m.at = "sweep" /\ wire[w] = <<>> /\ UNCHANGED owner
    BY <1>3, <1>8 DEF Ends
  <2>2. CASE m.leased
    <3> DEFINE n == [m EXCEPT !.at = "release", !.failed = failed]
    <3>1. IsSweeper(n) /\ n.at = "release" /\ n.token = m.token /\ ~ByLease(n)
      BY <1>1, <2>2 DEF IsSweeper, ByLease
    <3>2. sweeper' = [sweeper EXCEPT ![w] = n] /\ Sends(w, n.at, n.token)
      BY <1>1, <1>8, <2>2, <3>1 DEF Ends, SweepsInv, SweepsTypeOK
    <3> HIDE DEF n
    <3> QED BY <2>1, <3>1, <3>2, SendingStep
  <2>3. CASE ~m.leased
    <3> DEFINE n == IF failed THEN Ended(sweeper[w].stopping) ELSE Pauses(w)
    <3>1. IsSweeper(n) /\ n.token = NoToken /\ ~ByLease(n)
      BY <1>1, PausesIs, EndedIs DEF IsSweeper
    <3>2. sweeper' = [sweeper EXCEPT ![w] = n] /\ UNCHANGED wire
      BY <1>8, <2>3 DEF Ends
    <3> HIDE DEF n
    <3> QED BY <2>1, <3>1, <3>2, QuietStep
  <2> QED BY <2>2, <2>3
<1>9. CASE ReleaseEnds(w)
  <2>1. IsSweeper(Pauses(w)) /\ Pauses(w).token = NoToken /\ ~ByLease(Pauses(w))
    BY <1>1, PausesIs
  <2>2. sweeper' = [sweeper EXCEPT ![w] = Pauses(w)] /\ wire' = [wire EXCEPT ![w] = <<>>]
        /\ owner' = owner
    BY <1>9 DEF ReleaseEnds
  <2> QED BY <1>1, <2>1, <2>2, CarriesNothing, OneSweeper
<1>10. CASE Stop(w)
  <2> DEFINE n == IF m.at = "wait" THEN Ended(TRUE) ELSE [m EXCEPT !.stopping = TRUE]
  <2>1. IsSweeper(n) /\ (m.at = "wait" => n.token = NoToken /\ ~ByLease(n))
        /\ (m.at # "wait" => n.token = m.token /\ n.at = m.at /\ (ByLease(n) <=> ByLease(m)))
    <3>1. CASE m.at = "wait" BY <3>1, EndedIs
    <3>2. CASE m.at # "wait" BY <1>1, <3>2 DEF IsSweeper, ByLease
    <3> QED BY <3>1, <3>2
  <2>2. sweeper' = [sweeper EXCEPT ![w] = n] /\ UNCHANGED <<owner, wire>>
    BY <1>10 DEF Stop, SweepsInv, SweepsTypeOK
  <2> HIDE DEF n
  <2>3. n.token \in {NoToken, m.token} /\ (ByLease(n) => owner = n.token)
        /\ (wire[w] = <<>> \/ n.at = m.at) /\ (wire[w] # <<>> => n.token = m.token)
    BY <1>2, <1>3, <2>1
  <2> QED BY <2>1, <2>2, <2>3, QuietStep
<1>11. CASE Dies(w)
  <2>1. IsSweeper(Ended(m.stopping)) /\ Ended(m.stopping).token = NoToken /\ ~ByLease(Ended(m.stopping))
    BY <1>1, EndedIs DEF IsSweeper
  <2> QED BY <1>11, <2>1, DestroyingStep DEF Dies
<1>12. CASE Restart(w)
  <2>1. PICK connected \in BOOLEAN : sweeper' = [sweeper EXCEPT ![w] = Waiting(connected)]
    BY <1>12 DEF Restart
  <2>2. IsSweeper(Waiting(connected)) /\ Waiting(connected).token = NoToken /\ ~ByLease(Waiting(connected))
    BY WaitingIs
  <2> QED BY <1>3, <1>12, <2>1, <2>2, QuietStep DEF Restart
<1> QED BY <1>4, <1>5, <1>6, <1>7, <1>8, <1>9, <1>10, <1>11, <1>12 DEF SweepEnds, SweepFails

(***************************************************************************)
(* Redis carries a command out: a release takes the key from its sender    *)
(* only, and a SET gives it away only when nobody has it.                  *)
(***************************************************************************)
LEMMA HandleKeeps ==
  ASSUME SweepsInv, NEW w \in Sweepers, Handle(w)
  PROVE  SweepsInv'
<1> DEFINE m == sweeper[w]
           command == Head(wire[w])
           set == command.op = "set" /\ owner = NoToken
<1>1. IsSweeper(m) /\ Carries(wire[w], m) /\ owner \in Tokens \cup {NoToken}
  BY DEF SweepsInv, SweepsTypeOK
<1>2. wire[w] # <<>> BY DEF Handle
<1>3. Carries(Tail(wire[w]), m) /\ command.op = m.at /\ command.token = m.token
      /\ m.at \in {"set", "get", "release"}
  BY <1>1, <1>2, CarriesLess
<1>4. owner' = CASE command.op = "release" -> Deleted(command.token)
                 [] set -> command.token
                 [] OTHER -> owner
  BY DEF Handle
<1>5. wire' = [wire EXCEPT ![w] = Tail(wire[w])]
  BY DEF Handle, SweepsInv, SweepsTypeOK
<1> HIDE DEF command
<1>6. /\ owner' = IF m.at = "release" THEN Deleted(m.token) ELSE IF set THEN m.token ELSE owner
      /\ m.token \in Tokens /\ ~ByLease(m)
  BY <1>1, <1>3, <1>4 DEF IsSweeper, ByLease
<1>7. owner' \in Tokens \cup {NoToken}
  BY <1>1, <1>6 DEF Deleted
<1>8. \A v \in Sweepers : v # w => sweeper[v].token # m.token
  BY <1>3, OwnToken, <1>1 DEF IsSweeper
<1>9. \A v \in Sweepers : v # w /\ ByLease(sweeper[v]) => owner' = owner
  <2> SUFFICES ASSUME NEW v \in Sweepers, v # w, ByLease(sweeper[v]) PROVE owner' = owner
    OBVIOUS
  <2>1. owner = sweeper[v].token /\ IsSweeper(sweeper[v])
    BY DEF SweepsInv, LeasedOwn, SweepsTypeOK
  <2>2. owner # NoToken /\ owner # m.token
    BY <1>8, <2>1 DEF IsSweeper, ByLease
  <2> QED BY <1>6, <2>2 DEF Deleted
<1>10. CASE UNCHANGED sweeper
  <2>1. sweeper' = [sweeper EXCEPT ![w] = m]
    BY <1>10 DEF SweepsInv, SweepsTypeOK
  <2> QED BY <1>1, <1>3, <1>5, <1>6, <1>7, <1>8, <1>9, <2>1, OneSweeper
<1>11. CASE Len(wire[w]) = 1 /\ sweeper' = [sweeper EXCEPT ![w] = AnswerOf(w, command.op, set)]
  <2> DEFINE n == AnswerOf(w, command.op, set)
  <2>1. Tail(wire[w]) = <<>>
    <3>1. wire[w] \in Seq(Commands) BY <1>1 DEF Carries
    <3>2. Tail(wire[w]) \in Seq(Commands) /\ Len(Tail(wire[w])) = 0 BY <1>2, <1>11, <3>1
    <3> QED BY <3>2, NothingSent
  <2>2. set \in BOOLEAN OBVIOUS
  <2>3. IsSweeper(n) /\ n.token \in {NoToken, m.token} /\ (ByLease(n) => owner' = n.token)
    <3>1. CASE m.at = "set" /\ set
      <4>1. n = Sweeps(w, TRUE) BY <1>3, <3>1 DEF AnswerOf
      <4>2. owner' = m.token BY <1>6, <3>1
      <4>3. m.token # NoToken BY <1>6, SweepsAssumption
      <4> QED BY <1>1, <4>1, <4>2, <4>3, SweepsIs
    <3>2. CASE m.at = "set" /\ ~set
      <4>1. n = Taken(w) BY <1>3, <3>2 DEF AnswerOf
      <4> QED BY <1>1, <3>2, <4>1, TakenIs
    <3>3. CASE m.at = "get" /\ owner = m.token
      <4>1. n = Sweeps(w, TRUE) BY <1>3, <3>3 DEF AnswerOf
      <4>2. owner' = m.token BY <1>3, <1>6, <3>3
      <4>3. m.token # NoToken BY <1>6, SweepsAssumption
      <4> QED BY <1>1, <4>1, <4>2, <4>3, SweepsIs
    <3>4. CASE m.at = "get" /\ owner # m.token
      <4>1. n = Pauses(w) BY <1>3, <3>4 DEF AnswerOf
      <4> QED BY <1>1, <4>1, PausesIs
    <3>5. CASE m.at = "release"
      <4>1. n = m BY <1>3, <3>5 DEF AnswerOf
      <4> QED BY <1>1, <1>6, <4>1
    <3> QED BY <1>3, <3>1, <3>2, <3>3, <3>4, <3>5
  <2>4. sweeper' = [sweeper EXCEPT ![w] = n]
    BY <1>11
  <2>5. wire' = [wire EXCEPT ![w] = <<>>] /\ Carries(<<>>, n)
    BY <1>5, <2>1, CarriesNothing
  <2> HIDE DEF n
  <2> QED BY <1>7, <1>8, <1>9, <2>3, <2>4, <2>5, OneSweeper
<1> QED BY <1>10, <1>11 DEF Handle, command

(* A key that lapses has lapsed for whoever had it. *)
LEMMA LapseKeeps ==
  ASSUME SweepsInv, Lapse
  PROVE  SweepsInv'
<1> DEFINE after(w) == [sweeper[w] EXCEPT !.lapsed = sweeper[w].lapsed \/ sweeper[w].token = owner]
<1>1. sweeper' = [w \in Sweepers |-> after(w)] /\ owner' = NoToken /\ wire' = wire
  BY DEF Lapse
<1>2. \A w \in Sweepers : /\ IsSweeper(sweeper[w]) /\ Carries(wire[w], sweeper[w])
                          /\ ByLease(sweeper[w]) => owner = sweeper[w].token
  BY DEF SweepsInv, SweepsTypeOK, LeasedOwn
<1>3. ASSUME NEW w \in Sweepers
      PROVE  /\ IsSweeper(after(w)) /\ after(w).at = sweeper[w].at
             /\ after(w).token = sweeper[w].token /\ ~ByLease(after(w))
  BY <1>2 DEF IsSweeper, ByLease
<1> HIDE DEF after
<1>4. \A w \in Sweepers : Carries(wire[w], after(w))
  BY <1>2, <1>3 DEF Carries
<1>5. SweepsTypeOK'
  BY <1>1, <1>3, <1>4 DEF SweepsInv, SweepsTypeOK
<1>6. TokensDiffer'
  BY <1>1, <1>3 DEF SweepsInv, TokensDiffer
<1>7. LeasedOwn'
  BY <1>1, <1>3 DEF LeasedOwn
<1> QED BY <1>5, <1>6, <1>7 DEF SweepsInv

(* Every step of workers and of Redis keeps the invariant. *)
LEMMA SweepKeeps == SweepsInv /\ [SweepStep]_sweepVars => SweepsInv'
<1> SUFFICES ASSUME SweepsInv, [SweepStep]_sweepVars PROVE SweepsInv'
  OBVIOUS
<1>1. CASE Lapse BY <1>1, LapseKeeps
<1>2. CASE \E w \in Sweepers : Acquire(w) \/ Handle(w)
  BY <1>2, AcquireKeeps, HandleKeeps
<1>3. CASE \E w \in Sweepers :
             \/ SweepUnconnected(w) \/ AskOwner(w) \/ Resend(w) \/ RedisFails(w)
             \/ SweepEnds(w) \/ SweepFails(w) \/ ReleaseEnds(w)
             \/ Stop(w) \/ Dies(w) \/ Restart(w)
  BY <1>3, WorkerKeeps
<1>4. CASE UNCHANGED sweepVars
  BY <1>4 DEF sweepVars, SweepsInv, SweepsTypeOK, TokensDiffer, LeasedOwn
<1> QED BY <1>1, <1>2, <1>3, <1>4 DEF SweepStep

(* Who sweeps by the lease owns the key, and no two tokens are alike. *)
THEOREM SweepsInvariant == SweepsSpec => []SweepsInv
<1> QED BY SweepsInitInv, SweepKeeps, PTL DEF SweepsSpec

(***************************************************************************)
(* At most one worker sweeps by a lease that did not lapse, for any number *)
(* of workers, crashes, time-outs and commands that arrive late or twice.  *)
(***************************************************************************)
THEOREM LeasedSweepsStayAlone == SweepsSpec => []LeasedSweepsAreAlone
<1>1. SweepsInv => LeasedSweepsAreAlone
  <2> SUFFICES ASSUME SweepsInv, NEW v \in Sweepers, NEW w \in Sweepers,
                      ByLease(sweeper[v]), ByLease(sweeper[w])
               PROVE  v = w
    BY DEF LeasedSweepsAreAlone, ByLease
  <2>1. sweeper[v].token = sweeper[w].token
    BY DEF SweepsInv, LeasedOwn
  <2>2. sweeper[v].token # NoToken
    BY DEF SweepsInv, SweepsTypeOK, IsSweeper, ByLease
  <2> QED BY <2>1, <2>2 DEF SweepsInv, TokensDiffer
<1> QED BY <1>1, SweepsInvariant, PTL

===============================================================================
