----------------------------- MODULE MCAdmissions -----------------------------
(***************************************************************************)
(* A small instance of Admissions for TLC, and what must happen in it in   *)
(* the end.                                                                *)
(***************************************************************************)
EXTENDS Admissions

CONSTANTS a1, i1, d1, c1, w1, w2, p1, p2

VARIABLE cast  \* the bound: who takes part in a behaviour beside the admission

MCEventOf == [e \in Events |-> i1]

MCSubscriber == [p \in Periods |-> a1]

\* Two passes that overlap over two events of the admission, which may contradict
\* each other, or differ in their receipts; or one event and a direct caller of
\* the usage service; or one event and a redeem campaign.
Cast(events, workers, direct, codes) ==
  [events |-> events, workers |-> workers, direct |-> direct, codes |-> codes,
   refunds |-> TRUE, second |-> p1]

MCCasts == {Cast({1, 2}, {w1, w2}, {}, {}),
            [Cast({1, 2}, {w1, w2}, {}, {}) EXCEPT !.refunds = FALSE, !.second = p2],
            Cast({1}, {w1}, {d1}, {}),
            Cast({1}, {w1}, {}, {c1})}

InCast ==
  /\ \A e \in Events \ cast.events : event[e] = NoEvent
  /\ \A w \in Workers \ cast.workers : todo[w] = <<>>
  /\ \A h \in Direct \ cast.direct : hold[h] = NoHold /\ usage[h] = NoUsage
  /\ cast.codes = {} => ~campaign.open
  /\ ~cast.refunds => \A g \in Grants : ~grant[g].paid
  /\ \A e \in Events : event[e].payload \in {IF e = 2 THEN cast.second ELSE p1, None}
  /\ \A c \in DOMAIN receipt : receipt[c][i1] = p2 => event[2].payload = p2

MCInit == Init /\ cast \in MCCasts
MCNext == Next /\ cast' = cast /\ InCast'
MCSpec == MCInit /\ [][MCNext]_<<vars, cast>> /\ Fairness({w1})

(***************************************************************************)
(* No hold keeps credit for ever, even one whose admission is forgotten or *)
(* whose grants were refunded under it: the expiry daemon gets to it.      *)
(***************************************************************************)
HoldsEnd == \A h \in Holds : hold[h].status = "active" ~> hold[h].status # "active"

\* Why an event can stay unprocessed: its admission does not exist (yet), ended
\* the other way, was captured or released with another receipt, or lost its
\* credit to the expiry of the hold or to a refund.
Blocked(e) ==
  LET i == EventOf[e]
      command == IF event[e].kind = "accepted" THEN "capture" ELSE "release"
  IN  \/ admission[i].status = "absent"
      \/ receipt[command][i] \notin {None, event[e].payload}
      \/ command = "capture" /\ (admission[i].status = "released" \/ Refunded(i))
      \/ command = "release" /\ admission[i].status = "captured"
      \/ hold[i].status = "expired"

\* The batches hold nothing but older events that are blocked.
Starved(e) == Cardinality({f \in Received : f < e /\ Blocked(f)}) >= EventLimit

(***************************************************************************)
(* Every event that was recorded is processed in the end, unless one of    *)
(* the reasons above holds or a batch's worth of older events is blocked   *)
(* by them: overlapping passes, crashes, events that fail at every pass    *)
(* and events that arrive before their admission delay it but lose none.   *)
(***************************************************************************)
EventsConverge == \A e \in Events :
  event[e].status = "received" ~> event[e].status = "processed" \/ Blocked(e) \/ Starved(e)
===============================================================================
