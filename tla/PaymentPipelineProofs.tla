-------------------------- MODULE PaymentPipelineProofs --------------------------
(***************************************************************************)
(* What holds of PaymentPipeline for any number of payments, refunds and   *)
(* workers: its types, and that events are dead-lettered only when their   *)
(* attempts are used up, that processed events had their effect, and that  *)
(* credit is that of payments and refunds, each counted once; and that the *)
(* webhook adapters tell of a sale only what the provider did.             *)
(***************************************************************************)
EXTENDS PaymentPipeline, ProviderEvents, CreditAmountsProofs

(* The assumptions on the constants, unfolded once. *)
LEMMA Constants ==
  /\ IsFiniteSet(Payments) /\ IsFiniteSet(RefundEvents)
  /\ PaymentEvents \cap RefundEvents = {}
  /\ payment \in [Events -> Payments]
  /\ PaidMinor \in Nat /\ PaidMinor > 0 /\ RefundAmounts \subseteq 1 .. PaidMinor
  /\ Credit \in Nat /\ Credit > 0
  /\ MaxAttempts \in Nat /\ MaxAttempts > 0 /\ MaxResets \in Nat
  /\ None \notin Workers /\ None \notin Events
BY PipelineAssumption, SMT

(* Events are those of payments and those of refunds. *)
LEMMA EventsSplit ==
  ASSUME NEW e \in Events
  PROVE  (e \in PaymentEvents \/ e \in RefundEvents) /\ ~(e \in PaymentEvents /\ e \in RefundEvents)
BY Constants DEF Events

(* A worker that is at a step is at work on an event. *)
LEMMA AtWork ==
  ASSUME TypeOK, NEW w \in Workers, job[w] # Idle
  PROVE  /\ job[w].event \in Events /\ job[w].attempt \in Attempts
         /\ job[w].step \in {"read", "process", "publish", "giveUp"}
         /\ job[w] = [event |-> job[w].event, step |-> job[w].step, attempt |-> job[w].attempt]
BY DEF TypeOK, Jobs

(* The step a worker is at tells whether it is idle. *)
LEMMA StepNotIdle ==
  ASSUME TypeOK, NEW w \in Workers, job[w].step # "idle"
  PROVE  job[w] # Idle
BY DEF Idle

(* The sums of refunds are natural numbers, and the share of one an integer. *)
LEMMA ShareType ==
  ASSUME TypeOK, NEW r \in RefundEvents, NEW S, S \subseteq RefundEvents
  PROVE  /\ IsFiniteSet(S)
         /\ Sum(S, amount) \in Nat /\ Sum(S, reversed) \in Nat
         /\ Share(r) \in Int
<1>1. \A T \in SUBSET RefundEvents : IsFiniteSet(T)
  BY Constants, FS_Subset
<1>2. \A x \in RefundEvents : amount[x] \in Int /\ reversed[x] \in Int
  BY Constants DEF TypeOK
<1>3. \A T \in SUBSET RefundEvents : Sum(T, amount) \in Nat /\ Sum(T, reversed) \in Nat
  <2> TAKE T \in SUBSET RefundEvents
  <2>1. \A x \in T : amount[x] \in Int /\ reversed[x] \in Int
    BY <1>2
  <2> QED BY <1>1, <2>1, SumType
<1>4. Share(r) \in Int
  <2> DEFINE before == TakenBack(payment[r]) \ {r}
             total == Sum(before, amount) + amount[r]
  <2>1. before \in SUBSET RefundEvents
    BY DEF TakenBack, RefundsOf
  <2>2. Sum(before, amount) \in Nat /\ Sum(before, reversed) \in Nat
    BY <1>3, <2>1
  <2>3. total \in Int
    BY <1>2, <2>2
  <2> HIDE DEF before, total
  <2>4. Credit * total \in Int
    BY <2>3, Constants
  <2>5. OfPaid(Credit * total) \in Int
    BY <2>4, Constants DEF OfPaid
  <2>6. Share(r) = OfPaid(Credit * total) - Sum(before, reversed)
    BY DEF Share, before, total
  <2> QED BY <2>2, <2>5, <2>6
<1> QED BY <1>1, <1>3, <1>4

-------------------------------------------------------------------------------
(* A worker that goes to another step keeps the type of its job. *)
LEMMA GoToType ==
  ASSUME TypeOK, NEW w \in Workers, job[w] # Idle,
         NEW step \in {"read", "process", "publish", "giveUp"}, GoTo(w, step)
  PROVE  job' \in [Workers -> Jobs]
<1>1. [job[w] EXCEPT !.step = step] \in Jobs
  <2>1. /\ job[w].event \in Events /\ job[w].attempt \in Attempts
        /\ job[w] = [event |-> job[w].event, step |-> job[w].step, attempt |-> job[w].attempt]
    BY AtWork
  <2>2. [job[w] EXCEPT !.step = step] =
          [event |-> job[w].event, step |-> step, attempt |-> job[w].attempt]
    BY <2>1
  <2> QED BY <2>1, <2>2 DEF Jobs
<1> QED BY <1>1 DEF TypeOK, GoTo

(* Types are kept by every action. *)
LEMMA TypeStep ==
  ASSUME TypeOK, [Next]_vars
  PROVE  TypeOK'
<1> USE Constants
<1>1. ASSUME NEW e \in Events, Accept(e) PROVE TypeOK'
  <2>1. amount' \in [RefundEvents -> 0 .. PaidMinor]
    BY <1>1 DEF Accept, TypeOK
  <2>2. BegunAnew \in Rows /\ BegunAnew.holder = None
    BY DEF BegunAnew, NoRow, Rows, Attempts
  <2>3. inbox' \in [Events -> {"absent", "received", "processed"}]
    BY <1>1 DEF Accept, TypeOK
  <2> QED BY <1>1, <2>1, <2>2, <2>3 DEF Accept, TypeOK, money
<1>2. ASSUME NEW e \in Events, AdminRetry(e) PROVE TypeOK'
  <2>1. BegunAnew \in Rows /\ BegunAnew.holder = None
    BY DEF BegunAnew, NoRow, Rows, Attempts
  <2>2. resets' \in 0 .. MaxResets
    BY <1>2 DEF AdminRetry, TypeOK
  <2> QED BY <1>2, <2>1, <2>2 DEF AdminRetry, Reset, TypeOK, money
<1>3. ASSUME NEW w \in Workers, NEW e \in Events, Claim(w, e) PROVE TypeOK'
  <2>1. NextAttempt(e) \in Attempts
    BY DEF NextAttempt, TypeOK, Rows, Attempts
  <2>2. [state |-> "live", holder |-> w, attempts |-> NextAttempt(e)] \in Rows
    BY <2>1 DEF Rows
  <2>3. [event |-> e, step |-> "read", attempt |-> NextAttempt(e)] \in Jobs
    BY <2>1 DEF Jobs
  <2> HIDE DEF NextAttempt
  <2> QED BY <1>3, <2>2, <2>3 DEF Claim, TypeOK, money
<1>4. ASSUME NEW w \in Workers, Crash(w) PROVE TypeOK'
  BY <1>4 DEF Crash, TypeOK, Jobs, money
<1>5. ASSUME NEW w \in Workers, Read(w) PROVE TypeOK'
  <2>1. job[w] # Idle
    BY <1>5, StepNotIdle DEF Read
  <2>2. job' \in [Workers -> Jobs]
    BY <1>5, <2>1, GoToType DEF Read
  <2> QED BY <1>5, <2>2 DEF Read, TypeOK, money
<1>6. ASSUME NEW w \in Workers, job[w] # Idle, Commits(w)
      PROVE  job' \in [Workers -> Jobs] /\ inbox' \in [Events -> {"absent", "received", "processed"}]
  <2>1. job' \in [Workers -> Jobs]
    BY <1>6, GoToType DEF Commits
  <2> QED BY <1>6, <2>1 DEF Commits, TypeOK
<1>7. ASSUME NEW w \in Workers, ProcessPayment(w) PROVE TypeOK'
  <2> DEFINE e == job[w].event
  <2>1. job[w] # Idle
    BY <1>7, StepNotIdle DEF ProcessPayment
  <2>2. e \in PaymentEvents /\ payment[e] \in Payments
    BY <1>7, <2>1, AtWork DEF ProcessPayment
  <2>3. job' \in [Workers -> Jobs] /\ inbox' \in [Events -> {"absent", "received", "processed"}]
    BY <1>6, <1>7, <2>1 DEF ProcessPayment
  <2>4. settlement' \in [Payments -> PaymentEvents \cup {None}]
    BY <1>7, <2>2 DEF ProcessPayment, RecordSettlement, TypeOK
  <2>5. granted' \subseteq Payments /\ remaining' \in [Payments -> 0 .. Credit] /\ available' \in Nat
    BY <1>7, <2>2 DEF ProcessPayment, FulfillSettlement, TypeOK
  <2> QED BY <1>7, <2>3, <2>4, <2>5 DEF ProcessPayment, TypeOK
<1>8. ASSUME NEW r \in RefundEvents, ReverseCredits(r)
      PROVE  /\ reversed' \in [RefundEvents -> 0 .. Credit]
             /\ remaining' \in [Payments -> 0 .. Credit] /\ available' \in Nat
  <2>1. payment[r] \in Payments
    BY DEF Events
  <2>2. Share(r) \in Int
    BY ShareType
  <2>3. CASE Reversed(r)
    BY <1>8, <2>3 DEF ReverseCredits, TypeOK
  <2>4. CASE ~Reversed(r)
    <3>1. remaining[payment[r]] \in 0 .. Credit /\ available \in Nat
      BY <2>1 DEF TypeOK
    <3>2. Share(r) > 0 /\ Share(r) <= remaining[payment[r]] /\ Share(r) <= available
      BY <1>8, <2>4 DEF ReverseCredits, Covered
    <3>3. Share(r) \in 0 .. Credit /\ remaining[payment[r]] - Share(r) \in 0 .. Credit
          /\ available - Share(r) \in Nat
      BY <2>2, <3>1, <3>2
    <3>4. /\ reversed' = [reversed EXCEPT ![r] = Share(r)]
          /\ remaining' = [remaining EXCEPT ![payment[r]] = remaining[payment[r]] - Share(r)]
          /\ available' = available - Share(r)
      BY <1>8, <2>4 DEF ReverseCredits
    <3> QED BY <3>3, <3>4 DEF TypeOK
  <2> QED BY <2>3, <2>4
<1>9. ASSUME NEW w \in Workers, ProcessRefund(w) PROVE TypeOK'
  <2> DEFINE r == job[w].event
  <2>1. job[w] # Idle
    BY <1>9, StepNotIdle DEF ProcessRefund
  <2>2. r \in RefundEvents /\ RecordReversal(r) /\ ReverseCredits(r) /\ Commits(w)
    BY <1>9 DEF ProcessRefund
  <2>3. job' \in [Workers -> Jobs] /\ inbox' \in [Events -> {"absent", "received", "processed"}]
    BY <1>6, <2>1, <2>2
  <2>4. /\ reversed' \in [RefundEvents -> 0 .. Credit]
        /\ remaining' \in [Payments -> 0 .. Credit] /\ available' \in Nat
    BY <1>8, <2>2
  <2>5. reversal' \subseteq RefundEvents
    BY <2>2 DEF RecordReversal, TypeOK
  <2> QED BY <1>9, <2>3, <2>4, <2>5 DEF ProcessRefund, TypeOK
<1>11. ASSUME NEW w \in Workers, Fail(w) PROVE TypeOK'
  <2>1. job[w] # Idle
    BY <1>11, StepNotIdle DEF Fail
  <2>2. job' \in [Workers -> Jobs]
    BY <1>11, <2>1, GoToType DEF Fail
  <2> QED BY <1>11, <2>2 DEF Fail, TypeOK, money
<1>12. ASSUME NEW w \in Workers, NEW state \in {"live", "published", "dead"}, Report(w, state)
       PROVE  TypeOK'
  <2>1. job' \in [Workers -> Jobs]
    BY <1>12 DEF Report, TypeOK, Jobs
  <2>2. \A e \in Events : Ended(e, state) \in Rows /\ Ended(e, state).holder = None
    <3>1. TAKE e \in Events
    <3>2. row[e] \in Rows BY Zenon DEF TypeOK
    <3>3. state \in {"absent", "live", "published", "dead"} /\ None \in Workers \cup {None}
      BY <1>12, Zenon
    <3> HIDE <1>12
    <3> QED BY <3>2, <3>3 DEF Ended, Rows
  <2>3. row' \in [Events -> Rows] /\ \A e \in Events : row'[e].holder # None => row'[e].state = "live"
    <3>1. CASE Owns(w)
      BY <1>12, <2>2, <3>1 DEF Report, TypeOK
    <3>2. CASE ~Owns(w)
      BY <1>12, <3>2 DEF Report, TypeOK
    <3> QED BY <3>1, <3>2
  <2> QED BY <1>12, <2>1, <2>3 DEF Report, TypeOK, money
<1>13. ASSUME NEW p \in Payments, Spend(p) PROVE TypeOK'
  <2>1. remaining[p] - 1 \in 0 .. Credit /\ available - 1 \in Nat /\ spent[p] + 1 \in Nat
    BY <1>13 DEF Spend, TypeOK
  <2>2. /\ remaining' = [remaining EXCEPT ![p] = remaining[p] - 1]
        /\ spent' = [spent EXCEPT ![p] = spent[p] + 1]
    BY <1>13 DEF Spend
  <2> QED BY <1>13, <2>1, <2>2 DEF Spend, TypeOK
<1>14. CASE UNCHANGED vars
  BY <1>14 DEF vars, money, TypeOK
<1> HIDE Constants
<1> QED BY <1>1, <1>2, <1>3, <1>4, <1>5, <1>7, <1>9, <1>11, <1>12, <1>13, <1>14
        DEF Next, Proceed, Publish, GiveUp

(* The empty tables have their types. *)
LEMMA PipelineTypeInit == Init => TypeOK
BY Constants DEF Init, TypeOK, NoRow, Rows, Attempts, Jobs

(***************************************************************************)
(* The tables and jobs keep their types: no balance or remainder is ever   *)
(* negative, and a row that left the outbox has no token.                  *)
(***************************************************************************)
THEOREM PipelineTypeCorrect == Spec => []TypeOK
<1>1. Init => TypeOK
  BY PipelineTypeInit
<1>2. TypeOK /\ [Next]_vars => TypeOK'
  BY TypeStep
<1> QED BY <1>1, <1>2, PTL DEF Spec

-------------------------------------------------------------------------------
(***************************************************************************)
(* Dead letters. A row that still has the token of a worker also has the   *)
(* number of the attempt that this worker counts.                          *)
(***************************************************************************)
Tokens == \A w \in Workers : Owns(w) => row[job[w].event].attempts = job[w].attempt

DeadInv == TypeOK /\ Tokens /\ DeadIsExhausted

(* A worker that goes to another step keeps its event and its attempt, and the rest theirs. *)
LEMMA GoToFrame ==
  ASSUME TypeOK, NEW w \in Workers, job[w] # Idle, NEW step, GoTo(w, step)
  PROVE  /\ job'[w].event = job[w].event /\ job'[w].attempt = job[w].attempt
         /\ job'[w].step = step
         /\ \A v \in Workers \ {w} : job'[v] = job[v]
<1>1. job[w] = [event |-> job[w].event, step |-> job[w].step, attempt |-> job[w].attempt]
  BY AtWork
<1> DEFINE next == [event |-> job[w].event, step |-> step, attempt |-> job[w].attempt]
<1>2. [job[w] EXCEPT !.step = step] = next
  BY <1>1
<1>3. job' = [job EXCEPT ![w] = next]
  BY <1>2 DEF GoTo
<1>4. DOMAIN job = Workers
  BY DEF TypeOK
<1>5. job'[w] = next
  <2> HIDE DEF next
  <2> QED BY <1>3, <1>4
<1>6. \A v \in Workers \ {w} : job'[v] = job[v]
  <2> HIDE DEF next
  <2> QED BY <1>3, <1>4
<1> QED BY <1>5, <1>6

(* Going to another step disturbs neither tokens nor dead letters. *)
LEMMA GoToTokens ==
  ASSUME DeadInv, NEW w \in Workers, job[w] # Idle, NEW step, GoTo(w, step), UNCHANGED row
  PROVE  Tokens' /\ DeadIsExhausted'
<1>1. \A v \in Workers : job'[v].event = job[v].event /\ job'[v].attempt = job[v].attempt
  BY GoToFrame DEF DeadInv
<1>2. \A v \in Workers \ {w} : job'[v] = job[v]
  BY GoToFrame DEF DeadInv
<1>3. \A v \in Workers : Owns(v)' => Owns(v)
  BY <1>1, <1>2 DEF Owns
<1> QED BY <1>1, <1>3 DEF DeadInv, Tokens, DeadIsExhausted

(* A row that begins anew is nobody's and not dead. *)
LEMMA BegunAnewTokens ==
  ASSUME DeadInv, NEW e \in Events, row' = [row EXCEPT ![e] = BegunAnew], UNCHANGED job
  PROVE  Tokens' /\ DeadIsExhausted'
<1>1. row'[e].holder = None /\ row'[e].state = "live"
  BY DEF DeadInv, TypeOK, BegunAnew, NoRow
<1>2. \A d \in Events \ {e} : row'[d] = row[d]
  BY DEF DeadInv, TypeOK
<1>3. ASSUME NEW w \in Workers, Owns(w)' PROVE Owns(w) /\ job[w].event \in Events \ {e}
  <2>1. job[w].event \in Events
    BY <1>3, AtWork DEF Owns, DeadInv
  <2>2. job[w].event # e
    BY <1>1, <1>3, Constants DEF Owns
  <2> QED BY <1>2, <1>3, <2>1, <2>2 DEF Owns
<1> QED BY <1>1, <1>2, <1>3 DEF DeadInv, Tokens, DeadIsExhausted

(* Tokens and dead letters are kept by every action. *)
LEMMA DeadStep ==
  ASSUME DeadInv, [Next]_vars
  PROVE  DeadInv'
<1> USE DEF DeadInv
<1>0. TypeOK'
  BY TypeStep
<1>1. ASSUME NEW e \in Events, Accept(e) \/ AdminRetry(e) PROVE Tokens' /\ DeadIsExhausted'
  BY <1>1, BegunAnewTokens DEF Accept, AdminRetry, Reset
<1>2. ASSUME NEW w \in Workers, NEW e \in Events, Claim(w, e)
      PROVE  Tokens' /\ DeadIsExhausted'
  <2>1. /\ row'[e].state = "live" /\ row'[e].holder = w /\ row'[e].attempts = NextAttempt(e)
        /\ \A d \in Events \ {e} : row'[d] = row[d]
    BY <1>2 DEF Claim, TypeOK
  <2>2. /\ job'[w].event = e /\ job'[w].attempt = NextAttempt(e)
        /\ \A v \in Workers \ {w} : job'[v] = job[v]
    BY <1>2 DEF Claim, TypeOK
  <2>3. ASSUME NEW v \in Workers \ {w}, Owns(v)'
        PROVE  Owns(v) /\ job[v].event \in Events \ {e}
    <3>1. job[v] # Idle /\ row'[job[v].event].holder = v
      BY <2>2, <2>3 DEF Owns
    <3>2. job[v].event \in Events
      BY <3>1, AtWork
    <3>3. job[v].event # e
      BY <2>1, <3>1
    <3> QED BY <2>1, <2>2, <2>3, <3>1, <3>2, <3>3 DEF Owns
  <2>4. Tokens'
    BY <2>1, <2>2, <2>3 DEF Tokens
  <2> QED BY <2>1, <2>4 DEF DeadIsExhausted
<1>3. ASSUME NEW w \in Workers, Crash(w) PROVE Tokens' /\ DeadIsExhausted'
  <2>1. job'[w] = Idle /\ \A v \in Workers \ {w} : job'[v] = job[v]
    BY <1>3 DEF Crash, TypeOK
  <2>2. row' = row
    BY <1>3 DEF Crash
  <2>3. \A v \in Workers : Owns(v)' => v # w /\ Owns(v)
    BY <2>1, <2>2 DEF Owns
  <2> QED BY <2>1, <2>2, <2>3 DEF Tokens, DeadIsExhausted
<1>4. ASSUME NEW w \in Workers, Proceed(w) \/ Fail(w) PROVE Tokens' /\ DeadIsExhausted'
  <2>1. job[w] # Idle
    BY <1>4, StepNotIdle DEF Proceed, Read, ProcessPayment, ProcessRefund, Commits, Fail
  <2>2. UNCHANGED row /\ \E step : GoTo(w, step)
    BY <1>4 DEF Proceed, Read, ProcessPayment, ProcessRefund, Commits, Fail
  <2> QED BY <2>1, <2>2, GoToTokens
<1>5. ASSUME NEW w \in Workers, NEW state \in {"live", "published", "dead"}, Report(w, state),
             job[w] # Idle, state = "dead" => job[w].attempt >= MaxAttempts
      PROVE  Tokens' /\ DeadIsExhausted'
  <2> DEFINE e == job[w].event
  <2>1. e \in Events
    BY <1>5, AtWork
  <2>2. job'[w] = Idle /\ \A v \in Workers \ {w} : job'[v] = job[v]
    BY <1>5 DEF Report, TypeOK
  <2>3. \A v \in Workers : Owns(v)' => v # w /\ job[v] # Idle
    BY <2>2 DEF Owns
  <2>4. CASE ~Owns(w)
    <3>1. row' = row
      BY <1>5, <2>4 DEF Report
    <3>2. \A v \in Workers : Owns(v)' => v # w /\ Owns(v)
      BY <2>2, <2>3, <3>1 DEF Owns
    <3> QED BY <2>2, <3>1, <3>2 DEF Tokens, DeadIsExhausted
  <2>5. CASE Owns(w)
    <3>1. /\ row'[e].state = state /\ row'[e].holder = None /\ row'[e].attempts = row[e].attempts
          /\ \A d \in Events \ {e} : row'[d] = row[d]
      <4>1. row' = [row EXCEPT ![e] = Ended(e, state)]
        BY <1>5, <2>5 DEF Report
      <4>2. DOMAIN row = Events /\ row[e] \in Rows
        BY <2>1 DEF TypeOK
      <4>3. /\ Ended(e, state).state = state /\ Ended(e, state).holder = None
            /\ Ended(e, state).attempts = row[e].attempts
        BY <4>2 DEF Ended, Rows
      <4>4. row'[e] = Ended(e, state) /\ \A d \in Events \ {e} : row'[d] = row[d]
        BY <2>1, <4>1, <4>2
      <4> QED BY <4>3, <4>4
    <3>2. row[e].attempts = job[w].attempt
      BY <2>5 DEF Tokens
    <3>3. ASSUME NEW v \in Workers, Owns(v)'
          PROVE  v # w /\ Owns(v) /\ job[v].event \in Events \ {e}
      <4>1. v # w /\ job[v] # Idle /\ job'[v] = job[v]
        BY <2>2, <2>3, <3>3
      <4>2. job[v].event \in Events
        BY <4>1, AtWork
      <4>3. job[v].event # e
        BY <3>1, <3>3, <4>1, Constants DEF Owns
      <4> QED BY <3>1, <3>3, <4>1, <4>2, <4>3 DEF Owns
    <3>4. Tokens'
      BY <2>2, <3>1, <3>3 DEF Tokens
    <3>5. DeadIsExhausted'
      BY <1>5, <3>1, <3>2 DEF DeadIsExhausted
    <3> QED BY <3>4, <3>5
  <2> QED BY <2>4, <2>5
<1>6. ASSUME NEW w \in Workers, Publish(w) \/ GiveUp(w) PROVE Tokens' /\ DeadIsExhausted'
  <2>1. job[w] # Idle
    BY <1>6, StepNotIdle DEF Publish, GiveUp
  <2>2. \E state \in {"live", "published", "dead"} :
          Report(w, state) /\ (state = "dead" => job[w].attempt >= MaxAttempts)
    BY <1>6 DEF Publish, GiveUp
  <2> QED BY <1>5, <2>1, <2>2
<1>7. ASSUME UNCHANGED <<row, job>> PROVE Tokens' /\ DeadIsExhausted'
  BY <1>7 DEF Tokens, DeadIsExhausted, Owns
<1>8. ASSUME UNCHANGED vars \/ \E p \in Payments : Spend(p) PROVE Tokens' /\ DeadIsExhausted'
  BY <1>7, <1>8 DEF vars, Spend
<1>9. Tokens' /\ DeadIsExhausted'
  BY <1>1, <1>2, <1>3, <1>4, <1>6, <1>8 DEF Next
<1> QED BY <1>0, <1>9

(***************************************************************************)
(* An event is dead-lettered only after MaxAttempts claims of its present  *)
(* try, however many workers stall and administrators retry.               *)
(***************************************************************************)
THEOREM DeadLettersAreExhausted == Spec => []DeadIsExhausted
<1>1. Init => DeadInv
  <2>1. Init => TypeOK
    BY PipelineTypeInit
  <2>2. Init => Tokens
    BY DEF Init, Tokens, Owns
  <2>3. Init => DeadIsExhausted
    BY DEF Init, DeadIsExhausted, NoRow
  <2> QED BY <2>1, <2>2, <2>3 DEF DeadInv
<1>2. DeadInv /\ [Next]_vars => DeadInv'
  BY DeadStep
<1>3. DeadInv => DeadIsExhausted
  BY DEF DeadInv
<1> QED BY <1>1, <1>2, <1>3, PTL DEF Spec

-------------------------------------------------------------------------------
(***************************************************************************)
(* Effects. A worker that publishes an event has its effect in the tables, *)
(* whoever made it: effects are never undone. An event that was not        *)
(* delivered yet has left no trace.                                        *)
(***************************************************************************)
Progress == \A w \in Workers : job[w].step = "publish" => Done(job[w].event)

Unheard ==
  \A e \in Events : inbox[e] = "absent" =>
    /\ row[e].state = "absent"
    /\ \A w \in Workers : job[w].event # e
    /\ e \in RefundEvents => e \notin reversal /\ reversed[e] = 0

EffectInv == TypeOK /\ Progress /\ Unheard /\ ProcessedIsDone

(* Recording a payment takes it from nobody who recorded it before. *)
LEMMA SettlementKept ==
  ASSUME TypeOK, NEW d \in PaymentEvents, RecordSettlement(d),
         NEW e \in PaymentEvents, settlement[payment[e]] = e
  PROVE  settlement'[payment[e]] = e
<1>1. e \in Events /\ e # None /\ payment[e] \in Payments
  BY Constants DEF Events
<1>2. settlement' = [settlement EXCEPT ![payment[d]] = d] /\ settlement[payment[d]] \in {None, d}
  BY DEF RecordSettlement, Recordable
<1>3. CASE payment[d] = payment[e]
  <2>1. d = e
    BY <1>1, <1>2, <1>3
  <2> QED BY <1>1, <1>2, <2>1 DEF TypeOK
<1>4. CASE payment[d] # payment[e]
  BY <1>1, <1>2, <1>4 DEF TypeOK
<1> QED BY <1>3, <1>4

(* What was taken back stays taken back. *)
LEMMA ReversedKept ==
  ASSUME TypeOK, NEW r \in RefundEvents, ReverseCredits(r), NEW e \in RefundEvents, reversed[e] > 0
  PROVE  reversed'[e] > 0
<1>1. CASE Reversed(r)
  BY <1>1 DEF ReverseCredits
<1>2. CASE ~Reversed(r)
  <2>1. reversed' = [reversed EXCEPT ![r] = Share(r)] /\ Share(r) > 0
    BY <1>2 DEF ReverseCredits
  <2>2. e # r
    BY <1>2 DEF Reversed
  <2> QED BY <2>1, <2>2 DEF TypeOK
<1> QED BY <1>1, <1>2

(* No step undoes an effect. *)
LEMMA EffectsKept ==
  ASSUME TypeOK, [Next]_vars, NEW e \in Events
  PROVE  Done(e) => Done(e)'
<1> DEFINE Kept == Done(e) => Done(e)'
<1>1. ASSUME UNCHANGED <<settlement, granted, reversal, reversed>> PROVE Kept
  BY <1>1 DEF Done
<1>2. ASSUME NEW w \in Workers, ProcessPayment(w) PROVE Kept
  <2>1. /\ job[w].event \in PaymentEvents /\ RecordSettlement(job[w].event)
        /\ UNCHANGED <<reversal, reversed>>
    BY <1>2 DEF ProcessPayment
  <2>2. granted \subseteq granted'
    BY <1>2 DEF ProcessPayment, FulfillSettlement
  <2>3. ASSUME e \in PaymentEvents, settlement[payment[e]] = e PROVE settlement'[payment[e]] = e
    BY <2>1, <2>3, SettlementKept
  <2> QED BY <2>1, <2>2, <2>3 DEF Done
<1>3. ASSUME NEW w \in Workers, ProcessRefund(w) PROVE Kept
  <2>1. /\ job[w].event \in RefundEvents /\ ReverseCredits(job[w].event)
        /\ UNCHANGED <<settlement, granted>>
    BY <1>3 DEF ProcessRefund
  <2>2. reversal \subseteq reversal'
    BY <1>3 DEF ProcessRefund, RecordReversal
  <2>3. ASSUME e \in RefundEvents, reversed[e] > 0 PROVE reversed'[e] > 0
    BY <2>1, <2>3, ReversedKept
  <2> QED BY <2>1, <2>2, <2>3 DEF Done
<1> HIDE DEF Kept
<1>6. ASSUME NEW d \in Events, Accept(d) \/ AdminRetry(d) PROVE Kept
  BY <1>1, <1>6 DEF Accept, AdminRetry, money
<1>7. ASSUME NEW w \in Workers,
             Crash(w) \/ Read(w) \/ Fail(w) \/ Publish(w) \/ GiveUp(w)
                      \/ \E d \in Events : Claim(w, d)
      PROVE  Kept
  BY <1>1, <1>7 DEF Crash, Read, Fail, Publish, GiveUp, Report, Claim, money
<1>8. ASSUME NEW p \in Payments, Spend(p) PROVE Kept
  BY <1>1, <1>8 DEF Spend
<1>9. ASSUME UNCHANGED vars PROVE Kept
  BY <1>1, <1>9 DEF vars, money
<1>10. Kept
  BY <1>2, <1>3, <1>6, <1>7, <1>8, <1>9 DEF Next, Proceed
<1> QED BY <1>10 DEF Kept

(* A worker may publish what has its effect. *)
LEMMA ProgressAfter ==
  ASSUME EffectInv, [Next]_vars, NEW w \in Workers, job[w] # Idle, NEW step, GoTo(w, step),
         step = "publish" => Done(job[w].event)'
  PROVE  Progress' /\ \A v \in Workers : job'[v].event = job[v].event
<1>1. /\ job'[w].event = job[w].event /\ job'[w].step = step
      /\ \A v \in Workers \ {w} : job'[v] = job[v]
  BY GoToFrame DEF EffectInv
<1>2. \A v \in Workers : job[v].step # "idle" => job[v].event \in Events
  BY AtWork, StepNotIdle DEF EffectInv
<1>3. job'[w].event = job[w].event
  BY <1>1
<1>4. ASSUME NEW v \in Workers
      PROVE  job'[v].step = "publish" => Done(job[v].event)'
  <2>1. CASE v = w
    BY <1>1, <2>1
  <2>2. CASE v # w
    <3>1. job[v].step = "publish" => Done(job[v].event)
      BY DEF EffectInv, Progress
    <3> QED BY <1>1, <1>2, <2>2, <3>1, EffectsKept DEF EffectInv
  <2> QED BY <2>1, <2>2
<1>5. \A v \in Workers : job'[v].event = job[v].event
  BY <1>1
<1> QED BY <1>4, <1>5 DEF Progress, Done

(* What was not delivered stays without a trace when rows and effects stay. *)
LEMMA UnheardAfter ==
  ASSUME EffectInv, \A w \in Workers : job'[w].event \in {job[w].event, None},
         \A e \in Events : inbox'[e] = "absent" => inbox[e] = "absent" /\ row'[e] = row[e],
         \A e \in RefundEvents : inbox'[e] = "absent" =>
           (e \notin reversal => e \notin reversal') /\ (reversed[e] = 0 => reversed'[e] = 0)
  PROVE  Unheard'
<1>1. ASSUME NEW e \in Events, inbox'[e] = "absent"
      PROVE  /\ row'[e].state = "absent"
             /\ \A w \in Workers : job'[w].event # e
             /\ e \in RefundEvents => e \notin reversal' /\ reversed'[e] = 0
  <2>1. /\ row[e].state = "absent" /\ \A w \in Workers : job[w].event # e
        /\ e \in RefundEvents => e \notin reversal /\ reversed[e] = 0
    BY <1>1 DEF EffectInv, Unheard
  <2>2. e # None
    BY Constants
  <2> QED BY <1>1, <2>1, <2>2
<1> QED BY <1>1 DEF Unheard

(* The event a worker is at work on has been delivered. *)
LEMMA WorkIsHeard ==
  ASSUME EffectInv, NEW w \in Workers, job[w] # Idle
  PROVE  job[w].event \in Events /\ inbox[job[w].event] # "absent"
BY AtWork DEF EffectInv, Unheard

(* Processed and published events stay done when no more of them become so. *)
LEMMA DoneAfter ==
  ASSUME EffectInv, [Next]_vars,
         \A e \in Events : \/ ~(inbox'[e] = "processed" \/ row'[e].state = "published")
                           \/ inbox[e] = "processed" \/ row[e].state = "published"
                           \/ Done(e)'
  PROVE  ProcessedIsDone'
<1>1. ASSUME NEW e \in Events, inbox'[e] = "processed" \/ row'[e].state = "published"
      PROVE  Done(e)'
  <2>1. Done(e) \/ Done(e)'
    BY <1>1 DEF EffectInv, ProcessedIsDone
  <2> QED BY <2>1, EffectsKept DEF EffectInv
<1> QED BY <1>1 DEF ProcessedIsDone, Done

(* Effects are kept by every action. *)
LEMMA EffectStep ==
  ASSUME EffectInv, [Next]_vars
  PROVE  Progress' /\ Unheard' /\ ProcessedIsDone'
<1> DEFINE Kept == Progress' /\ Unheard' /\ ProcessedIsDone'
<1>1. ASSUME NEW e \in Events, Accept(e) \/ AdminRetry(e) PROVE Kept
  <2>1. /\ row' = [row EXCEPT ![e] = BegunAnew]
        /\ UNCHANGED <<job, settlement, granted, reversal, reversed>>
    BY <1>1 DEF Accept, AdminRetry, Reset, money
  <2>2. /\ inbox'[e] = "received" /\ row'[e].state = "live"
        /\ \A d \in Events \ {e} : inbox'[d] = inbox[d] /\ row'[d] = row[d]
    BY <1>1, <2>1 DEF Accept, AdminRetry, EffectInv, TypeOK, BegunAnew, NoRow
  <2>3. Progress'
    BY <2>1 DEF EffectInv, Progress, Done
  <2>4. Unheard'
    BY <2>1, <2>2, UnheardAfter
  <2>5. ProcessedIsDone'
    BY <2>2, DoneAfter
  <2> QED BY <2>3, <2>4, <2>5
<1>2. ASSUME NEW w \in Workers, NEW e \in Events, Claim(w, e) PROVE Kept
  <2>1. /\ job'[w].step = "read" /\ job'[w].event = e /\ \A v \in Workers \ {w} : job'[v] = job[v]
        /\ row'[e].state = "live" /\ \A d \in Events \ {e} : row'[d] = row[d]
        /\ UNCHANGED <<inbox, settlement, granted, reversal, reversed>>
    BY <1>2 DEF Claim, EffectInv, TypeOK, money
  <2>2. inbox[e] # "absent"
    BY <1>2 DEF Claim, EffectInv, Unheard
  <2>3. Progress'
    BY <2>1 DEF EffectInv, Progress, Done
  <2>4. Unheard'
    BY <2>1, <2>2 DEF EffectInv, Unheard
  <2>5. ProcessedIsDone'
    BY <2>1, DoneAfter
  <2> QED BY <2>3, <2>4, <2>5
<1>3. ASSUME NEW w \in Workers, Crash(w) PROVE Kept
  <2>1. /\ job'[w] = Idle /\ \A v \in Workers \ {w} : job'[v] = job[v]
        /\ UNCHANGED <<inbox, row, settlement, granted, reversal, reversed>>
    BY <1>3 DEF Crash, EffectInv, TypeOK, money
  <2>2. job'[w].step = "idle" /\ job'[w].event = None
    BY <2>1 DEF Idle
  <2>3. Progress'
    BY <2>1, <2>2 DEF EffectInv, Progress, Done
  <2>4. Unheard'
    BY <2>1, <2>2, UnheardAfter
  <2>5. ProcessedIsDone'
    BY <2>1, DoneAfter
  <2> QED BY <2>3, <2>4, <2>5
<1>4. ASSUME NEW w \in Workers, NEW step, job[w] # Idle, GoTo(w, step), UNCHANGED row,
             UNCHANGED inbox
               \/ (Done(job[w].event)' /\ inbox' = [inbox EXCEPT ![job[w].event] = "processed"]),
             reversal' \subseteq reversal \cup {job[w].event},
             \A r \in RefundEvents : r # job[w].event => reversed'[r] = reversed[r],
             step = "publish" => Done(job[w].event)'
      PROVE  Kept
  <2> DEFINE e == job[w].event
  <2>1. Progress' /\ \A v \in Workers : job'[v].event = job[v].event
    BY <1>4, ProgressAfter
  <2>2. e \in Events /\ inbox[e] # "absent"
    BY <1>4, WorkIsHeard
  <2>3. /\ \A d \in Events \ {e} : inbox'[d] = inbox[d]
        /\ inbox'[e] \in {inbox[e], "processed"}
        /\ inbox'[e] = "processed" => inbox[e] = "processed" \/ Done(e)'
    BY <1>4, <2>2 DEF EffectInv, TypeOK
  <2>4. Unheard'
    BY <1>4, <2>1, <2>2, <2>3, UnheardAfter
  <2>5. \A d \in Events : \/ ~(inbox'[d] = "processed" \/ row'[d].state = "published")
                          \/ inbox[d] = "processed" \/ row[d].state = "published"
                          \/ Done(d)'
    <3>1. job'[w].event = e
      BY <2>1
    <3>2. Done(e)' => \A d \in Events : d = e => Done(d)'
      BY <3>1 DEF Done
    <3> QED BY <1>4, <2>3, <3>2
  <2>6. ProcessedIsDone'
    BY <2>5, DoneAfter
  <2> QED BY <2>1, <2>4, <2>6
<1>5. ASSUME NEW w \in Workers, Read(w) PROVE Kept
  <2>1. job[w] # Idle
    BY <1>5, StepNotIdle DEF Read, EffectInv
  <2>2. UNCHANGED <<inbox, row, settlement, granted, reversal, reversed>>
    BY <1>5 DEF Read, money
  <2>3. CASE NeedsNothing(job[w].event)
    <3>1. Done(job[w].event)'
      <4>1. job'[w].event = job[w].event
        BY <1>5, <2>1, GoToFrame DEF Read, EffectInv
      <4>2. Done(job[w].event)
        BY <2>1, <2>3, WorkIsHeard DEF NeedsNothing, EffectInv, ProcessedIsDone
      <4> QED BY <2>2, <4>1, <4>2 DEF Done
    <3> QED BY <1>4, <1>5, <2>1, <2>2, <2>3, <3>1 DEF Read
  <2>4. CASE ~NeedsNothing(job[w].event)
    <3>1. GoTo(w, "process")
      BY <1>5, <2>4 DEF Read
    <3> QED BY <1>4, <2>1, <2>2, <3>1
  <2> QED BY <2>3, <2>4
<1>6. ASSUME NEW w \in Workers, job[w] # Idle, Commits(w), Done(job[w].event)', UNCHANGED row,
             reversal' \subseteq reversal \cup {job[w].event},
             \A r \in RefundEvents : r # job[w].event => reversed'[r] = reversed[r]
      PROVE  Kept
  <2>1. \E step : GoTo(w, step)
    BY <1>6 DEF Commits
  <2> QED BY <1>4, <1>6, <2>1 DEF Commits
<1>7. ASSUME NEW w \in Workers, ProcessPayment(w) PROVE Kept
  <2> DEFINE e == job[w].event
  <2>1. job[w] # Idle
    BY <1>7, StepNotIdle DEF ProcessPayment, EffectInv
  <2>2. e \in PaymentEvents /\ payment[e] \in Payments
    BY <1>7, <2>1, AtWork, Constants DEF ProcessPayment, EffectInv
  <2>3. settlement'[payment[e]] = e
    BY <1>7, <2>2 DEF ProcessPayment, RecordSettlement, EffectInv, TypeOK
  <2>4. payment[e] \in granted'
    BY <1>7 DEF ProcessPayment, FulfillSettlement, Fulfilled
  <2>5. job'[w].event = e
    BY <1>7, <2>1, GoToFrame DEF ProcessPayment, Commits, EffectInv
  <2>6. Done(e)'
    BY <2>2, <2>3, <2>4, <2>5 DEF Done
  <2> QED BY <1>6, <1>7, <2>1, <2>6 DEF ProcessPayment
<1>8. ASSUME NEW w \in Workers, ProcessRefund(w) PROVE Kept
  <2> DEFINE r == job[w].event
  <2>1. job[w] # Idle
    BY <1>8, StepNotIdle DEF ProcessRefund, EffectInv
  <2>2. r \in RefundEvents /\ ReverseCredits(r)
    BY <1>8 DEF ProcessRefund
  <2>3. r \in reversal' /\ reversal' \subseteq reversal \cup {r}
    BY <1>8 DEF ProcessRefund, RecordReversal
  <2>4. reversed'[r] > 0 /\ \A q \in RefundEvents : q # r => reversed'[q] = reversed[q]
    <3>1. CASE Reversed(r)
      BY <2>2, <3>1 DEF ReverseCredits, Reversed
    <3>2. CASE ~Reversed(r)
      BY <2>2, <3>2 DEF ReverseCredits, EffectInv, TypeOK
    <3> QED BY <3>1, <3>2
  <2>5. job'[w].event = r
    BY <1>8, <2>1, GoToFrame DEF ProcessRefund, Commits, EffectInv
  <2>6. Done(r)'
    BY <2>2, <2>3, <2>4, <2>5 DEF Done
  <2> QED BY <1>6, <1>8, <2>1, <2>3, <2>4, <2>6 DEF ProcessRefund
<1>11. ASSUME NEW w \in Workers, Fail(w) PROVE Kept
  <2>1. job[w] # Idle
    BY <1>11, StepNotIdle DEF Fail, EffectInv
  <2>2. GoTo(w, "giveUp") /\ UNCHANGED <<row, reversal, reversed, inbox>>
    BY <1>11 DEF Fail, money
  <2> QED BY <1>4, <2>1, <2>2
<1>12. ASSUME NEW w \in Workers, NEW state \in {"live", "published", "dead"}, Report(w, state),
              job[w] # Idle, state = "published" => Done(job[w].event)
       PROVE  Kept
  <2> DEFINE e == job[w].event
  <2>1. e \in Events /\ inbox[e] # "absent"
    BY <1>12, WorkIsHeard
  <2>2. /\ job'[w] = Idle /\ \A v \in Workers \ {w} : job'[v] = job[v]
        /\ UNCHANGED <<inbox, settlement, granted, reversal, reversed>>
    BY <1>12 DEF Report, EffectInv, TypeOK, money
  <2>3. job'[w].step = "idle" /\ job'[w].event = None
    BY <2>2 DEF Idle
  <2>4. /\ \A d \in Events \ {e} : row'[d] = row[d]
        /\ row'[e].state \in {row[e].state, state}
    <3>1. CASE ~Owns(w)
      BY <1>12, <3>1 DEF Report
    <3>2. CASE Owns(w)
      <4>1. row' = [row EXCEPT ![e] = Ended(e, state)] /\ DOMAIN row = Events /\ row[e] \in Rows
        BY <1>12, <2>1, <3>2 DEF Report, EffectInv, TypeOK
      <4>2. Ended(e, state).state = state
        BY <4>1 DEF Ended, Rows
      <4> QED BY <2>1, <4>1, <4>2
    <3> QED BY <3>1, <3>2
  <2>5. Progress'
    BY <2>2, <2>3 DEF EffectInv, Progress, Done
  <2>6. Unheard'
    BY <2>1, <2>2, <2>3, <2>4, UnheardAfter
  <2>7. ASSUME NEW d \in Events, row'[d].state = "published", row[d].state # "published"
        PROVE  Done(d)'
    <3>1. d = e /\ state = "published"
      BY <2>4, <2>7
    <3>2. Done(d)
      BY <1>12, <3>1
    <3> QED BY <3>2, EffectsKept DEF EffectInv
  <2>8. ProcessedIsDone'
    BY <2>2, <2>7, DoneAfter
  <2> QED BY <2>5, <2>6, <2>8
<1>13. ASSUME NEW w \in Workers, Publish(w) \/ GiveUp(w) PROVE Kept
  <2>1. job[w] # Idle
    BY <1>13, StepNotIdle DEF Publish, GiveUp, EffectInv
  <2>2. job[w].step = "publish" => Done(job[w].event)
    BY DEF EffectInv, Progress
  <2>3. CASE Publish(w)
    BY <1>12, <2>1, <2>2, <2>3 DEF Publish
  <2>4. CASE GiveUp(w)
    <3>1. Report(w, "dead") \/ Report(w, "live")
      BY <2>4 DEF GiveUp
    <3> QED BY <1>12, <2>1, <3>1
  <2> QED BY <1>13, <2>3, <2>4
<1>14. ASSUME UNCHANGED <<inbox, row, job, settlement, granted, reversal, reversed>> PROVE Kept
  <2>1. Progress'
    BY <1>14 DEF EffectInv, Progress, Done
  <2>2. Unheard'
    BY <1>14, UnheardAfter
  <2>3. ProcessedIsDone'
    BY <1>14, DoneAfter
  <2> QED BY <2>1, <2>2, <2>3
<1>15. ASSUME UNCHANGED vars \/ \E p \in Payments : Spend(p) PROVE Kept
  BY <1>14, <1>15 DEF vars, money, Spend
<1> HIDE DEF Kept
<1>16. Kept
  BY <1>1, <1>2, <1>3, <1>5, <1>7, <1>8, <1>11, <1>13, <1>15 DEF Next, Proceed
<1> QED BY <1>16 DEF Kept

(* Effects are as the steps tell, always. *)
LEMMA EffectsAreKept == Spec => []EffectInv
<1>1. Init => EffectInv
  <2>1. Init => Progress
    BY DEF Init, Progress, Idle
  <2>2. Init => Unheard
    BY Constants DEF Init, Unheard, NoRow, Idle
  <2>3. Init => ProcessedIsDone
    BY DEF Init, ProcessedIsDone, NoRow
  <2> QED BY <2>1, <2>2, <2>3, PipelineTypeInit DEF EffectInv
<1>2. EffectInv /\ [Next]_vars => EffectInv'
  <2> SUFFICES ASSUME EffectInv, [Next]_vars PROVE EffectInv'
    OBVIOUS
  <2>1. TypeOK'
    BY TypeStep DEF EffectInv
  <2> QED BY <2>1, EffectStep DEF EffectInv
<1> QED BY <1>1, <1>2, PTL DEF Spec

(***************************************************************************)
(* Whatever the inbox calls processed, or the outbox published, had its    *)
(* effect, whichever workers did its steps.                                *)
(***************************************************************************)
THEOREM ProcessedEventsAreDone == Spec => []ProcessedIsDone
<1>1. EffectInv => ProcessedIsDone
  BY DEF EffectInv
<1> QED BY <1>1, EffectsAreKept, PTL

-------------------------------------------------------------------------------
(***************************************************************************)
(* Credit. The sums over refunds and grants move with the one row that an  *)
(* action changes.                                                         *)
(***************************************************************************)
CreditInv ==
  EffectInv /\ CreditIsPayments /\ ReversalIsProportional /\ RefundsWithinPayment

(* A sum moves by as much as the one row that changes. *)
LEMMA SumMoves ==
  ASSUME NEW S, IsFiniteSet(S), NEW f, \A y \in S : f[y] \in Nat,
         NEW g, NEW x \in S, g[x] \in Nat, \A y \in S : y # x => g[y] = f[y]
  PROVE  Sum(S, g) = Sum(S, f) - f[x] + g[x]
<1>1. Sum(S, f) = f[x] + Sum(S \ {x}, f) /\ Sum(S \ {x}, f) \in Nat
  BY SumRemove
<1>2. \A y \in S : g[y] \in Nat
  OBVIOUS
<1>3. Sum(S, g) = g[x] + Sum(S \ {x}, g)
  BY <1>2, SumRemove
<1>4. Sum(S \ {x}, g) = Sum(S \ {x}, f)
  BY SumEqual
<1>5. f[x] \in Nat /\ g[x] \in Nat
  OBVIOUS
<1> QED BY <1>1, <1>3, <1>4, <1>5

(* A sum grows by what is added to its set. *)
LEMMA SumGrows ==
  ASSUME NEW S, IsFiniteSet(S), NEW x, x \notin S, NEW f, f[x] \in Nat, \A y \in S : f[y] \in Nat
  PROVE  Sum(S \cup {x}, f) = Sum(S, f) + f[x]
<1>1. \A y \in S : f[y] \in Nat /\ f[y] = f[y]
  OBVIOUS
<1> QED BY <1>1, SumInsert

(* The refunds of a payment are finitely many, and their sums are natural numbers. *)
LEMMA RefundSums ==
  ASSUME TypeOK, NEW S, S \subseteq RefundEvents
  PROVE  /\ IsFiniteSet(S) /\ Sum(S, amount) \in Nat /\ Sum(S, reversed) \in Nat
         /\ \A r \in S : amount[r] \in Nat /\ reversed[r] \in Nat
<1>1. IsFiniteSet(S)
  BY Constants, FS_Subset
<1>2. \A r \in RefundEvents : amount[r] \in Nat /\ reversed[r] \in Nat
  BY Constants DEF TypeOK
<1>3. Sum(S, amount) \in Nat /\ Sum(S, reversed) \in Nat
  BY <1>1, <1>2, SumType
<1> QED BY <1>1, <1>2, <1>3

(* Steps that touch neither refunds nor credit. *)
LEMMA CreditUntouched ==
  ASSUME CreditInv, UNCHANGED <<amount, granted, remaining, reversal, reversed, available, spent>>
  PROVE  CreditIsPayments' /\ ReversalIsProportional' /\ RefundsWithinPayment'
BY DEF CreditInv, CreditIsPayments, ReversalIsProportional, RefundsWithinPayment,
       TakenBack, RefundsOf

(* A delivery tells the amount of a refund that no table mentions yet. *)
LEMMA AcceptCredit ==
  ASSUME CreditInv, NEW e \in Events, Accept(e)
  PROVE  CreditIsPayments' /\ ReversalIsProportional' /\ RefundsWithinPayment'
<1>1. UNCHANGED money
  BY DEF Accept
<1>2. CASE e \in PaymentEvents /\ UNCHANGED amount
  BY <1>1, <1>2, CreditUntouched DEF money
<1>3. CASE e \in RefundEvents /\ \E n \in RefundAmounts : amount' = [amount EXCEPT ![e] = n]
  <2>1. e \notin reversal /\ reversed[e] = 0
    BY <1>3 DEF Accept, CreditInv, EffectInv, Unheard
  <2>2. \A r \in RefundEvents : r # e => amount'[r] = amount[r]
    BY <1>3 DEF CreditInv, EffectInv, TypeOK
  <2>3. CreditIsPayments'
    BY <1>1 DEF CreditInv, CreditIsPayments, money, RefundsOf
  <2>4. ReversalIsProportional'
    <3>1. \A p \in Payments : TakenBack(p)' = TakenBack(p)
      BY <1>1 DEF TakenBack, RefundsOf, money
    <3>2. ASSUME NEW p \in Payments
          PROVE  Sum(TakenBack(p), amount') = Sum(TakenBack(p), amount)
      <4>1. \A r \in TakenBack(p) : amount'[r] = amount[r]
        BY <2>1, <2>2 DEF TakenBack, RefundsOf
      <4> QED BY <4>1, SumEqual
    <3>3. reversed' = reversed
      BY <1>1 DEF money
    <3> QED BY <3>1, <3>2, <3>3 DEF CreditInv, ReversalIsProportional, OfPaid
  <2>5. RefundsWithinPayment'
    <3>1. ASSUME NEW p \in Payments
          PROVE  Sum(RefundsOf(p) \cap reversal, amount') = Sum(RefundsOf(p) \cap reversal, amount)
      <4>1. \A r \in RefundsOf(p) \cap reversal : amount'[r] = amount[r]
        BY <2>1, <2>2 DEF RefundsOf
      <4> QED BY <4>1, SumEqual
    <3>2. reversal' = reversal
      BY <1>1 DEF money
    <3> QED BY <3>1, <3>2 DEF CreditInv, RefundsWithinPayment, RefundsOf
  <2> QED BY <2>3, <2>4, <2>5
<1> QED BY <1>2, <1>3 DEF Accept

(* A grant appears where nothing was: the payment had no credit, usage or refund. *)
LEMMA FulfillCredit ==
  ASSUME CreditInv, NEW p \in Payments, FulfillSettlement(p),
         UNCHANGED <<amount, reversal, reversed, spent>>
  PROVE  CreditIsPayments' /\ ReversalIsProportional' /\ RefundsWithinPayment'
<1>1. UNCHANGED <<amount, reversal, reversed, spent>>
  OBVIOUS
<1>2. ReversalIsProportional' /\ RefundsWithinPayment'
  BY <1>1 DEF CreditInv, ReversalIsProportional, RefundsWithinPayment, TakenBack, RefundsOf
<1>3. CASE Fulfilled(p)
  <2>1. UNCHANGED <<amount, granted, remaining, reversal, reversed, available, spent>>
    BY <1>1, <1>3 DEF FulfillSettlement
  <2> QED BY <2>1, CreditUntouched
<1>4. CASE ~Fulfilled(p)
  <2>2. p \in Payments
    OBVIOUS
  <2>3. /\ p \notin granted /\ granted' = granted \cup {p}
        /\ remaining' = [remaining EXCEPT ![p] = Credit] /\ available' = available + Credit
    BY <1>4 DEF FulfillSettlement, Fulfilled
  <2>4. \A q \in Payments : remaining[q] \in Nat /\ spent[q] \in Nat
    BY Constants DEF CreditInv, EffectInv, TypeOK
  <2>5. \A q \in Payments : Sum(RefundsOf(q), reversed) \in Nat
    BY RefundSums DEF RefundsOf, CreditInv, EffectInv
  <2>6. remaining[p] = 0 /\ spent[p] + Sum(RefundsOf(p), reversed) = 0
    <3>1. remaining[p] + spent[p] + Sum(RefundsOf(p), reversed) = 0
      BY <2>2, <2>3 DEF CreditInv, CreditIsPayments
    <3> QED BY <2>2, <2>4, <2>5, <3>1
  <2>7. remaining'[p] = Credit /\ \A q \in Payments : q # p => remaining'[q] = remaining[q]
    BY <2>2, <2>3 DEF CreditInv, EffectInv, TypeOK
  <2>8. ASSUME NEW q \in Payments
        PROVE  remaining'[q] + spent'[q] + Sum(RefundsOf(q), reversed)' =
                 IF q \in granted' THEN Credit ELSE 0
    <3>1. Sum(RefundsOf(q), reversed)' = Sum(RefundsOf(q), reversed) /\ spent'[q] = spent[q]
      BY <1>1 DEF RefundsOf
    <3>2. CASE q = p
      BY <2>3, <2>4, <2>5, <2>6, <2>7, <3>1, <3>2, Constants
    <3>3. CASE q # p
      <4>1. remaining[q] + spent[q] + Sum(RefundsOf(q), reversed) =
              IF q \in granted THEN Credit ELSE 0
        BY DEF CreditInv, CreditIsPayments
      <4> QED BY <2>3, <2>7, <3>1, <3>3, <4>1
    <3> QED BY <3>2, <3>3
  <2>9. available' = Sum(Payments, remaining)'
    <3>1. Sum(Payments, remaining') = Sum(Payments, remaining) - remaining[p] + remaining'[p]
      BY <2>2, <2>4, <2>7, Constants, SumMoves
    <3>2. available = Sum(Payments, remaining) /\ available \in Nat
      BY DEF CreditInv, CreditIsPayments, EffectInv, TypeOK
    <3> QED BY <2>3, <2>6, <2>7, <3>1, <3>2, Constants
  <2> QED BY <1>2, <2>8, <2>9 DEF CreditIsPayments
<1> QED BY <1>2, <1>3, <1>4

(* A recorded refund was within the payment, together with those before it. *)
LEMMA RecordReversalCredit ==
  ASSUME CreditInv, NEW r \in RefundEvents, RecordReversal(r), UNCHANGED amount
  PROVE  RefundsWithinPayment'
<1> DEFINE p == payment[r]
           before == RefundsOf(p) \cap reversal
<1>1. UNCHANGED amount /\ reversal' = reversal \cup {r} /\ r \in RefundEvents
  BY DEF RecordReversal
<1>3. CASE r \in reversal
  <2>1. reversal' = reversal
    BY <1>1, <1>3
  <2> QED BY <1>1, <2>1 DEF CreditInv, RefundsWithinPayment, RefundsOf
<1>4. CASE r \notin reversal
  <2>1. Sum(before, amount) + amount[r] <= PaidMinor
    <3>1. before \ {r} = before
      BY <1>4
    <3> QED BY <1>4, <3>1 DEF RecordReversal, WithinPayment
  <2>2. IsFiniteSet(before) /\ (\A x \in before : amount[x] \in Nat) /\ amount[r] \in Nat
    <3>1. before \subseteq RefundEvents /\ {r} \subseteq RefundEvents
      BY <1>1 DEF RefundsOf
    <3> QED BY <3>1, RefundSums DEF CreditInv, EffectInv
  <2>3. Sum(before \cup {r}, amount) = Sum(before, amount) + amount[r]
    BY <1>4, <2>2, SumGrows
  <2>4. ASSUME NEW q \in Payments
        PROVE  Sum(RefundsOf(q) \cap reversal', amount) <= PaidMinor
    <3>1. CASE q = p
      <4>1. RefundsOf(p) \cap reversal' = before \cup {r}
        BY <1>1 DEF RefundsOf
      <4> QED BY <2>1, <2>3, <3>1, <4>1
    <3>2. CASE q # p
      <4>1. RefundsOf(q) \cap reversal' = RefundsOf(q) \cap reversal
        BY <1>1, <3>2 DEF RefundsOf
      <4> QED BY <4>1 DEF CreditInv, RefundsWithinPayment
    <3> QED BY <3>1, <3>2
  <2> QED BY <1>1, <2>4 DEF RefundsWithinPayment, RefundsOf
<1> QED BY <1>3, <1>4

(* A refund takes what its share is off the grant and the account. *)
LEMMA ReverseCredit ==
  ASSUME CreditInv, NEW r \in RefundEvents, ReverseCredits(r), UNCHANGED <<amount, granted, spent>>
  PROVE  CreditIsPayments' /\ ReversalIsProportional'
<1> DEFINE p == payment[r]
           before == TakenBack(p)
<1>1. UNCHANGED <<amount, granted, spent>> /\ r \in RefundEvents
  OBVIOUS
<1>3. CASE Reversed(r)
  <2>1. UNCHANGED <<reversed, remaining, available>>
    BY <1>3 DEF ReverseCredits
  <2> QED BY <1>1, <2>1 DEF CreditInv, CreditIsPayments, ReversalIsProportional, TakenBack, RefundsOf
<1>4. CASE ~Reversed(r)
  <2>1. p \in Payments
    BY <1>1, Constants DEF Events
  <2>2. /\ reversed' = [reversed EXCEPT ![r] = Share(r)]
        /\ remaining' = [remaining EXCEPT ![p] = remaining[p] - Share(r)]
        /\ available' = available - Share(r)
        /\ Share(r) > 0 /\ Share(r) <= remaining[p]
    BY <1>4 DEF ReverseCredits, Covered
  <2>3. Share(r) \in Nat
    BY <1>1, <2>2, ShareType DEF CreditInv, EffectInv
  <2>4. \A q \in Payments : remaining[q] \in Nat /\ spent[q] \in Nat
    BY Constants DEF CreditInv, EffectInv, TypeOK
  <2>5. reversed[r] = 0 /\ \A x \in RefundEvents : reversed[x] \in Nat
    BY <1>1, <1>4, Constants DEF Reversed, CreditInv, EffectInv, TypeOK
  <2>6. reversed'[r] = Share(r) /\ \A x \in RefundEvents : x # r => reversed'[x] = reversed[x]
    BY <1>1, <2>2 DEF CreditInv, EffectInv, TypeOK
  <2>7. /\ remaining'[p] = remaining[p] - Share(r)
        /\ \A q \in Payments : q # p => remaining'[q] = remaining[q]
    BY <2>1, <2>2 DEF CreditInv, EffectInv, TypeOK
  <2>8. \A q \in Payments : Sum(RefundsOf(q), reversed) \in Nat /\ IsFiniteSet(RefundsOf(q))
    BY RefundSums DEF RefundsOf, CreditInv, EffectInv
  <2>9. ASSUME NEW q \in Payments
        PROVE  remaining'[q] + spent[q] + Sum(RefundsOf(q), reversed') =
                 IF q \in granted THEN Credit ELSE 0
    <3>1. remaining[q] + spent[q] + Sum(RefundsOf(q), reversed) =
            IF q \in granted THEN Credit ELSE 0
      BY DEF CreditInv, CreditIsPayments
    <3>2. CASE q = p
      <4>1. r \in RefundsOf(q)
        BY <1>1, <3>2 DEF RefundsOf
      <4>2. \A x \in RefundsOf(q) : reversed[x] \in Nat /\ (x # r => reversed'[x] = reversed[x])
        BY <2>5, <2>6 DEF RefundsOf
      <4>3. Sum(RefundsOf(q), reversed') = Sum(RefundsOf(q), reversed) - reversed[r] + reversed'[r]
        BY <2>3, <2>6, <2>8, <4>1, <4>2, SumMoves
      <4>4. Sum(RefundsOf(q), reversed') = Sum(RefundsOf(q), reversed) + Share(r)
        BY <2>3, <2>5, <2>6, <2>8, <4>3
      <4> QED BY <2>3, <2>4, <2>7, <2>8, <3>1, <3>2, <4>4
    <3>3. CASE q # p
      <4>1. \A x \in RefundsOf(q) : reversed'[x] = reversed[x]
        BY <2>6, <3>3 DEF RefundsOf
      <4>2. Sum(RefundsOf(q), reversed') = Sum(RefundsOf(q), reversed)
        BY <4>1, SumEqual
      <4> QED BY <2>7, <3>1, <3>3, <4>2
    <3> QED BY <3>2, <3>3
  <2>10. available' = Sum(Payments, remaining')
    <3>1. remaining'[p] \in Nat
      BY <2>1, <2>2, <2>3, <2>4, <2>7
    <3>2. Sum(Payments, remaining') = Sum(Payments, remaining) - remaining[p] + remaining'[p]
      BY <2>1, <2>4, <2>7, <3>1, Constants, SumMoves
    <3>3. available = Sum(Payments, remaining) /\ available \in Nat
      BY DEF CreditInv, CreditIsPayments, EffectInv, TypeOK
    <3> QED BY <2>1, <2>2, <2>3, <2>4, <2>7, <3>2, <3>3
  <2>11. CreditIsPayments'
    BY <1>1, <2>9, <2>10 DEF CreditIsPayments, RefundsOf
  <2>12. r \notin before /\ before \subseteq RefundEvents
    BY <2>5 DEF TakenBack, RefundsOf
  <2>13. /\ IsFiniteSet(before) /\ Sum(before, amount) \in Nat /\ Sum(before, reversed) \in Nat
         /\ (\A x \in before : amount[x] \in Nat /\ reversed[x] \in Nat) /\ amount[r] \in Nat
    <3>1. {r} \subseteq RefundEvents
      BY <1>1
    <3> QED BY <2>12, <3>1, RefundSums DEF CreditInv, EffectInv
  <2>14. Share(r) = OfPaid(Credit * (Sum(before, amount) + amount[r])) - Sum(before, reversed)
    <3>1. before \ {r} = before
      BY <2>12
    <3> QED BY <3>1 DEF Share
  <2>15. ASSUME NEW q \in Payments
         PROVE  LET now == {x \in RefundsOf(q) : reversed'[x] > 0}
                IN  Sum(now, reversed') = OfPaid(Credit * Sum(now, amount))
    <3> DEFINE now == {x \in RefundsOf(q) : reversed'[x] > 0}
    <3>1. CASE q = p
      <4>1. now = before \cup {r}
        BY <1>1, <2>2, <2>6, <3>1 DEF TakenBack, RefundsOf
      <4>2. Sum(before \cup {r}, reversed') = Sum(before, reversed) + reversed'[r]
        <5>1. \A x \in before : reversed[x] \in Nat /\ reversed'[x] = reversed[x]
          BY <2>6, <2>12, <2>13
        <5>2. reversed'[r] \in Nat
          BY <2>3, <2>6
        <5> HIDE DEF before
        <5> QED BY <2>12, <2>13, <5>1, <5>2, SumInsert
      <4>3. Sum(before \cup {r}, amount) = Sum(before, amount) + amount[r]
        <5>1. \A x \in before : amount[x] \in Nat
          BY <2>13
        <5>2. IsFiniteSet(before) /\ r \notin before /\ amount[r] \in Nat
          BY <2>12, <2>13
        <5> HIDE DEF before
        <5> QED BY <5>1, <5>2, SumGrows
      <4>4. OfPaid(Credit * (Sum(before, amount) + amount[r])) = Sum(before, reversed) + Share(r)
        <5> DEFINE whole == OfPaid(Credit * (Sum(before, amount) + amount[r]))
        <5>1. Credit * (Sum(before, amount) + amount[r]) \in Int
          BY <2>13, Constants
        <5>2. whole \in Int
          BY <5>1, Constants DEF OfPaid
        <5> HIDE DEF whole
        <5>3. Share(r) = whole - Sum(before, reversed)
          BY <2>14 DEF whole
        <5>4. whole = Sum(before, reversed) + Share(r)
          BY <2>13, <5>2, <5>3
        <5> QED BY <5>4 DEF whole
      <4> QED BY <2>6, <4>1, <4>2, <4>3, <4>4
    <3>2. CASE q # p
      <4>1. \A x \in RefundsOf(q) : reversed'[x] = reversed[x]
        BY <2>6, <3>2 DEF RefundsOf
      <4>2. now = TakenBack(q)
        BY <4>1 DEF TakenBack
      <4>3. Sum(now, reversed') = Sum(TakenBack(q), reversed)
        BY <4>1, <4>2, SumEqual
      <4> QED BY <4>2, <4>3 DEF CreditInv, ReversalIsProportional
    <3> QED BY <3>1, <3>2
  <2>16. ReversalIsProportional'
    BY <1>1, <2>15 DEF ReversalIsProportional, TakenBack, RefundsOf, OfPaid
  <2> QED BY <2>11, <2>16
<1> QED BY <1>3, <1>4

(* Usage moves a unit from the grant to what was spent, and off the account. *)
LEMMA SpendCredit ==
  ASSUME CreditInv, NEW p \in Payments, Spend(p)
  PROVE  CreditIsPayments' /\ ReversalIsProportional' /\ RefundsWithinPayment'
<1>1. /\ UNCHANGED <<amount, settlement, granted, reversal, reversed>>
      /\ remaining' = [remaining EXCEPT ![p] = remaining[p] - 1]
      /\ spent' = [spent EXCEPT ![p] = spent[p] + 1]
      /\ available' = available - 1 /\ remaining[p] > 0
  BY DEF Spend
<1>2. ReversalIsProportional' /\ RefundsWithinPayment'
  BY <1>1 DEF CreditInv, ReversalIsProportional, RefundsWithinPayment, TakenBack, RefundsOf
<1>3. \A q \in Payments : remaining[q] \in Nat /\ spent[q] \in Nat
  BY Constants DEF CreditInv, EffectInv, TypeOK
<1>4. /\ remaining'[p] = remaining[p] - 1 /\ spent'[p] = spent[p] + 1
      /\ \A q \in Payments : q # p => remaining'[q] = remaining[q] /\ spent'[q] = spent[q]
  BY <1>1 DEF CreditInv, EffectInv, TypeOK
<1>5. remaining'[p] \in Nat
  BY <1>1, <1>3, <1>4
<1>6. Sum(Payments, remaining') = Sum(Payments, remaining) - remaining[p] + remaining'[p]
  BY <1>3, <1>4, <1>5, Constants, SumMoves
<1>7. available = Sum(Payments, remaining) /\ available \in Nat
  BY DEF CreditInv, CreditIsPayments, EffectInv, TypeOK
<1>8. available' = Sum(Payments, remaining')
  BY <1>1, <1>3, <1>4, <1>6, <1>7
<1>9. ASSUME NEW q \in Payments
      PROVE  remaining'[q] + spent'[q] + Sum(RefundsOf(q), reversed) =
               IF q \in granted THEN Credit ELSE 0
  <2>1. remaining[q] + spent[q] + Sum(RefundsOf(q), reversed) =
          IF q \in granted THEN Credit ELSE 0
    BY DEF CreditInv, CreditIsPayments
  <2>2. Sum(RefundsOf(q), reversed) \in Nat
    BY RefundSums DEF RefundsOf, CreditInv, EffectInv
  <2> QED BY <1>3, <1>4, <2>1, <2>2
<1>10. CreditIsPayments'
  BY <1>1, <1>8, <1>9 DEF CreditIsPayments, RefundsOf
<1> QED BY <1>2, <1>10

(* Credit is kept by every action. *)
LEMMA CreditStep ==
  ASSUME CreditInv, [Next]_vars
  PROVE  CreditIsPayments' /\ ReversalIsProportional' /\ RefundsWithinPayment'
<1> DEFINE Kept == CreditIsPayments' /\ ReversalIsProportional' /\ RefundsWithinPayment'
<1>1. ASSUME UNCHANGED <<amount, money>> PROVE Kept
  BY <1>1, CreditUntouched DEF money
<1>2. ASSUME NEW w \in Workers, ProcessPayment(w) PROVE Kept
  <2>1. job[w] # Idle
    BY <1>2, StepNotIdle DEF ProcessPayment, CreditInv, EffectInv
  <2>2. payment[job[w].event] \in Payments
    BY <2>1, AtWork, Constants DEF CreditInv, EffectInv
  <2> QED BY <1>2, <2>2, FulfillCredit DEF ProcessPayment
<1>3. ASSUME NEW e \in Events, Accept(e) PROVE Kept
  BY <1>3, AcceptCredit
<1>4. ASSUME NEW w \in Workers, ProcessRefund(w) PROVE Kept
  BY <1>4, RecordReversalCredit, ReverseCredit DEF ProcessRefund
<1>7. ASSUME NEW p \in Payments, Spend(p) PROVE Kept
  BY <1>7, SpendCredit
<1> HIDE DEF Kept
<1>8. ASSUME NEW w \in Workers,
             Crash(w) \/ Read(w) \/ Fail(w) \/ Publish(w) \/ GiveUp(w)
                      \/ \E d \in Events : Claim(w, d)
      PROVE  Kept
  BY <1>1, <1>8 DEF Crash, Read, Fail, Publish, GiveUp, Report, Claim
<1>9. ASSUME NEW e \in Events, AdminRetry(e) PROVE Kept
  BY <1>1, <1>9 DEF AdminRetry
<1>10. ASSUME UNCHANGED vars PROVE Kept
  BY <1>1, <1>10 DEF vars
<1>11. Kept
  BY <1>2, <1>3, <1>4, <1>7, <1>8, <1>9, <1>10 DEF Next, Proceed
<1> QED BY <1>11 DEF Kept

(* Before anything was paid all sums are empty. *)
LEMMA CreditInit ==
  ASSUME Init
  PROVE  CreditIsPayments /\ ReversalIsProportional /\ RefundsWithinPayment
<1>1. TypeOK
  BY PipelineTypeInit
<1>2. \A S : (\A x \in S : reversed[x] = 0) /\ S \subseteq RefundEvents => Sum(S, reversed) = 0
  <2> TAKE S
  <2> HAVE (\A x \in S : reversed[x] = 0) /\ S \subseteq RefundEvents
  <2>1. Units(S, reversed) = {}
    BY DEF Units
  <2> QED BY <2>1, FS_EmptySet DEF Sum
<1>3. Sum(Payments, remaining) = 0
  <2>1. Units(Payments, remaining) = {}
    BY DEF Units, Init
  <2> QED BY <2>1, FS_EmptySet DEF Sum
<1>4. \A p \in Payments : Sum(RefundsOf(p), reversed) = 0
  BY <1>2 DEF RefundsOf, Init
<1>5. CreditIsPayments
  BY <1>3, <1>4 DEF CreditIsPayments, Init
<1>6. \A p \in Payments : TakenBack(p) = {} /\ RefundsOf(p) \cap reversal = {}
  BY DEF TakenBack, RefundsOf, Init
<1>7. Sum({}, reversed) = 0 /\ Sum({}, amount) = 0
  BY SumEmpty
<1>8. OfPaid(Credit * 0) = 0
  <2>1. Credit * 0 = 0
    BY Constants
  <2>2. (0 + PaidMinor - 1) \div PaidMinor = 0
    BY Constants
  <2> QED BY <2>1, <2>2 DEF OfPaid
<1>9. ReversalIsProportional
  BY <1>6, <1>7, <1>8 DEF ReversalIsProportional
<1>10. RefundsWithinPayment
  BY <1>6, <1>7, Constants DEF RefundsWithinPayment
<1> QED BY <1>5, <1>9, <1>10

(* Credit is that of payments and refunds, always. *)
LEMMA CreditIsKept == Spec => []CreditInv
<1>1. Init => CreditIsPayments /\ ReversalIsProportional /\ RefundsWithinPayment
  BY CreditInit
<1>2. EffectInv /\ CreditIsPayments /\ ReversalIsProportional /\ RefundsWithinPayment /\ [Next]_vars
        => CreditIsPayments' /\ ReversalIsProportional' /\ RefundsWithinPayment'
  BY CreditStep DEF CreditInv
<1>3. EffectInv /\ CreditIsPayments /\ ReversalIsProportional /\ RefundsWithinPayment <=> CreditInv
  BY DEF CreditInv
<1> QED BY <1>1, <1>2, <1>3, EffectsAreKept, PTL DEF Spec

(***************************************************************************)
(* Each payment is credited once and each refund taken back once, in any   *)
(* number of payments, refunds, workers, crashes and retries.              *)
(***************************************************************************)
THEOREM CreditAlwaysIsPayments == Spec => []CreditIsPayments
<1>1. CreditInv => CreditIsPayments
  BY DEF CreditInv
<1> QED BY <1>1, CreditIsKept, PTL

(***************************************************************************)
(* The credit taken back is the share of all refunds together, rounded up  *)
(* once, for any amounts and in any order.                                 *)
(***************************************************************************)
THEOREM ReversalsAreProportional == Spec => []ReversalIsProportional
<1>1. CreditInv => ReversalIsProportional
  BY DEF CreditInv
<1> QED BY <1>1, CreditIsKept, PTL

(* The recorded refunds of a payment never exceed what was paid. *)
THEOREM RefundsAreWithinPayment == Spec => []RefundsWithinPayment
<1>1. CreditInv => RefundsWithinPayment
  BY DEF CreditInv
<1> QED BY <1>1, CreditIsKept, PTL

-------------------------------------------------------------------------------
(***************************************************************************)
(* The webhook adapters. Every notification tells what the provider did:   *)
(* the refunds are told one by one, in order; where the provider tells     *)
(* them apart the i-th of these notifications gives the i-th refund, and   *)
(* otherwise an amount that was refunded by then.                          *)
(***************************************************************************)
FactBy(p, e) == CASE p = "stripe" -> StripeFact(e)
                  [] p = "alipay" -> AlipayFact(e)
                  [] p = "wechat" -> WechatFact(e)

Providers == {"stripe", "alipay", "wechat"}

PaymentRef(p) == IF p = "stripe" THEN "intent" ELSE IF p = "alipay" THEN "trade" ELSE "transaction"

\* The reference of all refunds of a provider that does not tell them apart.
CommonRef(p) == IF p = "stripe" THEN "charge" ELSE "trade"

Apart(p, e) == p = "wechat" \/ (p = "stripe" /\ e.listed)

(* The fields of facts. *)
LEMMA FactFields ==
  /\ Acknowledged.kind = "none"
  /\ \A ref, ours : /\ PaymentFact(ref, ours).kind = "payment"
                    /\ PaymentFact(ref, ours).ref = ref
                    /\ PaymentFact(ref, ours).ours = ours
  /\ \A ref, x, ours : /\ RefundFact(ref, x, ours).kind = "refund"
                       /\ RefundFact(ref, x, ours).ref = ref
                       /\ RefundFact(ref, x, ours).amount = x
BY DEF Acknowledged, PaymentFact, RefundFact

(* What the three adapters make of any notification. *)
LEMMA FactsAre ==
  ASSUME NEW p \in Providers, NEW e
  PROVE  LET fact == FactBy(p, e)
         IN  /\ fact.kind \in {"none", "payment", "refund", "subscription"}
             /\ fact.kind = "payment" => fact.ref = PaymentRef(p) /\ fact.ours = e.ours
             /\ fact.kind = "refund" =>
                  /\ p = "stripe" =>
                       /\ e.type = "charge.refunded"
                       /\ e.listed => /\ fact.ref = Len(e.refunds)
                                      /\ fact.amount = e.refunds[Len(e.refunds)]
                       /\ ~e.listed => /\ fact.ref = "charge"
                                       /\ fact.amount = AmountRefunded(e.refunds)
                  /\ p = "alipay" => fact.ref = "trade" /\ fact.amount = MinorAmount(e.refund[1])
                  /\ p = "wechat" => fact.ref = e.number /\ fact.amount = e.amount
             /\ fact.kind = "subscription" =>
                  (fact.grants => e.status \in {"active", "trialing"})
<1> DEFINE fact == FactBy(p, e)
<1>1. CASE p = "stripe"
  <2>1. fact = StripeFact(e) BY <1>1 DEF FactBy
  <2> HIDE DEF fact
  <2>2. CASE e.type \in {"session.completed", "session.async_payment_succeeded"}
    <3>1. fact = PaymentFact("intent", e.ours) \/ fact = Acknowledged
      BY <2>1, <2>2 DEF StripeFact
    <3> QED BY <1>1, <3>1, FactFields DEF fact, PaymentRef
  <2>3. CASE e.type = "charge.refunded"
    <3>1. fact = StripeRefundFacts(e) BY <2>1, <2>3 DEF StripeFact
    <3>2. /\ e.listed => fact = RefundFact(Len(e.refunds), e.refunds[Len(e.refunds)], e.ours)
          /\ ~e.listed => fact = RefundFact("charge", AmountRefunded(e.refunds), e.ours)
      BY <3>1 DEF StripeRefundFacts
    <3> QED BY <1>1, <2>3, <3>2, FactFields DEF fact
  <2>4. CASE e.type \in {"subscription.updated", "subscription.deleted"}
    <3>1. fact = SubscriptionFact(e) BY <2>1, <2>4 DEF StripeFact
    <3>2. PICK status : status = IF e.type = "subscription.deleted" THEN "canceled"
                                 ELSE SubscriptionStatus(e.status)
      OBVIOUS
    <3>3. status = "active" => e.status \in {"active", "trialing"}
      BY <3>2 DEF SubscriptionStatus
    <3>4. /\ SubscriptionFact(e).kind = "subscription"
          /\ SubscriptionFact(e).grants = (status = "active")
      BY <3>2 DEF SubscriptionFact, Acknowledged
    <3> QED BY <1>1, <3>1, <3>3, <3>4 DEF fact
  <2>5. CASE e.type \notin {"session.completed", "session.async_payment_succeeded",
                            "charge.refunded", "subscription.updated", "subscription.deleted"}
    <3>1. fact = Acknowledged BY <2>1, <2>5 DEF StripeFact
    <3> QED BY <3>1, FactFields DEF fact
  <2> QED BY <2>2, <2>3, <2>4, <2>5
<1>2. CASE p = "alipay"
  <2>1. fact = AlipayFact(e) BY <1>2 DEF FactBy
  <2> HIDE DEF fact
  <2>2. \/ fact = RefundFact("trade", MinorAmount(e.refund[1]), e.ours)
        \/ fact = PaymentFact("trade", e.ours)
        \/ fact = Acknowledged
    BY <2>1 DEF AlipayFact
  <2> QED BY <1>2, <2>2, FactFields DEF fact, PaymentRef
<1>3. CASE p = "wechat"
  <2>1. fact = WechatFact(e) BY <1>3 DEF FactBy
  <2> HIDE DEF fact
  <2>2. \/ fact = RefundFact(e.number, e.amount, e.ours)
        \/ fact = PaymentFact("transaction", e.ours)
        \/ fact = Acknowledged
    BY <2>1 DEF WechatFact
  <2> QED BY <1>3, <2>2, FactFields DEF fact, PaymentRef
<1> QED BY <1>1, <1>2, <1>3 DEF Providers

(* A text with at most two digits of fraction is read as the amount it was written for. *)
LEMMA TextsAreRead ==
  ASSUME NEW n \in Nat, NEW text \in TextsOf(n)
  PROVE  MinorAmount(text) = n
<1>1. PICK w \in Nat, a \in 0 .. 9, b \in 0 .. 9 :
        n = 100 * w + 10 * a + b /\ w = n \div 100 /\ a = (n \div 10) % 10 /\ b = n % 10
  OBVIOUS
<1>2. n % 100 = 10 * a + b BY <1>1
<1>3. CASE text = [whole |-> w, fraction |-> <<a, b>>]
  <2>1. Padded(text.fraction)[1] = a /\ Padded(text.fraction)[2] = b BY <1>3 DEF Padded
  <2> QED BY <1>1, <1>3, <2>1 DEF MinorAmount
<1>4. CASE text = [whole |-> w, fraction |-> <<a>>] /\ b = 0
  <2>1. Padded(text.fraction)[1] = a /\ Padded(text.fraction)[2] = 0 BY <1>4 DEF Padded
  <2> QED BY <1>1, <1>4, <2>1 DEF MinorAmount
<1>5. CASE text = [whole |-> w, fraction |-> <<>>] /\ a = 0 /\ b = 0
  <2>1. Padded(text.fraction)[1] = 0 /\ Padded(text.fraction)[2] = 0 BY <1>5 DEF Padded
  <2> QED BY <1>1, <1>5, <2>1 DEF MinorAmount
<1>6. \/ text = [whole |-> w, fraction |-> <<a, b>>]
      \/ text = [whole |-> w, fraction |-> <<a>>] /\ b = 0
      \/ text = [whole |-> w, fraction |-> <<>>] /\ a = 0 /\ b = 0
  BY <1>1, <1>2 DEF TextsOf
<1> QED BY <1>3, <1>4, <1>5, <1>6

\* Which of the first i notifications tell of refunds.
Told(p, n, i) == {k \in 1 .. i : FactBy(p, n[k]).kind = "refund"}

RefundOK(p, r, n, i) ==
  LET fact == FactBy(p, n[i])
      count == Cardinality(Told(p, n, i))
  IN  IF Apart(p, n[i])
      THEN count \in DOMAIN r /\ fact.ref = count /\ fact.amount = r[count]
      ELSE fact.amount \in Nat /\ fact.amount <= AmountRefunded(r)

PaymentOK(s, t, fact) ==
  fact.ours = s.hosted /\ s.mode = "payment" /\ t \in {"paid", "closed"}

\* What the notifications n say of sale s in state t with refunds r.
NoticesOK(s, t, r, n) ==
  LET p == s.provider
  IN  /\ Cardinality(Told(p, n, Len(n))) = Len(r)
      /\ \A i \in 1 .. Len(n) :
           /\ FactBy(p, n[i]).kind = "refund" => RefundOK(p, r, n, i)
           /\ FactBy(p, n[i]).kind = "payment" => PaymentOK(s, t, FactBy(p, n[i]))
      /\ \A i, j \in Told(p, n, Len(n)) : Apart(p, n[i]) <=> Apart(p, n[j])

(* What is told so far does not change with what is told later. *)
LEMMA ToldStays ==
  ASSUME NEW p, NEW n, NEW more, NEW i \in Nat, \A k \in 1 .. i : more[k] = n[k]
  PROVE  Told(p, more, i) = Told(p, n, i)
BY DEF Told

(* Of finitely many notifications, finitely many tell of refunds. *)
LEMMA ToldFinite ==
  ASSUME NEW p, NEW n, NEW i \in Nat
  PROVE  IsFiniteSet(Told(p, n, i)) /\ Cardinality(Told(p, n, i)) \in Nat
<1>1. IsFiniteSet(1 .. i) BY FS_Interval
<1>2. Told(p, n, i) \subseteq 1 .. i BY DEF Told
<1>3. IsFiniteSet(Told(p, n, i)) BY <1>1, <1>2, FS_Subset
<1> QED BY <1>3, FS_CardinalityType

(* One more refund makes what was refunded more. *)
LEMMA RefundAdds ==
  ASSUME NEW r \in Seq(Nat), NEW x \in Nat
  PROVE  /\ AmountRefunded(r) \in Nat
         /\ AmountRefunded(Append(r, x)) = AmountRefunded(r) + x
<1>1. PICK m \in Nat : m = Len(r) /\ DOMAIN r = 1 .. m OBVIOUS
<1>2. PICK more : more = Append(r, x) OBVIOUS
<1>3. /\ DOMAIN more = 1 .. m + 1 /\ more[m + 1] = x
      /\ \A i \in 1 .. m : more[i] = r[i] /\ r[i] \in Nat
  BY <1>1, <1>2
<1>4. PICK S : S = 1 .. m OBVIOUS
<1>5. IsFiniteSet(S) /\ m + 1 \notin S /\ 1 .. m + 1 = S \cup {m + 1}
  <2>1. IsFiniteSet(1 .. m) BY FS_Interval
  <2>2. m + 1 \notin 1 .. m /\ 1 .. m + 1 = (1 .. m) \cup {m + 1} OBVIOUS
  <2> QED BY <1>4, <2>1, <2>2
<1>6. \A i \in S : r[i] \in Nat /\ more[i] = r[i] BY <1>3, <1>4
<1>7. Sum(S \cup {m + 1}, more) = Sum(S, r) + more[m + 1] BY <1>3, <1>5, <1>6, SumInsert
<1>8. Sum(S, r) \in Nat BY <1>5, <1>6, SumType
<1> QED BY <1>1, <1>2, <1>3, <1>4, <1>5, <1>7, <1>8 DEF AmountRefunded

(* Notifications that tell of no refund. *)
LEMMA NoRefundIsTold ==
  ASSUME NEW s, NEW t, NEW u, NEW r, NEW N, NEW n \in Seq(N), NEW sent \in Seq(N),
         NoticesOK(s, t, r, n),
         s.mode = "payment" /\ t \in {"paid", "closed"} => u \in {"paid", "closed"},
         \A k \in 1 .. Len(sent) :
           /\ FactBy(s.provider, sent[k]).kind # "refund"
           /\ FactBy(s.provider, sent[k]).kind = "payment" =>
                PaymentOK(s, u, FactBy(s.provider, sent[k]))
  PROVE  NoticesOK(s, u, r, n \o sent)
<1> DEFINE p == s.provider
<1>1. PICK m \in Nat, l \in Nat : m = Len(n) /\ l = Len(sent) OBVIOUS
<1>2. PICK more : more = n \o sent OBVIOUS
<1>3. /\ Len(more) = m + l /\ \A i \in 1 .. m : more[i] = n[i]
      /\ \A i \in m + 1 .. m + l : more[i] = sent[i - m] /\ i - m \in 1 .. l
  BY <1>1, <1>2
<1>4. \A i \in 1 .. m + l : i \in 1 .. m \/ i \in m + 1 .. m + l BY <1>1
<1>5. \A i \in m + 1 .. m + l : /\ FactBy(p, more[i]).kind # "refund"
                                /\ FactBy(p, more[i]).kind = "payment" =>
                                     PaymentOK(s, u, FactBy(p, more[i]))
  <2> SUFFICES ASSUME NEW i \in m + 1 .. m + l
               PROVE  /\ FactBy(p, more[i]).kind # "refund"
                      /\ FactBy(p, more[i]).kind = "payment" =>
                           PaymentOK(s, u, FactBy(p, more[i]))
    OBVIOUS
  <2>1. PICK k : k = i - m OBVIOUS
  <2>2. more[i] = sent[k] /\ k \in 1 .. Len(sent) BY <1>1, <1>3, <2>1
  <2> QED BY <2>2
<1>6. Told(p, more, m + l) = Told(p, n, m)
  <2>1. \A i \in 1 .. m : i \in 1 .. m + l BY <1>1
  <2> QED BY <1>3, <1>4, <1>5, <2>1 DEF Told
<1>7. ASSUME NEW i \in 1 .. m
      PROVE  /\ FactBy(p, more[i]).kind = "refund" => RefundOK(p, r, more, i)
             /\ FactBy(p, more[i]).kind = "payment" => PaymentOK(s, u, FactBy(p, more[i]))
  <2>1. \A k \in 1 .. i : more[k] = n[k] BY <1>3
  <2>2. Told(p, more, i) = Told(p, n, i) BY <2>1, ToldStays
  <2>3. more[i] = n[i] BY <1>3
  <2>4. /\ FactBy(p, n[i]).kind = "refund" => RefundOK(p, r, n, i)
        /\ FactBy(p, n[i]).kind = "payment" => PaymentOK(s, t, FactBy(p, n[i]))
    BY <1>1 DEF NoticesOK
  <2> QED BY <2>2, <2>3, <2>4 DEF RefundOK, PaymentOK
<1>8. \A i, j \in Told(p, n, m) : Apart(p, more[i]) <=> Apart(p, more[j])
  <2>1. \A i \in Told(p, n, m) : more[i] = n[i] BY <1>3 DEF Told
  <2>2. \A i, j \in Told(p, n, m) : Apart(p, n[i]) <=> Apart(p, n[j]) BY <1>1 DEF NoticesOK
  <2> QED BY <2>1, <2>2
<1>9. Cardinality(Told(p, n, m)) = Len(r) BY <1>1 DEF NoticesOK
<1>10. \A i \in 1 .. m + l :
         /\ FactBy(p, more[i]).kind = "refund" => RefundOK(p, r, more, i)
         /\ FactBy(p, more[i]).kind = "payment" => PaymentOK(s, u, FactBy(p, more[i]))
  BY <1>4, <1>5, <1>7
<1> HIDE DEF p
<1>11. NoticesOK(s, u, r, more)
  BY <1>3, <1>6, <1>8, <1>9, <1>10 DEF NoticesOK, p
<1> QED BY <1>2, <1>11

(* A notification of the refund x. *)
LEMMA RefundIsTold ==
  ASSUME NEW s, NEW t, NEW r \in Seq(Nat), NEW x \in Nat, NEW N, NEW n \in Seq(N), NEW e \in N,
         NoticesOK(s, t, r, n), FactBy(s.provider, e).kind = "refund",
         IF Apart(s.provider, e)
         THEN /\ FactBy(s.provider, e).ref = Len(r) + 1
              /\ FactBy(s.provider, e).amount = x
         ELSE /\ FactBy(s.provider, e).amount \in Nat
              /\ FactBy(s.provider, e).amount <= AmountRefunded(Append(r, x)),
         \A i \in Told(s.provider, n, Len(n)) :
           Apart(s.provider, n[i]) <=> Apart(s.provider, e)
  PROVE  NoticesOK(s, t, Append(r, x), n \o <<e>>)
<1> DEFINE p == s.provider
<1>1. PICK m \in Nat, q \in Nat : m = Len(n) /\ q = Len(r) OBVIOUS
<1>2. PICK more, all : more = n \o <<e>> /\ all = Append(r, x) OBVIOUS
<1>3. /\ Len(more) = m + 1 /\ more[m + 1] = e /\ \A i \in 1 .. m : more[i] = n[i]
      /\ DOMAIN r = 1 .. q /\ DOMAIN all = 1 .. q + 1 /\ Len(all) = q + 1 /\ all[q + 1] = x
      /\ \A i \in 1 .. q : all[i] = r[i]
  BY <1>1, <1>2
<1>4. 1 .. m + 1 = (1 .. m) \cup {m + 1} /\ m + 1 \notin 1 .. m BY <1>1
<1>5. Told(p, more, m + 1) = Told(p, n, m) \cup {m + 1} /\ m + 1 \notin Told(p, n, m)
  BY <1>3, <1>4 DEF Told
<1>6. /\ Cardinality(Told(p, n, m)) = q
      /\ Cardinality(Told(p, more, m + 1)) = q + 1
  <2>1. Cardinality(Told(p, n, m)) = q BY <1>1 DEF NoticesOK
  <2> QED BY <1>5, <2>1, ToldFinite, FS_AddElement
<1>7. AmountRefunded(r) \in Nat /\ AmountRefunded(all) = AmountRefunded(r) + x
  BY <1>2, RefundAdds
<1>8. ASSUME NEW i \in 1 .. m
      PROVE  /\ FactBy(p, more[i]).kind = "refund" => RefundOK(p, all, more, i)
             /\ FactBy(p, more[i]).kind = "payment" => PaymentOK(s, t, FactBy(p, more[i]))
  <2>1. \A k \in 1 .. i : more[k] = n[k] BY <1>3
  <2>2. Told(p, more, i) = Told(p, n, i) BY <2>1, ToldStays
  <2>3. more[i] = n[i] BY <1>3
  <2>4. /\ FactBy(p, n[i]).kind = "refund" => RefundOK(p, r, n, i)
        /\ FactBy(p, n[i]).kind = "payment" => PaymentOK(s, t, FactBy(p, n[i]))
    BY <1>1 DEF NoticesOK
  <2>5. RefundOK(p, r, n, i) => RefundOK(p, all, n, i)
    <3>1. \A c \in DOMAIN r : c \in DOMAIN all /\ all[c] = r[c] BY <1>3
    <3>2. \A a \in Nat : a <= AmountRefunded(r) => a <= AmountRefunded(all) BY <1>7
    <3> QED BY <3>1, <3>2 DEF RefundOK
  <2> QED BY <2>2, <2>3, <2>4, <2>5 DEF RefundOK
<1>9. RefundOK(p, all, more, m + 1)
  <2>1. q + 1 \in DOMAIN all BY <1>3
  <2> QED BY <1>1, <1>2, <1>3, <1>6, <2>1 DEF RefundOK
<1>10. \A i \in 1 .. m + 1 :
         /\ FactBy(p, more[i]).kind = "refund" => RefundOK(p, all, more, i)
         /\ FactBy(p, more[i]).kind = "payment" => PaymentOK(s, t, FactBy(p, more[i]))
  BY <1>3, <1>4, <1>8, <1>9
<1>11. \A i, j \in Told(p, more, m + 1) : Apart(p, more[i]) <=> Apart(p, more[j])
  <2>1. \A i \in Told(p, n, m) : more[i] = n[i] BY <1>3 DEF Told
  <2>2. \A i \in Told(p, n, m) : Apart(p, more[i]) <=> Apart(p, e) BY <1>1, <2>1
  <2> QED BY <1>3, <1>5, <2>2
<1> HIDE DEF p
<1>12. NoticesOK(s, t, all, more)
  BY <1>3, <1>6, <1>10, <1>11 DEF NoticesOK, p
<1> QED BY <1>2, <1>12

-------------------------------------------------------------------------------
(* One sequence after another. *)
LEMMA Concatenated ==
  ASSUME NEW S, NEW p \in Seq(S), NEW q \in Seq(S)
  PROVE  /\ p \o q \in Seq(S) /\ Len(p \o q) = Len(p) + Len(q)
         /\ \A i \in 1 .. Len(p) + Len(q) :
              (p \o q)[i] = IF i <= Len(p) THEN p[i] ELSE q[i - Len(p)]
OBVIOUS

Notices ==
  UNION {[type : {"session.completed", "session.async_payment_succeeded"},
          mode : {"payment", "subscription"}, paid : BOOLEAN, ours : BOOLEAN],
         [type : {"payment_intent.succeeded", "session.async_payment_failed"}],
         [type : {"charge.refunded"}, listed : BOOLEAN, refunds : Seq(Nat), ours : BOOLEAN],
         [type : {"subscription.updated", "subscription.deleted"},
          status : Statuses, plan : BOOLEAN],
         [type : {"TRADE_SUCCESS", "TRADE_FINISHED", "TRADE_CLOSED"},
          refund : {<<>>} \cup {<<text>> : text \in UNION {TextsOf(n) : n \in Nat}},
          ours : BOOLEAN],
         [type : {"TRANSACTION.SUCCESS"}, ours : BOOLEAN],
         [type : {"REFUND.SUCCESS"}, number : Nat, amount : Nat, ours : BOOLEAN]}

Outcomes == {"received", "processed", "ignored", "failed"}

FactOf(i) == FactBy(sale.provider, notified[i])

ProviderTyped ==
  /\ sale \in [provider : {"stripe"}, mode : {"payment", "subscription"}, hosted : BOOLEAN]
                \cup [provider : {"alipay", "wechat"}, mode : {"payment"}, hosted : BOOLEAN]
  /\ refunds \in Seq(Nat) /\ notified \in Seq(Notices) /\ handled \in Seq(Outcomes)
  /\ Len(handled) = Len(notified)

\* Reversals are the facts of refunds that were processed, one of a reference.
ReversalsOK ==
  /\ IsFiniteSet(reversals)
  /\ \A r \in reversals : \E i \in DOMAIN notified :
       FactOf(i).kind = "refund" /\ r = [ref |-> FactOf(i).ref, amount |-> FactOf(i).amount]
  /\ \A r, s \in reversals : r.ref = s.ref => r = s
  /\ \A i \in DOMAIN notified :
       handled[i] = "processed" /\ FactOf(i).kind = "refund" =>
         [ref |-> FactOf(i).ref, amount |-> FactOf(i).amount] \in reversals

SettledOK ==
  /\ settled # {} => sale.mode = "payment" /\ sale.hosted /\ trade \in {"paid", "closed"}
  /\ \A s \in settled : s = [ref |-> PaymentRef(sale.provider), by |-> s.by]
  /\ \A s, z \in settled : s = z

RenewedOK ==
  renewed \subseteq DOMAIN notified
  /\ \A i \in renewed : notified[i].status \in {"active", "trialing"}

ProviderInv ==
  /\ ProviderTyped
  /\ NoticesOK(sale, trade, refunds, notified)
  /\ ReversalsOK /\ SettledOK /\ RenewedOK

(* New notifications have been received, and what was recorded stays. *)
LEMMA NotifiesKeeps ==
  ASSUME ProviderInv, NEW sent \in Seq(Notices), Notifies(sent), refunds' \in Seq(Nat),
         NoticesOK(sale, trade', refunds', notified \o sent),
         sale.mode = "payment" /\ trade \in {"paid", "closed"} => trade' \in {"paid", "closed"}
  PROVE  ProviderInv'
<1>1. PICK m \in Nat, l \in Nat : m = Len(notified) /\ l = Len(sent) BY DEF ProviderInv, ProviderTyped
<1>2. /\ notified' = notified \o sent /\ handled' = handled \o [i \in DOMAIN sent |-> "received"]
      /\ UNCHANGED <<sale, settled, reversals, renewed>>
  BY DEF Notifies
<1>3. /\ notified \in Seq(Notices) /\ handled \in Seq(Outcomes)
      /\ Len(handled) = m /\ DOMAIN notified = 1 .. m /\ DOMAIN handled = 1 .. m
  BY <1>1 DEF ProviderInv, ProviderTyped
<1>4. PICK new : new = [i \in DOMAIN sent |-> "received"] OBVIOUS
<1>5. new \in Seq(Outcomes) /\ Len(new) = l /\ \A i \in 1 .. l : new[i] = "received"
  <2>1. DOMAIN sent = 1 .. l BY <1>1
  <2>2. new \in [1 .. l -> Outcomes] /\ \A i \in 1 .. l : new[i] = "received"
    BY <1>4, <2>1 DEF Outcomes
  <2>3. \A O : \A f \in [1 .. l -> O] : f \in Seq(O) /\ Len(f) = l BY <1>1
  <2> QED BY <2>2, <2>3
<1>6. /\ notified' \in Seq(Notices) /\ Len(notified') = m + l /\ DOMAIN notified' = 1 .. m + l
      /\ \A i \in 1 .. m : notified'[i] = notified[i]
  <2>1. PICK n, N : n = notified /\ N = Notices OBVIOUS
  <2>2. n \in Seq(N) /\ sent \in Seq(N) /\ Len(n) = m /\ Len(sent) = l BY <1>1, <1>3, <2>1
  <2>3. /\ n \o sent \in Seq(N) /\ Len(n \o sent) = m + l /\ DOMAIN (n \o sent) = 1 .. m + l
        /\ \A i \in 1 .. m : (n \o sent)[i] = n[i]
    BY <1>1, <2>2
  <2> QED BY <1>2, <2>1, <2>3
<1>7. /\ handled' \in Seq(Outcomes) /\ Len(handled') = m + l
      /\ \A i \in 1 .. m : handled'[i] = handled[i]
      /\ \A i \in m + 1 .. m + l : handled'[i] = "received"
  <2>1. PICK h, O : h = handled /\ O = Outcomes OBVIOUS
  <2>2. h \in Seq(O) /\ new \in Seq(O) /\ Len(h) = m /\ Len(new) = l BY <1>3, <1>5, <2>1
  <2>3. /\ h \o new \in Seq(O) /\ Len(h \o new) = m + l
        /\ \A i \in 1 .. m : (h \o new)[i] = h[i]
        /\ \A i \in m + 1 .. m + l : (h \o new)[i] = new[i - m] /\ i - m \in 1 .. l
    <3>1. \A i \in 1 .. m : i \in 1 .. m + l /\ i <= m BY <1>1
    <3>2. \A i \in m + 1 .. m + l : i \in 1 .. m + l /\ ~(i <= m) /\ i - m \in 1 .. l BY <1>1
    <3> QED BY <2>2, <3>1, <3>2, Concatenated
  <2> QED BY <1>2, <1>4, <1>5, <2>1, <2>3
<1>8. \A i \in 1 .. m : FactOf(i)' = FactOf(i) BY <1>2, <1>6 DEF FactOf
<1>9. \A i \in 1 .. m + l : i \in 1 .. m \/ i \in m + 1 .. m + l BY <1>1
<1>10. 1 .. m \subseteq 1 .. m + l BY <1>1
<1>11. ReversalsOK'
  <2>1. IsFiniteSet(reversals') /\ \A r, s \in reversals' : r.ref = s.ref => r = s
    BY <1>2 DEF ProviderInv, ReversalsOK
  <2>2. ASSUME NEW r \in reversals'
        PROVE  \E i \in DOMAIN notified' :
                 /\ FactOf(i)'.kind = "refund"
                 /\ r = [ref |-> FactOf(i)'.ref, amount |-> FactOf(i)'.amount]
    <3>1. PICK i \in 1 .. m : /\ FactOf(i).kind = "refund"
                              /\ r = [ref |-> FactOf(i).ref, amount |-> FactOf(i).amount]
      BY <1>2, <1>3 DEF ProviderInv, ReversalsOK
    <3> QED BY <1>6, <1>8, <1>10, <3>1
  <2>3. ASSUME NEW i \in DOMAIN notified', handled'[i] = "processed", FactOf(i)'.kind = "refund"
        PROVE  [ref |-> FactOf(i)'.ref, amount |-> FactOf(i)'.amount] \in reversals'
    <3>1. i \in 1 .. m BY <1>6, <1>7, <1>9, <2>3
    <3>2. handled[i] = "processed" /\ FactOf(i).kind = "refund" BY <1>7, <1>8, <2>3, <3>1
    <3>3. [ref |-> FactOf(i).ref, amount |-> FactOf(i).amount] \in reversals
      BY <1>3, <3>1, <3>2 DEF ProviderInv, ReversalsOK
    <3> QED BY <1>2, <1>8, <3>1, <3>3
  <2> QED BY <2>1, <2>2, <2>3 DEF ReversalsOK
<1>12. SettledOK' BY <1>2 DEF ProviderInv, SettledOK
<1>13. RenewedOK' BY <1>2, <1>3, <1>6, <1>10 DEF ProviderInv, RenewedOK
<1>14. ProviderTyped' BY <1>2, <1>6, <1>7 DEF ProviderInv, ProviderTyped
<1>15. NoticesOK(sale', trade', refunds', notified') BY <1>2
<1> QED BY <1>11, <1>12, <1>13, <1>14, <1>15 DEF ProviderInv

(* A provider that tells of no refund. *)
LEMMA TellsNoRefund ==
  ASSUME ProviderInv, NEW sent \in Seq(Notices), Notifies(sent), UNCHANGED refunds,
         sale.mode = "payment" /\ trade \in {"paid", "closed"} => trade' \in {"paid", "closed"},
         \A k \in 1 .. Len(sent) :
           /\ FactBy(sale.provider, sent[k]).kind # "refund"
           /\ FactBy(sale.provider, sent[k]).kind = "payment" =>
                PaymentOK(sale, trade', FactBy(sale.provider, sent[k]))
  PROVE  ProviderInv'
<1>1. PICK s, t, u, r, n : s = sale /\ t = trade /\ u = trade' /\ r = refunds /\ n = notified
  OBVIOUS
<1>2. NoticesOK(s, t, r, n) /\ n \in Seq(Notices) BY <1>1 DEF ProviderInv, ProviderTyped
<1>3. s.mode = "payment" /\ t \in {"paid", "closed"} => u \in {"paid", "closed"} BY <1>1
<1>4. \A k \in 1 .. Len(sent) :
        /\ FactBy(s.provider, sent[k]).kind # "refund"
        /\ FactBy(s.provider, sent[k]).kind = "payment" =>
             PaymentOK(s, u, FactBy(s.provider, sent[k]))
  BY <1>1
<1>5. NoticesOK(s, u, r, n \o sent) BY <1>2, <1>3, <1>4, NoRefundIsTold
<1>6. NoticesOK(sale, trade', refunds', notified \o sent) /\ refunds' \in Seq(Nat)
  BY <1>1, <1>5 DEF ProviderInv, ProviderTyped
<1> QED BY <1>6, NotifiesKeeps

(* A provider that tells of one more refund. *)
LEMMA TellsRefund ==
  ASSUME ProviderInv, NEW e \in Notices, Notifies(<<e>>), NEW x \in Nat,
         refunds' = Append(refunds, x), UNCHANGED trade,
         FactBy(sale.provider, e).kind = "refund",
         IF Apart(sale.provider, e)
         THEN /\ FactBy(sale.provider, e).ref = Len(refunds) + 1
              /\ FactBy(sale.provider, e).amount = x
         ELSE /\ FactBy(sale.provider, e).amount \in Nat
              /\ FactBy(sale.provider, e).amount <= AmountRefunded(Append(refunds, x)),
         \A i \in Told(sale.provider, notified, Len(notified)) :
           Apart(sale.provider, notified[i]) <=> Apart(sale.provider, e)
  PROVE  ProviderInv'
<1>1. PICK s, t, r, n : s = sale /\ t = trade /\ r = refunds /\ n = notified OBVIOUS
<1>2. NoticesOK(s, t, r, n) /\ n \in Seq(Notices) /\ r \in Seq(Nat)
  BY <1>1 DEF ProviderInv, ProviderTyped
<1>3. /\ FactBy(s.provider, e).kind = "refund"
      /\ IF Apart(s.provider, e)
         THEN /\ FactBy(s.provider, e).ref = Len(r) + 1
              /\ FactBy(s.provider, e).amount = x
         ELSE /\ FactBy(s.provider, e).amount \in Nat
              /\ FactBy(s.provider, e).amount <= AmountRefunded(Append(r, x))
      /\ \A i \in Told(s.provider, n, Len(n)) :
           Apart(s.provider, n[i]) <=> Apart(s.provider, e)
  BY <1>1
<1>4. NoticesOK(s, t, Append(r, x), n \o <<e>>)
  <2>1. PICK N : N = Notices OBVIOUS
  <2>2. n \in Seq(N) /\ e \in N BY <1>2, <2>1
  <2> QED BY <1>2, <1>3, <2>2, RefundIsTold
<1>5. NoticesOK(sale, trade', refunds', notified \o <<e>>) BY <1>1, <1>4
<1>6. refunds' \in Seq(Nat) BY <1>1, <1>2
<1>7. <<e>> \in Seq(Notices) OBVIOUS
<1> QED BY <1>5, <1>6, <1>7, NotifiesKeeps

(* What the notifications become that tell of no refund. *)
LEMMA OtherNotices ==
  /\ \A e : e.type \in {"payment_intent.succeeded", "session.async_payment_failed"} =>
       FactBy("stripe", e) = Acknowledged
  /\ \A e : e.type \in {"session.completed", "session.async_payment_succeeded"} =>
       /\ FactBy("stripe", e).kind # "refund"
       /\ FactBy("stripe", e).kind = "payment" => e.mode = "payment" /\ e.paid
  /\ \A e : e.type \in {"subscription.updated", "subscription.deleted"} =>
       FactBy("stripe", e).kind = "subscription"
  /\ \A e : e.refund = <<>> =>
       /\ FactBy("alipay", e).kind # "refund"
       /\ FactBy("alipay", e).kind = "payment" => e.type \in {"TRADE_SUCCESS", "TRADE_FINISHED"}
  /\ \A e : e.type = "TRANSACTION.SUCCESS" => FactBy("wechat", e).kind = "payment"
<1>1. /\ \A e : FactBy("stripe", e) = StripeFact(e)
      /\ \A e : FactBy("alipay", e) = AlipayFact(e)
      /\ \A e : FactBy("wechat", e) = WechatFact(e)
  BY DEF FactBy
<1>2. \A e : e.type \in {"payment_intent.succeeded", "session.async_payment_failed"} =>
        StripeFact(e) = Acknowledged
  BY DEF StripeFact
<1>3. \A e : e.type \in {"session.completed", "session.async_payment_succeeded"} =>
        \/ StripeFact(e) = Acknowledged
        \/ StripeFact(e) = PaymentFact("intent", e.ours) /\ e.mode = "payment" /\ e.paid
  BY DEF StripeFact
<1>4. \A e : e.type \in {"subscription.updated", "subscription.deleted"} =>
        StripeFact(e).kind = "subscription"
  <2> TAKE e
  <2> HAVE e.type \in {"subscription.updated", "subscription.deleted"}
  <2>1. StripeFact(e) = SubscriptionFact(e) BY DEF StripeFact
  <2> QED BY <2>1 DEF SubscriptionFact, Acknowledged
<1>5. \A e : e.refund = <<>> =>
        \/ AlipayFact(e) = Acknowledged
        \/ /\ AlipayFact(e) = PaymentFact("trade", e.ours)
           /\ e.type \in {"TRADE_SUCCESS", "TRADE_FINISHED"}
  BY DEF AlipayFact
<1>6. \A e : e.type = "TRANSACTION.SUCCESS" =>
        WechatFact(e) = PaymentFact("transaction", e.ours)
  BY DEF WechatFact
<1> QED BY <1>1, <1>2, <1>3, <1>4, <1>5, <1>6, FactFields

(* A sale is of one of the three providers. *)
LEMMA SaleIs ==
  ASSUME ProviderTyped
  PROVE  /\ sale.provider \in Providers /\ sale.mode \in {"payment", "subscription"}
         /\ sale.hosted \in BOOLEAN
         /\ sale.mode = "subscription" => sale.provider = "stripe"
BY DEF ProviderTyped, Providers

(* A payment that is told of is the sale's own. *)
LEMMA PaymentIsOurs ==
  ASSUME ProviderTyped, NEW e, NEW t \in {"paid", "closed"}, sale.mode = "payment",
         FactBy(sale.provider, e).kind = "payment" => e.ours = sale.hosted
  PROVE  FactBy(sale.provider, e).kind = "payment" =>
           PaymentOK(sale, t, FactBy(sale.provider, e))
<1>1. PICK p : p = sale.provider OBVIOUS
<1>2. p \in Providers BY <1>1, SaleIs
<1>3. FactBy(p, e).kind = "payment" => FactBy(p, e).ours = e.ours BY <1>2, FactsAre
<1> QED BY <1>1, <1>3 DEF PaymentOK

(* One notification that tells of no refund. *)
LEMMA TellsOnce ==
  ASSUME ProviderInv, NEW e \in Notices, Notifies(<<e>>), UNCHANGED refunds,
         sale.mode = "payment" /\ trade \in {"paid", "closed"} => trade' \in {"paid", "closed"},
         FactBy(sale.provider, e).kind # "refund",
         FactBy(sale.provider, e).kind = "payment" =>
           sale.mode = "payment" /\ trade' \in {"paid", "closed"} /\ e.ours = sale.hosted
  PROVE  ProviderInv'
<1>1. PICK sent : sent = <<e>> OBVIOUS
<1>2. sent \in Seq(Notices) /\ Len(sent) = 1 /\ sent[1] = e BY <1>1
<1>3. ProviderTyped BY DEF ProviderInv
<1>4. FactBy(sale.provider, e).kind = "payment" =>
        PaymentOK(sale, trade', FactBy(sale.provider, e))
  BY <1>3, PaymentIsOurs
<1>5. \A k \in 1 .. Len(sent) : k = 1 BY <1>2
<1>6. Notifies(sent) BY <1>1
<1> QED BY <1>2, <1>4, <1>5, <1>6, TellsNoRefund

(* A payment is told of. *)
LEMMA PaysKeeps ==
  ASSUME ProviderInv, Pays
  PROVE  ProviderInv'
<1>1. /\ trade = "open" /\ sale.mode = "payment" /\ trade' = "paid" /\ UNCHANGED refunds
  BY DEF Pays
<1>2. ProviderTyped /\ sale.provider \in Providers /\ sale.hosted \in BOOLEAN
  BY SaleIs DEF ProviderInv
<1>3. CASE sale.provider = "stripe"
  <2>1. PICK a : a = StripeSession("session.completed", TRUE) OBVIOUS
  <2>2. PICK b : b = [type |-> "payment_intent.succeeded"] OBVIOUS
  <2>3. PICK sent : sent = <<a, b>> OBVIOUS
  <2>4. Notifies(sent) BY <1>3, <2>1, <2>2, <2>3 DEF Pays
  <2>5. a \in Notices /\ a.type = "session.completed" /\ a.ours = sale.hosted
    BY <1>1, <1>2, <2>1 DEF StripeSession, Notices
  <2>6. b \in Notices /\ b.type = "payment_intent.succeeded" BY <2>2 DEF Notices
  <2>7. /\ sent \in Seq(Notices) /\ Len(sent) = 2 /\ sent[1] = a /\ sent[2] = b
        /\ \A k \in 1 .. Len(sent) : k = 1 \/ k = 2
    BY <2>3, <2>5, <2>6
  <2>8. /\ FactBy("stripe", a).kind # "refund" /\ FactBy("stripe", b).kind = "none"
    BY <2>5, <2>6, OtherNotices, FactFields
  <2>9. FactBy(sale.provider, a).kind = "payment" =>
          PaymentOK(sale, trade', FactBy(sale.provider, a))
    BY <1>1, <1>2, <2>5, PaymentIsOurs
  <2>10. \A k \in 1 .. Len(sent) :
           /\ FactBy(sale.provider, sent[k]).kind # "refund"
           /\ FactBy(sale.provider, sent[k]).kind = "payment" =>
                PaymentOK(sale, trade', FactBy(sale.provider, sent[k]))
    BY <1>3, <2>7, <2>8, <2>9
  <2> QED BY <1>1, <2>4, <2>7, <2>10, TellsNoRefund
<1>4. CASE sale.provider = "alipay"
  <2>1. PICK e : e = [type |-> "TRADE_SUCCESS", refund |-> <<>>, ours |-> sale.hosted] OBVIOUS
  <2>2. Notifies(<<e>>) BY <1>4, <2>1 DEF Pays
  <2>3. e \in Notices /\ e.refund = <<>> /\ e.ours = sale.hosted BY <1>2, <2>1 DEF Notices
  <2> QED BY <1>1, <1>4, <2>2, <2>3, TellsOnce, OtherNotices
<1>5. CASE sale.provider = "wechat"
  <2>1. PICK e : e = [type |-> "TRANSACTION.SUCCESS", ours |-> sale.hosted] OBVIOUS
  <2>2. Notifies(<<e>>) BY <1>5, <2>1 DEF Pays
  <2>3. e \in Notices /\ e.type = "TRANSACTION.SUCCESS" /\ e.ours = sale.hosted
    BY <1>2, <2>1 DEF Notices
  <2>4. FactBy(sale.provider, e).kind = "payment" BY <1>5, <2>3, OtherNotices
  <2> QED BY <1>1, <1>5, <2>2, <2>3, <2>4, TellsOnce
<1> QED BY <1>2, <1>3, <1>4, <1>5 DEF Providers

(* A session is completed before it is paid for. *)
LEMMA CompletesUnpaidKeeps ==
  ASSUME ProviderInv, CompletesUnpaid
  PROVE  ProviderInv'
<1>1. /\ trade = "open" /\ sale.provider = "stripe" /\ sale.mode = "payment"
      /\ trade' = "pending" /\ UNCHANGED refunds
  BY DEF CompletesUnpaid
<1>2. sale.hosted \in BOOLEAN BY SaleIs DEF ProviderInv
<1>3. PICK e : e = StripeSession("session.completed", FALSE) OBVIOUS
<1>4. Notifies(<<e>>) BY <1>3 DEF CompletesUnpaid
<1>5. e \in Notices /\ e.type = "session.completed" /\ ~e.paid
  BY <1>1, <1>2, <1>3 DEF StripeSession, Notices
<1>6. FactBy(sale.provider, e).kind \notin {"refund", "payment"} BY <1>1, <1>5, OtherNotices
<1> QED BY <1>1, <1>4, <1>5, <1>6, TellsOnce

(* A delayed payment succeeds or fails. *)
LEMMA PaysLateKeeps ==
  ASSUME ProviderInv, PaysLate, trade = "pending" => sale.provider = "stripe" /\ sale.mode = "payment"
  PROVE  ProviderInv'
<1>1. trade = "pending" /\ sale.provider = "stripe" /\ sale.mode = "payment" /\ UNCHANGED refunds
  BY DEF PaysLate
<1>2. sale.hosted \in BOOLEAN BY SaleIs DEF ProviderInv
<1>3. CASE trade' = "paid" /\ Notifies(<<StripeSession("session.async_payment_succeeded", TRUE)>>)
  <2>1. PICK e : e = StripeSession("session.async_payment_succeeded", TRUE) OBVIOUS
  <2>2. e \in Notices /\ e.type = "session.async_payment_succeeded" /\ e.ours = sale.hosted
    BY <1>1, <1>2, <2>1 DEF StripeSession, Notices
  <2>3. FactBy(sale.provider, e).kind # "refund" BY <1>1, <2>2, OtherNotices
  <2> QED BY <1>1, <1>3, <2>1, <2>2, <2>3, TellsOnce
<1>4. CASE trade' = "closed" /\ Notifies(<<[type |-> "session.async_payment_failed"]>>)
  <2>1. PICK e : e = [type |-> "session.async_payment_failed"] OBVIOUS
  <2>2. e \in Notices /\ e.type = "session.async_payment_failed" BY <2>1 DEF Notices
  <2>3. FactBy(sale.provider, e).kind = "none" BY <1>1, <2>2, OtherNotices, FactFields
  <2> QED BY <1>1, <1>4, <2>1, <2>2, <2>3, TellsOnce
<1> QED BY <1>3, <1>4 DEF PaysLate

(* The end of a trade is told of. *)
LEMMA ClosesKeeps ==
  ASSUME ProviderInv, Closes
  PROVE  ProviderInv'
<1>1. /\ sale.provider = "alipay" /\ trade \in {"open", "paid"} /\ trade' = "closed"
      /\ UNCHANGED refunds
  BY DEF Closes
<1>2. sale.hosted \in BOOLEAN /\ sale.mode = "payment"
  BY <1>1, SaleIs DEF ProviderInv
<1>3. PICK e : e = [type |-> IF trade = "open" THEN "TRADE_CLOSED" ELSE "TRADE_FINISHED",
                    refund |-> <<>>, ours |-> sale.hosted]
  OBVIOUS
<1>4. Notifies(<<e>>) BY <1>3 DEF Closes
<1>5. e \in Notices /\ e.refund = <<>> /\ e.ours = sale.hosted BY <1>2, <1>3 DEF Notices
<1> QED BY <1>1, <1>2, <1>4, <1>5, TellsOnce, OtherNotices

(* A subscription changes. *)
LEMMA RenewsKeeps ==
  ASSUME ProviderInv, Renews
  PROVE  ProviderInv'
<1>1. sale.mode = "subscription" /\ UNCHANGED refunds BY DEF Renews
<1>2. sale.provider = "stripe" /\ sale.hosted \in BOOLEAN BY <1>1, SaleIs DEF ProviderInv
<1>3. PICK status \in Statuses :
        Notifies(<<[type |-> IF status = "canceled" THEN "subscription.deleted"
                             ELSE "subscription.updated",
                    status |-> status, plan |-> ~sale.hosted]>>)
  BY DEF Renews
<1>4. PICK e : e = [type |-> IF status = "canceled" THEN "subscription.deleted"
                             ELSE "subscription.updated",
                    status |-> status, plan |-> ~sale.hosted]
  OBVIOUS
<1>5. e \in Notices /\ e.type \in {"subscription.updated", "subscription.deleted"}
  BY <1>2, <1>4 DEF Notices
<1>6. FactBy(sale.provider, e).kind = "subscription" BY <1>2, <1>5, OtherNotices
<1> QED BY <1>1, <1>3, <1>4, <1>5, <1>6, TellsOnce

(* A refund is told of, by itself or with those before. *)
LEMMA RefundKeeps ==
  ASSUME ProviderInv, NEW x \in RefundedParts, Refund(x)
  PROVE  ProviderInv'
<1>1. PICK all : all = Append(refunds, x) OBVIOUS
<1>2. refunds' = all /\ UNCHANGED trade /\ x \in Nat BY <1>1, ProviderAssumption DEF Refund
<1>3. refunds \in Seq(Nat) /\ sale.provider \in Providers /\ sale.hosted \in BOOLEAN
  BY SaleIs DEF ProviderInv, ProviderTyped
<1>4. PICK m \in Nat : m = Len(refunds) BY <1>3
<1>5. all \in Seq(Nat) /\ Len(all) = m + 1 /\ all[m + 1] = x BY <1>1, <1>2, <1>3, <1>4
<1>6. AmountRefunded(all) \in Nat /\ x <= AmountRefunded(all)
  <2>1. AmountRefunded(refunds) \in Nat /\ AmountRefunded(all) = AmountRefunded(refunds) + x
    BY <1>1, <1>2, <1>3, RefundAdds
  <2> QED BY <1>2, <2>1
<1>7. PICK total : total = AmountRefunded(all) OBVIOUS
<1>8. PICK listed \in BOOLEAN, text \in TextsOf(x) \cup TextsOf(total) :
        CASE sale.provider = "stripe" ->
               /\ \A i \in DOMAIN notified :
                    notified[i].type = "charge.refunded" => notified[i].listed = listed
               /\ Notifies(<<[type |-> "charge.refunded", listed |-> listed, refunds |-> all,
                              ours |-> sale.hosted]>>)
          [] sale.provider = "alipay" ->
               Notifies(<<[type |-> "TRADE_SUCCESS", refund |-> <<text>>, ours |-> sale.hosted]>>)
          [] sale.provider = "wechat" ->
               Notifies(<<[type |-> "REFUND.SUCCESS", number |-> Len(all), amount |-> x,
                           ours |-> sale.hosted]>>)
  BY <1>1, <1>7 DEF Refund
<1>9. notified \in Seq(Notices) /\ DOMAIN notified = 1 .. Len(notified)
  BY DEF ProviderInv, ProviderTyped
<1>10. \A e : FactBy(sale.provider, e).kind = "refund" /\ sale.provider = "stripe" =>
         e.type = "charge.refunded"
  BY <1>3, FactsAre
<1>11. CASE sale.provider = "stripe"
  <2>1. PICK e : e = [type |-> "charge.refunded", listed |-> listed, refunds |-> all,
                      ours |-> sale.hosted]
    OBVIOUS
  <2>2. /\ Notifies(<<e>>)
        /\ \A i \in DOMAIN notified :
             notified[i].type = "charge.refunded" => notified[i].listed = listed
    BY <1>8, <1>11, <2>1
  <2>3. /\ e \in Notices /\ e.type = "charge.refunded" /\ e.refunds = all
        /\ e.listed = listed /\ (Apart(sale.provider, e) <=> listed)
    BY <1>3, <1>5, <1>11, <2>1 DEF Notices, Apart
  <2>4. FactBy("stripe", e).kind = "refund"
    <3>1. FactBy("stripe", e) = StripeFact(e) BY DEF FactBy
    <3>2. StripeFact(e) = StripeRefundFacts(e) BY <2>3 DEF StripeFact
    <3> QED BY <3>1, <3>2, FactFields DEF StripeRefundFacts
  <2>5. /\ listed => /\ FactBy(sale.provider, e).ref = m + 1
                     /\ FactBy(sale.provider, e).amount = x
        /\ ~listed => FactBy(sale.provider, e).amount = AmountRefunded(all)
    <3>1. PICK p : p = sale.provider OBVIOUS
    <3>2. p \in Providers /\ p = "stripe" /\ FactBy(p, e).kind = "refund"
      BY <1>3, <1>11, <2>4, <3>1
    <3>3. /\ e.listed => /\ FactBy(p, e).ref = Len(e.refunds)
                         /\ FactBy(p, e).amount = e.refunds[Len(e.refunds)]
          /\ ~e.listed => FactBy(p, e).amount = AmountRefunded(e.refunds)
      BY <3>2, FactsAre
    <3> QED BY <1>5, <2>3, <3>1, <3>3
  <2>6. \A i \in Told(sale.provider, notified, Len(notified)) :
          Apart(sale.provider, notified[i]) <=> Apart(sale.provider, e)
    BY <1>9, <1>10, <1>11, <2>2, <2>3 DEF Told, Apart
  <2> QED BY <1>1, <1>2, <1>4, <1>6, <1>11, <2>2, <2>3, <2>4, <2>5, <2>6, TellsRefund
<1>12. CASE sale.provider = "alipay"
  <2>1. PICK e : e = [type |-> "TRADE_SUCCESS", refund |-> <<text>>, ours |-> sale.hosted]
    OBVIOUS
  <2>2. Notifies(<<e>>) BY <1>8, <1>12, <2>1
  <2>3. /\ e \in Notices /\ e.refund # <<>> /\ e.refund[1] = text
        /\ ~Apart(sale.provider, e)
    <3>1. <<text>> \in {<<z>> : z \in UNION {TextsOf(n) : n \in Nat}} BY <1>2, <1>6, <1>7
    <3> QED BY <1>3, <1>12, <2>1, <3>1 DEF Notices, Apart
  <2>4. MinorAmount(text) \in Nat /\ MinorAmount(text) <= AmountRefunded(all)
    <3>1. CASE text \in TextsOf(x)
      <4>1. MinorAmount(text) = x BY <1>2, <3>1, TextsAreRead
      <4> QED BY <1>2, <1>6, <4>1
    <3>2. CASE text \in TextsOf(total)
      <4>1. MinorAmount(text) = total BY <1>6, <1>7, <3>2, TextsAreRead
      <4> QED BY <1>6, <1>7, <4>1
    <3> QED BY <3>1, <3>2
  <2>5. /\ FactBy("alipay", e).kind = "refund"
        /\ FactBy("alipay", e).amount = MinorAmount(text)
    <3>1. FactBy("alipay", e) = AlipayFact(e) BY DEF FactBy
    <3>2. AlipayFact(e) = RefundFact("trade", MinorAmount(text), e.ours)
      BY <2>3 DEF AlipayFact
    <3> QED BY <3>1, <3>2, FactFields
  <2>6. \A i \in Told(sale.provider, notified, Len(notified)) :
          Apart(sale.provider, notified[i]) <=> Apart(sale.provider, e)
    BY <1>12 DEF Apart
  <2> QED BY <1>1, <1>2, <1>12, <2>2, <2>3, <2>4, <2>5, <2>6, TellsRefund
<1>13. CASE sale.provider = "wechat"
  <2>1. PICK e : e = [type |-> "REFUND.SUCCESS", number |-> Len(all), amount |-> x,
                      ours |-> sale.hosted]
    OBVIOUS
  <2>2. Notifies(<<e>>) BY <1>8, <1>13, <2>1
  <2>3. /\ e \in Notices /\ e.type = "REFUND.SUCCESS" /\ e.number = m + 1 /\ e.amount = x
        /\ Apart(sale.provider, e)
    BY <1>2, <1>3, <1>5, <1>13, <2>1 DEF Notices, Apart
  <2>4. /\ FactBy("wechat", e).kind = "refund" /\ FactBy("wechat", e).ref = m + 1
        /\ FactBy("wechat", e).amount = x
    <3>1. FactBy("wechat", e) = WechatFact(e) BY DEF FactBy
    <3>2. WechatFact(e) = RefundFact(e.number, e.amount, e.ours) BY <2>3 DEF WechatFact
    <3> QED BY <2>3, <3>1, <3>2, FactFields
  <2>5. \A i \in Told(sale.provider, notified, Len(notified)) :
          Apart(sale.provider, notified[i]) <=> Apart(sale.provider, e)
    BY <1>13 DEF Apart
  <2> QED BY <1>1, <1>2, <1>4, <1>13, <2>2, <2>3, <2>4, <2>5, TellsRefund
<1> QED BY <1>3, <1>11, <1>12, <1>13 DEF Providers

(* What became of a notification, and that nothing else changes with it. *)
LEMMA BecomesIs ==
  ASSUME ProviderTyped, NEW i \in DOMAIN notified, NEW status \in Outcomes, Becomes(i, status),
         UNCHANGED <<sale, refunds, notified>>
  PROVE  /\ ProviderTyped'
         /\ handled'[i] = status /\ \A j \in DOMAIN notified \ {i} : handled'[j] = handled[j]
<1>1. PICK m \in Nat : m = Len(notified) /\ DOMAIN notified = 1 .. m BY DEF ProviderTyped
<1>2. handled \in [1 .. m -> Outcomes] BY <1>1 DEF ProviderTyped
<1>3. /\ handled' \in [1 .. m -> Outcomes]
      /\ handled'[i] = status /\ \A j \in DOMAIN notified \ {i} : handled'[j] = handled[j]
  BY <1>1, <1>2 DEF Becomes
<1>4. handled' \in Seq(Outcomes) /\ Len(handled') = m
  <2>1. PICK h : h = handled' OBVIOUS
  <2>2. h \in [1 .. m -> Outcomes] BY <1>3, <2>1
  <2>3. h \in Seq(Outcomes) /\ Len(h) = m BY <2>2
  <2> QED BY <2>1, <2>3
<1> QED BY <1>1, <1>3, <1>4 DEF ProviderTyped

(* A fact that is no refund leaves the reversals as they are. *)
LEMMA ReversalsRest ==
  ASSUME ReversalsOK, NEW i \in DOMAIN notified,
         UNCHANGED <<sale, notified, reversals>>, FactOf(i).kind # "refund" \/ handled'[i] # "processed",
         \A j \in DOMAIN notified \ {i} : handled'[j] = handled[j]
  PROVE  ReversalsOK'
<1>1. \A j : FactOf(j)' = FactOf(j) BY DEF FactOf
<1>2. \A j \in DOMAIN notified :
        handled'[j] = "processed" /\ FactOf(j).kind = "refund" =>
          [ref |-> FactOf(j).ref, amount |-> FactOf(j).amount] \in reversals
  BY DEF ReversalsOK
<1> QED BY <1>1, <1>2 DEF ReversalsOK

(* The adapter of the sale's provider. *)
LEMMA FactIs ==
  ASSUME ProviderTyped, NEW i
  PROVE  Fact(notified[i]) = FactOf(i)
<1>1. sale.provider \in Providers BY SaleIs
<1> QED BY <1>1 DEF Fact, FactOf, FactBy

(* What the fact of a notification says. *)
LEMMA FactSays ==
  ASSUME ProviderInv, NEW i \in DOMAIN notified
  PROVE  /\ FactOf(i).kind \in {"none", "payment", "refund", "subscription"}
         /\ FactOf(i).kind = "payment" =>
              /\ FactOf(i).ref = PaymentRef(sale.provider) /\ FactOf(i).ours = sale.hosted
              /\ sale.mode = "payment" /\ trade \in {"paid", "closed"}
         /\ FactOf(i).kind = "refund" => RefundOK(sale.provider, refunds, notified, i)
         /\ FactOf(i).kind = "subscription" =>
              (FactOf(i).grants => notified[i].status \in {"active", "trialing"})
<1>1. ProviderTyped /\ NoticesOK(sale, trade, refunds, notified) BY DEF ProviderInv
<1>2. PICK p, e : p = sale.provider /\ e = notified[i] OBVIOUS
<1>3. p \in Providers /\ FactOf(i) = FactBy(p, e) BY <1>1, <1>2, SaleIs DEF FactOf
<1>4. i \in 1 .. Len(notified) BY <1>1 DEF ProviderTyped
<1>5. /\ FactBy(p, e).kind = "refund" => RefundOK(p, refunds, notified, i)
      /\ FactBy(p, e).kind = "payment" => PaymentOK(sale, trade, FactBy(p, e))
  BY <1>1, <1>2, <1>4 DEF NoticesOK
<1>6. /\ FactBy(p, e).kind \in {"none", "payment", "refund", "subscription"}
      /\ FactBy(p, e).kind = "payment" => FactBy(p, e).ref = PaymentRef(p)
      /\ FactBy(p, e).kind = "subscription" =>
           (FactBy(p, e).grants => e.status \in {"active", "trialing"})
  BY <1>3, FactsAre
<1> QED BY <1>2, <1>3, <1>5, <1>6 DEF PaymentOK

(* A notification that is worked on. *)
LEMMA HandleEventKeeps ==
  ASSUME ProviderInv, NEW i \in DOMAIN notified, HandleEvent(i)
  PROVE  ProviderInv'
<1> DEFINE fact == FactOf(i)
<1>1. ProviderTyped /\ ReversalsOK /\ SettledOK /\ RenewedOK BY DEF ProviderInv
<1>2. /\ UNCHANGED <<sale, trade, refunds, notified>>
      /\ \/ HandlePayment(i, fact) \/ HandleRefund(i, fact) \/ HandleSubscription(i, fact)
         \/ /\ fact.kind = "none" /\ Becomes(i, "ignored")
            /\ UNCHANGED <<settled, reversals, renewed>>
  <2>1. Fact(notified[i]) = fact BY <1>1, FactIs
  <2> HIDE DEF fact
  <2> QED BY <2>1 DEF HandleEvent
<1>3. /\ fact.kind = "payment" =>
           /\ fact.ref = PaymentRef(sale.provider) /\ fact.ours = sale.hosted
           /\ sale.mode = "payment" /\ trade \in {"paid", "closed"}
      /\ fact.kind = "subscription" =>
           (fact.grants => notified[i].status \in {"active", "trialing"})
  BY FactSays
<1>4. NoticesOK(sale', trade', refunds', notified') BY <1>2 DEF ProviderInv
<1>5. ASSUME NEW status \in Outcomes, Becomes(i, status)
      PROVE  /\ ProviderTyped' /\ handled'[i] = status
             /\ \A j \in DOMAIN notified \ {i} : handled'[j] = handled[j]
  BY <1>1, <1>2, <1>5, BecomesIs
<1>6. CASE HandlePayment(i, fact)
  <2>1. fact.kind = "payment" /\ UNCHANGED <<reversals, renewed>> BY <1>6 DEF HandlePayment
  <2>2. PICK status \in {"processed", "failed"} : Becomes(i, status)
    BY <1>6 DEF HandlePayment
  <2>3. status \in Outcomes BY DEF Outcomes
  <2>4. ProviderTyped' /\ \A j \in DOMAIN notified \ {i} : handled'[j] = handled[j]
    BY <1>5, <2>2, <2>3
  <2>5. ReversalsOK' BY <1>1, <1>2, <2>1, <2>4, ReversalsRest
  <2>6. RenewedOK' BY <1>1, <1>2, <2>1 DEF RenewedOK
  <2>7. SettledOK'
    <3>1. CASE UNCHANGED settled BY <1>1, <1>2, <3>1 DEF SettledOK
    <3>2. CASE Settleable(i, fact) /\ settled' = settled \cup {[ref |-> fact.ref, by |-> i]}
      <4>1. PICK new : new = [ref |-> fact.ref, by |-> i] OBVIOUS
      <4>2. fact.ref = PaymentRef(sale.provider) /\ sale.hosted BY <1>3, <2>1, <3>2 DEF Settleable
      <4>3. \A s \in settled : s = new
        BY <1>1, <3>2, <4>1, <4>2 DEF SettledOK, Settleable
      <4>4. settled' = {new} BY <3>2, <4>1, <4>3
      <4>5. new = [ref |-> PaymentRef(sale.provider), by |-> new.by] BY <4>1, <4>2
      <4> QED BY <1>2, <1>3, <2>1, <4>2, <4>4, <4>5 DEF SettledOK
    <3> QED BY <1>6, <3>1, <3>2 DEF HandlePayment
  <2> QED BY <1>4, <2>4, <2>5, <2>6, <2>7 DEF ProviderInv
<1>7. CASE HandleRefund(i, fact)
  <2>1. fact.kind = "refund" /\ UNCHANGED <<settled, renewed>> BY <1>7 DEF HandleRefund
  <2>2. SettledOK' /\ RenewedOK' BY <1>1, <1>2, <2>1 DEF SettledOK, RenewedOK
  <2>3. CASE Becomes(i, "failed") /\ UNCHANGED reversals
    <3>1. "failed" \in Outcomes BY DEF Outcomes
    <3>2. /\ ProviderTyped' /\ handled'[i] = "failed"
          /\ \A j \in DOMAIN notified \ {i} : handled'[j] = handled[j]
      BY <1>5, <2>3, <3>1
    <3>3. ReversalsOK' BY <1>1, <1>2, <2>3, <3>2, ReversalsRest
    <3> QED BY <1>4, <2>2, <3>2, <3>3 DEF ProviderInv
  <2>4. CASE /\ Reversible(fact) /\ Becomes(i, "processed")
             /\ reversals' = reversals \cup {[ref |-> fact.ref, amount |-> fact.amount]}
    <3>1. "processed" \in Outcomes BY DEF Outcomes
    <3>2. /\ ProviderTyped' /\ handled'[i] = "processed"
          /\ \A j \in DOMAIN notified \ {i} : handled'[j] = handled[j]
      BY <1>5, <2>4, <3>1
    <3>3. PICK new : new = [ref |-> fact.ref, amount |-> fact.amount] OBVIOUS
    <3>4. reversals' = reversals \cup {new} BY <2>4, <3>3
    <3>5. new.ref = fact.ref /\ new.amount = fact.amount BY <3>3
    <3>6. \A r \in reversals : r = [ref |-> r.ref, amount |-> r.amount] BY <1>1 DEF ReversalsOK
    <3>7. \A r \in reversals : r.ref = fact.ref => r.amount = fact.amount
      BY <2>4 DEF Reversible
    <3>8. \A r \in reversals : r.ref = new.ref => r = new BY <3>3, <3>5, <3>6, <3>7
    <3>9. \A j : FactOf(j)' = FactOf(j) BY <1>2 DEF FactOf
    <3>10. IsFiniteSet(reversals') BY <1>1, <3>4, FS_AddElement DEF ReversalsOK
    <3>11. \A r \in reversals' : \E j \in DOMAIN notified' :
             /\ FactOf(j)'.kind = "refund"
             /\ r = [ref |-> FactOf(j)'.ref, amount |-> FactOf(j)'.amount]
      <4>1. \A r \in reversals : \E j \in DOMAIN notified :
              FactOf(j).kind = "refund" /\ r = [ref |-> FactOf(j).ref, amount |-> FactOf(j).amount]
        BY <1>1 DEF ReversalsOK
      <4>2. \E j \in DOMAIN notified :
              FactOf(j).kind = "refund" /\ new = [ref |-> FactOf(j).ref, amount |-> FactOf(j).amount]
        BY <2>1, <3>3
      <4> HIDE DEF fact
      <4> QED BY <1>2, <3>4, <3>9, <4>1, <4>2
    <3>12. \A r, s \in reversals' : r.ref = s.ref => r = s
      BY <1>1, <3>4, <3>8 DEF ReversalsOK
    <3>13. \A j \in DOMAIN notified' :
             handled'[j] = "processed" /\ FactOf(j)'.kind = "refund" =>
               [ref |-> FactOf(j)'.ref, amount |-> FactOf(j)'.amount] \in reversals'
      <4>1. ASSUME NEW j \in DOMAIN notified, j # i, handled'[j] = "processed", FactOf(j).kind = "refund"
            PROVE  [ref |-> FactOf(j).ref, amount |-> FactOf(j).amount] \in reversals'
        BY <1>1, <3>2, <3>4, <4>1 DEF ReversalsOK
      <4>2. [ref |-> FactOf(i).ref, amount |-> FactOf(i).amount] \in reversals'
        BY <3>3, <3>4
      <4> HIDE DEF fact
      <4> QED BY <1>2, <3>9, <4>1, <4>2
    <3>14. ReversalsOK' BY <3>10, <3>11, <3>12, <3>13 DEF ReversalsOK
    <3> QED BY <1>4, <2>2, <3>2, <3>14 DEF ProviderInv
  <2> QED BY <1>7, <2>3, <2>4 DEF HandleRefund
<1>8. CASE HandleSubscription(i, fact)
  <2>1. fact.kind = "subscription" /\ UNCHANGED <<settled, reversals>> BY <1>8 DEF HandleSubscription
  <2>2. PICK status \in {"processed", "failed"} : Becomes(i, status)
    BY <1>8 DEF HandleSubscription
  <2>3. status \in Outcomes BY DEF Outcomes
  <2>4. ProviderTyped' /\ \A j \in DOMAIN notified \ {i} : handled'[j] = handled[j]
    BY <1>5, <2>2, <2>3
  <2>5. ReversalsOK' BY <1>1, <1>2, <2>1, <2>4, ReversalsRest
  <2>6. SettledOK' BY <1>1, <1>2, <2>1 DEF SettledOK
  <2>7. renewed' = renewed \/ (renewed' = renewed \cup {i} /\ fact.grants)
    BY <1>8 DEF HandleSubscription
  <2>8. RenewedOK' BY <1>1, <1>2, <1>3, <2>1, <2>7 DEF RenewedOK
  <2> QED BY <1>4, <2>4, <2>5, <2>6, <2>8 DEF ProviderInv
<1>9. CASE /\ fact.kind = "none" /\ Becomes(i, "ignored")
            /\ UNCHANGED <<settled, reversals, renewed>>
  <2>1. "ignored" \in Outcomes BY DEF Outcomes
  <2>2. ProviderTyped' /\ \A j \in DOMAIN notified \ {i} : handled'[j] = handled[j]
    BY <1>5, <1>9, <2>1
  <2>3. ReversalsOK' BY <1>1, <1>2, <1>9, <2>2, ReversalsRest
  <2>4. SettledOK' /\ RenewedOK' BY <1>1, <1>2, <1>9 DEF SettledOK, RenewedOK
  <2> QED BY <1>4, <2>2, <2>3, <2>4 DEF ProviderInv
<1> QED BY <1>2, <1>6, <1>7, <1>8, <1>9

-------------------------------------------------------------------------------
\* Only Stripe's checkouts may be completed before they are paid for.
PendingOK == trade = "pending" => sale.provider = "stripe" /\ sale.mode = "payment"

(* Every step of provider and processor keeps the invariant. *)
LEMMA ProviderStepKeeps ==
  ASSUME ProviderInv, PendingOK, [ProviderStep]_providerVars
  PROVE  ProviderInv' /\ PendingOK'
<1>1. CASE Pays BY <1>1, PaysKeeps DEF Pays, PendingOK
<1>2. CASE CompletesUnpaid
  <2>1. UNCHANGED sale BY <1>2 DEF CompletesUnpaid, Notifies
  <2> QED BY <1>2, <2>1, CompletesUnpaidKeeps DEF CompletesUnpaid, PendingOK
<1>3. CASE PaysLate
  <2>1. trade' # "pending" BY <1>3 DEF PaysLate
  <2> QED BY <1>3, <2>1, PaysLateKeeps DEF PendingOK
<1>4. CASE Closes BY <1>4, ClosesKeeps DEF Closes, PendingOK
<1>5. CASE Renews
  <2>1. trade' # "pending" BY <1>5 DEF Renews, Statuses
  <2> QED BY <1>5, <2>1, RenewsKeeps DEF PendingOK
<1>6. CASE \E n \in RefundedParts : Refund(n)
  <2>1. UNCHANGED trade /\ trade = "paid" BY <1>6 DEF Refund
  <2> QED BY <1>6, <2>1, RefundKeeps DEF PendingOK
<1>7. CASE \E i \in DOMAIN notified : HandleEvent(i)
  <2>1. UNCHANGED <<sale, trade>> BY <1>7 DEF HandleEvent
  <2> QED BY <1>7, <2>1, HandleEventKeeps DEF PendingOK
<1>8. CASE UNCHANGED providerVars
  <2>1. \A i : FactOf(i)' = FactOf(i) BY <1>8 DEF providerVars, FactOf
  <2>2. ProviderTyped' /\ NoticesOK(sale, trade, refunds, notified)'
    BY <1>8 DEF providerVars, ProviderInv, ProviderTyped
  <2>3. ReversalsOK' BY <1>8, <2>1 DEF providerVars, ProviderInv, ReversalsOK
  <2>4. SettledOK' /\ RenewedOK' BY <1>8 DEF providerVars, ProviderInv, SettledOK, RenewedOK
  <2> QED BY <1>8, <2>2, <2>3, <2>4 DEF providerVars, ProviderInv, PendingOK
<1> QED BY <1>1, <1>2, <1>3, <1>4, <1>5, <1>6, <1>7, <1>8 DEF ProviderStep

(* Nothing is told of a sale that was only agreed on. *)
LEMMA ProviderBegins ==
  ASSUME ProviderInit
  PROVE  ProviderInv /\ PendingOK
<1>1. /\ trade = "open" /\ refunds = <<>> /\ notified = <<>> /\ handled = <<>>
      /\ settled = {} /\ reversals = {} /\ renewed = {}
  BY DEF ProviderInit
<1>2. ProviderTyped BY <1>1 DEF ProviderInit, ProviderTyped
<1>3. Cardinality({}) = 0 /\ IsFiniteSet({}) BY FS_EmptySet
<1>4. NoticesOK(sale, trade, <<>>, <<>>)
  <2>1. PICK n : n = <<>> OBVIOUS
  <2>2. Len(n) = 0 /\ 1 .. Len(n) = {} BY <2>1
  <2>3. \A p : Told(p, n, Len(n)) = {} BY <2>2 DEF Told
  <2>4. NoticesOK(sale, trade, n, n) BY <1>3, <2>2, <2>3 DEF NoticesOK
  <2> QED BY <2>1, <2>4
<1>5. ReversalsOK BY <1>1, <1>3 DEF ReversalsOK
<1>6. SettledOK /\ RenewedOK BY <1>1 DEF SettledOK, RenewedOK
<1> QED BY <1>1, <1>2, <1>4, <1>5, <1>6 DEF ProviderInv, PendingOK

(***************************************************************************)
(* What was told, recorded and worked on fits what the provider did, in    *)
(* every state (parseEvent of the adapters, process).                      *)
(***************************************************************************)
THEOREM ProviderInvariant == ProviderSpec => [](ProviderInv /\ PendingOK)
<1>1. ProviderInit => ProviderInv /\ PendingOK BY ProviderBegins
<1>2. ProviderInv /\ PendingOK /\ [ProviderStep]_providerVars => (ProviderInv /\ PendingOK)'
  BY ProviderStepKeeps
<1> QED BY <1>1, <1>2, PTL DEF ProviderSpec

(* No more is taken back than the provider refunded. *)
LEMMA NoMoreIsReversed ==
  ASSUME ProviderInv
  PROVE  AmountReversed(reversals) <= AmountRefunded(refunds)
<1>1. /\ IsFiniteSet(reversals) /\ \A r, s \in reversals : r.ref = s.ref => r = s
      /\ \A r \in reversals : \E i \in DOMAIN notified :
           FactOf(i).kind = "refund" /\ r = [ref |-> FactOf(i).ref, amount |-> FactOf(i).amount]
  BY DEF ProviderInv, ReversalsOK
<1>2. PICK p \in Providers : p = sale.provider BY SaleIs DEF ProviderInv
<1>3. PICK q \in Nat : DOMAIN refunds = 1 .. q /\ \A c \in 1 .. q : refunds[c] \in Nat
  <2>1. refunds \in Seq(Nat) BY DEF ProviderInv, ProviderTyped
  <2> QED BY <2>1
<1>4. IsFiniteSet(DOMAIN refunds) BY <1>3, FS_Interval
<1>5. PICK f : f = [r \in reversals |-> r.amount] OBVIOUS
<1>6. AmountReversed(reversals) = Sum(reversals, f) BY <1>5 DEF AmountReversed
<1>7. \A i \in DOMAIN notified : FactOf(i).kind = "refund" => RefundOK(p, refunds, notified, i)
  BY <1>2, FactSays
<1>8. \A i, j \in DOMAIN notified :
        FactOf(i).kind = "refund" /\ FactOf(j).kind = "refund" =>
          (Apart(p, notified[i]) <=> Apart(p, notified[j]))
  <2>1. DOMAIN notified = 1 .. Len(notified) BY DEF ProviderInv, ProviderTyped
  <2>2. \A i, j \in Told(p, notified, Len(notified)) :
          Apart(p, notified[i]) <=> Apart(p, notified[j])
    BY <1>2 DEF ProviderInv, NoticesOK
  <2> QED BY <1>2, <2>1, <2>2 DEF Told, FactOf
<1>9. AmountRefunded(refunds) \in Nat BY <1>3, <1>4, SumType DEF AmountRefunded
<1>10. CASE reversals = {}
  <2>1. Sum({}, f) = 0 BY SumEmpty
  <2> QED BY <1>6, <1>9, <1>10, <2>1
<1>11. CASE \E i \in DOMAIN notified : FactOf(i).kind = "refund" /\ Apart(p, notified[i])
  <2>1. ASSUME NEW r \in reversals
        PROVE  r.ref \in DOMAIN refunds /\ r.amount = refunds[r.ref]
    <3>1. PICK i \in DOMAIN notified :
            FactOf(i).kind = "refund" /\ r = [ref |-> FactOf(i).ref, amount |-> FactOf(i).amount]
      BY <1>1
    <3>2. Apart(p, notified[i]) /\ RefundOK(p, refunds, notified, i)
      BY <1>7, <1>8, <1>11, <3>1
    <3>3. FactOf(i).ref \in DOMAIN refunds /\ FactOf(i).amount = refunds[FactOf(i).ref]
      BY <1>2, <3>2 DEF RefundOK, FactOf
    <3> QED BY <3>1, <3>3
  <2>2. PICK m : m = [r \in reversals |-> r.ref] OBVIOUS
  <2>3. \A r \in reversals : m[r] = r.ref /\ f[r] = r.amount BY <1>5, <2>2
  <2>4. \A r \in reversals : m[r] \in DOMAIN refunds /\ f[r] \in Int /\ f[r] <= refunds[m[r]]
    BY <1>3, <2>1, <2>3
  <2>5. \A r, s \in reversals : m[r] = m[s] => r = s BY <1>1, <2>3
  <2>6. \A c \in DOMAIN refunds : refunds[c] \in Int BY <1>3
  <2>7. Sum(reversals, f) <= Sum(DOMAIN refunds, refunds)
    <3>1. PICK T, g : T = DOMAIN refunds /\ g = refunds OBVIOUS
    <3>2. /\ IsFiniteSet(T) /\ \A c \in T : g[c] \in Int
          /\ \A r \in reversals : m[r] \in T /\ f[r] \in Int /\ f[r] <= g[m[r]]
      BY <1>4, <2>4, <2>6, <3>1
    <3>3. Sum(reversals, f) <= Sum(T, g) BY <1>1, <2>5, <3>2, SumInjected
    <3> QED BY <3>1, <3>3
  <2> QED BY <1>6, <2>7 DEF AmountRefunded
<1>12. CASE /\ \A i \in DOMAIN notified : FactOf(i).kind = "refund" => ~Apart(p, notified[i])
            /\ reversals # {}
  <2>1. ASSUME NEW r \in reversals
        PROVE  r.ref = CommonRef(p) /\ r.amount \in Nat /\ r.amount <= AmountRefunded(refunds)
    <3>1. PICK i \in DOMAIN notified :
            FactOf(i).kind = "refund" /\ r = [ref |-> FactOf(i).ref, amount |-> FactOf(i).amount]
      BY <1>1
    <3>2. ~Apart(p, notified[i]) /\ RefundOK(p, refunds, notified, i) BY <1>7, <1>12, <3>1
    <3>3. FactOf(i).amount \in Nat /\ FactOf(i).amount <= AmountRefunded(refunds)
      BY <1>2, <3>2 DEF RefundOK, FactOf
    <3>4. FactOf(i).ref = CommonRef(p)
      <4>1. PICK e : e = notified[i] OBVIOUS
      <4>2. FactOf(i) = FactBy(p, e) BY <1>2, <4>1 DEF FactOf
      <4>3. /\ p = "stripe" /\ ~e.listed => FactBy(p, e).ref = "charge"
            /\ p = "alipay" => FactBy(p, e).ref = "trade"
        BY <3>1, <4>2, FactsAre
      <4>4. p # "wechat" /\ (p = "stripe" => ~e.listed) BY <3>2, <4>1 DEF Apart
      <4> QED BY <4>2, <4>3, <4>4 DEF CommonRef, Providers
    <3> QED BY <3>1, <3>3, <3>4
  <2>2. PICK r : r \in reversals BY <1>12
  <2>3. reversals = {r} BY <1>1, <2>1, <2>2
  <2>4. f[r] = r.amount /\ f[r] \in Nat BY <1>5, <2>1, <2>2
  <2>5. Sum({r}, f) = f[r] BY <2>4, SumSingleton
  <2> QED BY <1>6, <2>1, <2>2, <2>3, <2>4, <2>5
<1> QED BY <1>10, <1>11, <1>12

(***************************************************************************)
(* Whatever is delivered late, again or out of order: what was not paid    *)
(* for or is a subscription settles nothing, a payment is settled once,    *)
(* never more is taken back than the provider refunded, and exactly each   *)
(* refund's amount where the provider tells its refunds apart; of a        *)
(* subscription only periods in which it ran are credited (parseEvent of   *)
(* the adapters, process).                                                 *)
(***************************************************************************)
THEOREM FactsAlwaysAreTheProviders == ProviderSpec => []FactsAreTheProviders
<1>1. ProviderInv => FactsAreTheProviders
  <2> SUFFICES ASSUME ProviderInv PROVE FactsAreTheProviders
    OBVIOUS
  <2>1. ProviderTyped /\ ReversalsOK /\ SettledOK /\ RenewedOK BY DEF ProviderInv
  <2>2. Cardinality(settled) <= 1
    <3>1. CASE settled = {} BY <3>1, FS_EmptySet
    <3>2. CASE settled # {}
      <4>1. PICK s : s \in settled BY <3>2
      <4>2. settled = {s} BY <2>1, <4>1 DEF SettledOK
      <4>3. Cardinality({s}) = 1 BY FS_Singleton
      <4> QED BY <4>2, <4>3
    <3> QED BY <3>1, <3>2
  <2>3. AmountReversed(reversals) <= AmountRefunded(refunds) BY NoMoreIsReversed
  <2>4. ASSUME NEW i \in DOMAIN notified, handled[i] = "processed",
               Fact(notified[i]).kind = "refund", ToldApart(i)
        PROVE  [ref |-> RefundTold(i), amount |-> refunds[RefundTold(i)]] \in reversals
    <3>1. \A j : Fact(notified[j]) = FactOf(j) BY <2>1, FactIs
    <3>2. FactOf(i).kind = "refund" BY <2>4, <3>1
    <3>3. [ref |-> FactOf(i).ref, amount |-> FactOf(i).amount] \in reversals
      BY <2>1, <2>4, <3>2 DEF ReversalsOK
    <3>4. RefundOK(sale.provider, refunds, notified, i) BY <3>2, FactSays
    <3>5. Apart(sale.provider, notified[i]) BY <2>4 DEF ToldApart, Apart
    <3>6. RefundTold(i) = Cardinality(Told(sale.provider, notified, i))
      BY <3>1 DEF RefundTold, Told, FactOf
    <3>7. FactOf(i).ref = RefundTold(i) /\ FactOf(i).amount = refunds[RefundTold(i)]
      BY <3>4, <3>5, <3>6 DEF RefundOK, FactOf
    <3> QED BY <3>3, <3>7
  <2>5. \A i \in DOMAIN notified : i \in renewed => notified[i].status \in {"active", "trialing"}
    BY <2>1 DEF RenewedOK
  <2>6. settled # {} => sale.mode = "payment" /\ sale.hosted /\ trade \in {"paid", "closed"}
    BY <2>1 DEF SettledOK
  <2> QED BY <2>2, <2>3, <2>4, <2>5, <2>6 DEF FactsAreTheProviders
<1> QED BY <1>1, ProviderInvariant, PTL
===============================================================================
