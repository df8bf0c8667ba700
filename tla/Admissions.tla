------------------------------ MODULE Admissions ------------------------------
(***************************************************************************)
(* Billing admissions (billing-admission-service.ts): an invocation is     *)
(* admitted against a hold, and captured or released when its execution    *)
(* event has been processed by scripts/process-execution-events.ts.        *)
(*                                                                         *)
(* An operation of the service is one transaction (the application service *)
(* wraps it); the transactions of the usage service inside it are          *)
(* savepoints, an error of theirs fails the whole. The hold of an          *)
(* admission and its usage event are named after the invocation. The       *)
(* command receipt of authorize exists exactly when the admission does, the *)
(* one of record when the event does: a second call replays or is refused  *)
(* and is not a step. Those of capture and release decide which of two     *)
(* events about one invocation can be processed, and are state.            *)
(***************************************************************************)
EXTENDS Entitlements, Sequences

Seqs == INSTANCE SequencesExt

CONSTANTS
  Invocations,  \* admitted invocations
  Prices,       \* reservation_micros a published price can have
  Events,       \* execution events, numbered in the order of occurred_at
  EventOf,      \* the invocation of each event
  Kinds,        \* outcomes an execution event reports
  Payloads,     \* contents a receipt of the execution can have
  Workers,      \* passes of the batch script that may overlap
  EventLimit    \* BILLING_EVENT_BATCH_SIZE

ASSUME AdmissionsAssumption ==
  /\ Invocations \subseteq Holds \cap Usages
  /\ Prices \subseteq Nat
  /\ Events \subseteq Nat /\ EventOf \in [Events -> Invocations]
  /\ EventLimit \in Nat \ {0}
  /\ Kinds \subseteq {"waiting", "accepted", "rejected", "unknown"}
  /\ None \notin Payloads

VARIABLES
  admission,  \* entitlement_billing_admission
  receipt,    \* entitlement_billing_command_receipt of capture and of release
  event,      \* entitlement_execution_event
  todo        \* per worker: the rows of its batch it has not come to

admissionVars == <<admission, receipt, event, todo>>
vars == <<entitlementVars, admissionVars>>

\* Holds and usage events of callers that use the usage service directly.
Direct == Holds \ Invocations

\* A failed execution is treated as a rejected one, but for the recorded reason;
\* one that is waiting changes nothing, as an unknown one of an admission that
\* is no longer held.
NoAdmission == [status |-> "absent", amount |-> 0]
NoEvent == [status |-> "absent", kind |-> "none", payload |-> None]

TypeOK ==
  /\ EntitlementsTypeOK
  /\ admission \in [Invocations -> [status : {"absent", "held", "captured", "released", "unknown"},
                                    amount : Prices \cup {0}]]
  /\ receipt \in [{"capture", "release"} -> [Invocations -> Payloads \cup {None}]]
  /\ event \in [Events -> [status : {"absent", "received", "processed"}, kind : Kinds \cup {"none"},
                           payload : Payloads \cup {None}]]
  /\ todo \in [Workers -> Seq(Events)]

Init ==
  /\ EntitlementsInit
  /\ admission = [i \in Invocations |-> NoAdmission]
  /\ receipt = [c \in {"capture", "release"} |-> [i \in Invocations |-> None]]
  /\ event = [e \in Events |-> NoEvent]
  /\ todo = [w \in Workers |-> <<>>]

-------------------------------------------------------------------------------
\* billing-state-machine.ts, the row of admissions that this service writes.
CanTransition(from, to) ==
  <<from, to>> \in {"held", "unknown"} \X {"captured", "released", "unknown"}

MarkAdmission(i, status) ==
  /\ CanTransition(admission[i].status, status)
  /\ admission' = [admission EXCEPT ![i].status = status]

\* A free invocation is captured from the start.
AdmitFree(i) ==
  /\ admission' = [admission EXCEPT ![i].status = "captured"]
  /\ UNCHANGED creditVars

\* Another one needs its hold. The account is created when the subject has none.
AdmitAgainstHold(i, a, amount) ==
  /\ AuthorizeUsage(i, a, amount)
  /\ admission' = [admission EXCEPT ![i] = [status |-> "held", amount |-> amount]]

CreateAdmission(i, a, amount) ==
  /\ admission[i].status = "absent"
  /\ IF amount = 0 THEN AdmitFree(i) ELSE AdmitAgainstHold(i, a, amount)
  /\ UNCHANGED <<now, redeemVars, receipt, event, todo>>

\* Mutant: an admission that has ended answers any command.
ReplaysEnded(command, i, payload) == admission[i].status \in {"captured", "released"}

\* An earlier receipt of the command replays the same payload and refuses another.
Replays(command, i, payload) == receipt[command][i] = payload
Claimable(command, i) == receipt[command][i] = None

CanCapture(i, payload) ==
  \/ Replays("capture", i, payload)
  \/ /\ Claimable("capture", i)
     /\ \/ admission[i].status = "captured"
        \/ /\ admission[i].status \in {"held", "unknown"}
           /\ CanEnsureUsage(i)
           /\ CanSettle(i, i, EnsuredUsage(i), admission[i].amount)

Capture(i, payload) ==
  /\ CanCapture(i, payload)
  /\ receipt' = [receipt EXCEPT !["capture"][i] = payload]
  /\ IF Replays("capture", i, payload) \/ admission[i].status = "captured"
     THEN UNCHANGED <<creditVars, admission>>
     ELSE /\ SettleUsage(i, i, EnsuredUsage(i), admission[i].amount)
          /\ MarkAdmission(i, "captured")

CanReleaseAdmission(i, payload) ==
  \/ Replays("release", i, payload)
  \/ /\ Claimable("release", i)
     /\ \/ admission[i].status = "released"
        \/ admission[i].status \in {"held", "unknown"} /\ CanRelease(i)

Release(i, payload) ==
  /\ CanReleaseAdmission(i, payload)
  /\ receipt' = [receipt EXCEPT !["release"][i] = payload]
  /\ IF Replays("release", i, payload) \/ admission[i].status = "released"
     THEN UNCHANGED <<creditVars, admission>>
     ELSE /\ ReleaseUsage(i)
          /\ MarkAdmission(i, "released")

\* A caller of the service.
CallCapture(i, payload) ==
  /\ Capture(i, payload)
  /\ UNCHANGED <<now, redeemVars, event, todo>>

CallRelease(i, payload) ==
  /\ Release(i, payload)
  /\ UNCHANGED <<now, redeemVars, event, todo>>

\* Events arrive in any order, before their admission too.
RecordExecutionEvent(e, kind, payload) ==
  /\ event[e].status = "absent"
  /\ event' = [event EXCEPT ![e] = [status |-> "received", kind |-> kind, payload |-> payload]]
  /\ UNCHANGED <<entitlementVars, admission, receipt, todo>>

-------------------------------------------------------------------------------
(***************************************************************************)
(* processExecutionEvent and the batch script around it.                   *)
(***************************************************************************)
CanProcess(e) ==
  LET i == EventOf[e]
  IN  /\ event[e].status = "received"
      /\ admission[i].status # "absent"
      /\ event[e].kind = "accepted" => CanCapture(i, event[e].payload)
      /\ event[e].kind = "rejected" => CanReleaseAdmission(i, event[e].payload)

\* Mutant: an unknown outcome gives the credit back.
EffectReleasesUnknown(e) ==
  LET i == EventOf[e]
  IN  CASE event[e].kind = "accepted" -> Capture(i, event[e].payload)
        [] event[e].kind = "rejected" -> Release(i, event[e].payload)
        [] event[e].kind = "unknown" /\ admission[i].status = "held" ->
             ReleaseUsage(i) /\ MarkAdmission(i, "unknown") /\ UNCHANGED receipt
        [] OTHER -> UNCHANGED <<creditVars, admission, receipt>>

Effect(e) ==
  LET i == EventOf[e]
  IN  CASE event[e].kind = "accepted" -> Capture(i, event[e].payload)
        [] event[e].kind = "rejected" -> Release(i, event[e].payload)
        [] event[e].kind = "unknown" /\ admission[i].status = "held" ->
             MarkAdmission(i, "unknown") /\ UNCHANGED <<creditVars, receipt>>
        [] OTHER -> UNCHANGED <<creditVars, admission, receipt>>

ProcessExecutionEvent(e) ==
  /\ CanProcess(e)
  /\ Effect(e)
  /\ event' = [event EXCEPT ![e].status = "processed"]

Received == {e \in Events : event[e].status = "received"}

\* Mutant: the newest events first, LIMIT cuts off the oldest.
NewestBatch == LET rows == Seqs!SetToSortSeq(Received, >)
               IN  SubSeq(rows, 1, IF Len(rows) < EventLimit THEN Len(rows) ELSE EventLimit)

\* "status = 'received' ORDER BY occurred_at, event_id LIMIT", without a lock.
OldestBatch == LET rows == Seqs!SetToSortSeq(Received, <)
               IN  SubSeq(rows, 1, IF Len(rows) < EventLimit THEN Len(rows) ELSE EventLimit)

StartPass(w) ==
  /\ todo[w] = <<>> /\ Received # {}
  /\ todo' = [todo EXCEPT ![w] = OldestBatch]
  /\ UNCHANGED <<entitlementVars, admission, receipt, event>>

\* The next row of the batch: processed, or logged and left for the next pass.
StepPass(w, e) ==
  /\ todo[w] # <<>> /\ e = Head(todo[w])
  /\ todo' = [todo EXCEPT ![w] = Tail(@)]
  /\ IF CanProcess(e) THEN ProcessExecutionEvent(e)
                      ELSE UNCHANGED <<creditVars, admission, receipt, event>>
  /\ UNCHANGED <<now, redeemVars>>

\* The script dies; the database drops its transaction.
CrashPass(w) ==
  /\ todo[w] # <<>>
  /\ todo' = [todo EXCEPT ![w] = <<>>]
  /\ UNCHANGED <<entitlementVars, admission, receipt, event>>

-------------------------------------------------------------------------------
GrantSteps ==
  \/ \E p \in Periods, g \in Grants, n \in Amounts, t \in 0 .. MaxTime :
       SubscriptionGrant(p, g, n, t)
  \/ \E a \in Accounts, g \in Grants :
       \/ \E n \in Amounts : AdminGrant(a, g, n) \/ FulfillSettlement(a, g, n)
       \/ \E c \in Codes : Redeem(a, g, c)
  \/ \E g \in Grants : \/ ExpireGrant(g)
                       \/ \E r \in Refunds, n \in Amounts : ReverseCredits(r, g, n)
  \/ \E n \in Amounts : CreateCampaign(n)
  \/ \E codes \in SUBSET Codes \ {{}} : IssueCodes(codes)
  \/ \E c \in Codes : DisableCode(c)

DirectSteps ==
  /\ \/ \E h \in Direct, a \in Accounts, n \in Micros \ {0} : AuthorizeUsage(h, a, n)
     \/ \E u \in Usages \ Invocations, a \in Accounts : RecordUsageEvent(u, a)
     \/ \E h \in Direct, u \in Usages \ Invocations, n \in Micros : SettleUsage(h, u, usage, n)
     \/ \E h \in Direct : ReleaseUsage(h)
  /\ UNCHANGED <<now, redeemVars>>

EntitlementSteps ==
  /\ \/ Tick
     \/ GrantSteps
     \/ DirectSteps
     \/ ExpireExpiredHolds
  /\ UNCHANGED admissionVars

Next ==
  \/ EntitlementSteps
  \/ \E i \in Invocations, a \in Accounts, n \in Prices : CreateAdmission(i, a, n)
  \/ \E i \in Invocations, p \in Payloads : CallCapture(i, p) \/ CallRelease(i, p)
  \/ \E e \in Events, k \in Kinds, p \in Payloads : RecordExecutionEvent(e, k, p)
  \/ \E w \in Workers : \/ StartPass(w)
                        \/ CrashPass(w)
                        \/ \E e \in Events : StepPass(w, e)

(***************************************************************************)
(* Time passes and the expiry daemon runs; the batch script is started     *)
(* again and again in workers, and no event is for ever the one at which   *)
(* it dies.                                                                *)
(***************************************************************************)
Fairness(workers) ==
  /\ WF_vars(Tick /\ UNCHANGED admissionVars)
  /\ WF_vars(ExpireExpiredHolds /\ UNCHANGED admissionVars)
  /\ \A w \in workers : WF_vars(StartPass(w))
  /\ \A w \in workers, e \in Events : SF_vars(StepPass(w, e))

Spec == Init /\ [][Next]_vars /\ Fairness(Workers)

-------------------------------------------------------------------------------
(***************************************************************************)
(* The books drift for one reason only. The balance of an account and the  *)
(* credit its grants have left differ by exactly what was granted for a    *)
(* period that another program had been granted before, for ever, through  *)
(* holds, captures, refunds and expiries that do not know of it; so        *)
(* reconciliation reports the accounts that have such a grant and no       *)
(* others, and no account is overdrawn: what the conditional updates of    *)
(* authorizeUsage, settleUsage, releaseUsage, both expiries and            *)
(* reverseCredits keep in step without ever computing it.                  *)
(***************************************************************************)
DriftIsExplained == \A a \in Accounts :
  LET balance == account[a].available + account[a].held
  IN  /\ account[a].available >= 0
      /\ balance + Sum(Uncredited(a), [g \in Grants |-> grant[g].original])
           = Sum(GrantsOf(a), [g \in Grants |-> grant[g].remaining])
      /\ a \in AccountDrifts <=> Uncredited(a) # {}

(***************************************************************************)
(* An admission and its hold never tell different stories: it is captured  *)
(* exactly when its hold was consumed whole, through its own usage event   *)
(* and with one debit; released exactly when the hold was; and while it is *)
(* held or unknown the hold is still there, or has expired under it.       *)
(***************************************************************************)
AdmissionsMatchHolds == \A i \in Invocations :
  LET charged == admission[i].amount > 0
      debits == {e \in journal : e.kind = "debit" /\ e.source = i}
  IN  /\ charged /\ admission[i].status = "captured" <=> hold[i].status = "captured"
      /\ hold[i].status = "captured" =>
           /\ hold[i].captured = admission[i].amount
           /\ usage[i].status = "settled" /\ usage[i].hold = i
           /\ {e.amount : e \in debits} = {-admission[i].amount}
      /\ hold[i].status # "captured" => debits = {}
      /\ admission[i].status = "released" <=> hold[i].status = "released"
      /\ admission[i].status \in {"held", "unknown"} => hold[i].status \in {"active", "expired"}

(***************************************************************************)
(* An event that has been processed has had its way: whatever order the    *)
(* events of an invocation came in and whoever else called the service, an *)
(* accepted execution is captured, a rejected one released.                *)
(***************************************************************************)
ProcessedEventsHold == \A e \in Events :
  event[e].status = "processed" =>
    /\ event[e].kind = "accepted" => admission[EventOf[e]].status = "captured"
    /\ event[e].kind = "rejected" => admission[EventOf[e]].status = "released"

Refunded(h) == \E g \in Grants : allocation[h][g].held > 0 /\ grant[g].reversed > 0

(***************************************************************************)
(* The usage_allocation_drift error of a capture can only come from a      *)
(* refund: as long as none has touched the grants of an active hold, each  *)
(* of them still has what all active holds reserve of it, whatever other   *)
(* holds, partial captures and expiries have done to it.                   *)
(***************************************************************************)
ReservationsAreBacked == \A h \in ActiveHolds :
  ~Refunded(h) => \A g \in Grants :
    allocation[h][g].held > 0 => Reserved(g) <= grant[g].remaining
===============================================================================
