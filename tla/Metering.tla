-------------------------------- MODULE Metering --------------------------------
(***************************************************************************)
(* The canonical metering module inside the process of Runtime: tariffs    *)
(* are published (metering-pricing-publication.service.ts) and selected    *)
(* (metering-pricing-revision.repository.ts) and usage is settled against  *)
(* a hold (metering.service.ts, metering.repository.ts), each in one       *)
(* transaction of READ COMMITTED, query by query.                          *)
(*                                                                         *)
(* One tenant, whose holds are on one account. Bound: MaxTime.             *)
(***************************************************************************)
EXTENDS Runtime, MeteringPricing

CONSTANTS Jobs,        \* what a request may be about
          HoldMicros,  \* requested_micros of each hold
          MaxTime

Tables == {"rate", "policy"}
Holds == DOMAIN HoldMicros

\* What the codecs and the routes let through: a settlement is a capture, rates and
\* what they are matched with are numbers.
ASSUME JobsAssumption == \A j \in Jobs :
  /\ j.kind \in {"publish", "select", "settle", "finish"}
  /\ j.kind = "publish" => j.table \in Tables
  /\ j.kind = "publish" /\ j.table = "rate" =>
       \A rate \in j.content.rates : rate.lower \in Int /\ rate.upper \in Int
  /\ j.kind = "select" => j.observed.value \in Int
  /\ j.kind = "settle" => j.status = "captured"
  /\ j.kind \in {"settle", "finish"} => j.hold \in Holds

VARIABLES
  now,         \* the clock of the database
  job,         \* what each request is about
  work,        \* how far its transaction is, and its uncommitted rows
  revision,    \* billing_metering_rate_revision, billing_metering_policy_revision
  hold,        \* billing_credit_hold
  usage,       \* billing_usage_event
  settlement   \* billing_usage_settlement

committedRows == <<revision, hold, usage, settlement>>
meteringVars == <<now, job, work, committedRows>>
vars == <<runtimeVars, meteringVars>>

NoRows == [t \in Tables |-> {}]

NoWork == [at |-> "begin", clock |-> 0, known |-> NoRows,
           locks |-> {}, number |-> 0, selected |-> NoRows,
           ambiguous |-> FALSE,
           revision |-> {}, hold |-> {}, usage |-> {}, settlement |-> {}]

Active == [status |-> "active", ref |-> "none", micros |-> 0]

MeteringInit ==
  /\ now = 0
  /\ job \in [Requests -> Jobs]
  /\ work = [r \in Requests |-> NoWork]
  /\ hold = [h \in Holds |-> Active]
  /\ usage = {} /\ settlement = {}

Step(r, from) == CanQuery(r) /\ work[r].at = from

\* The next query of the transaction, having done what change says.
Proceed(r, change) == work' = [work EXCEPT ![r] = change] /\ UNCHANGED runtimeVars

\* An error of the callback: run keeps it as the cause of the rollback.
Refuse(r) == Doomed(r) /\ UNCHANGED work

\* Nobody else's transaction holds the lock.
Free(r, name) == \A q \in InDatabase \ {r} : name \notin work[q].locks

-------------------------------------------------------------------------------
(***************************************************************************)
(* The transaction around the work. CURRENT_TIMESTAMP is its beginning.    *)
(***************************************************************************)
FirstQuery == [publish |-> "receipt", select |-> "rate", settle |-> "find", finish |-> "hold"]

\* The codec refuses rates that one request could both match.
Legal(r) ==
  (job[r].kind = "publish" /\ job[r].table = "rate") => Publishable(job[r].content.rates)

RefuseDraft(r) ==
  /\ Up /\ InHandler(r) /\ tx[r] = "none" /\ ~Legal(r)
  /\ request' = [request EXCEPT ![r] = "done"]
  /\ UNCHANGED <<prismaVars, mainVars, tx, meteringVars>>

Begin(r) ==
  /\ Legal(r)
  /\ BeginTx(r)
  /\ work' = [work EXCEPT ![r].at = FirstQuery[job[r].kind], ![r].clock = now,
                          ![r].known = revision]
  /\ UNCHANGED <<now, job, committedRows>>

Settled(rows) == {u.source : u \in rows}

CommitWork(r) ==
  /\ work[r].at = "end"
  /\ Commit(r)
  /\ revision' = [t \in Tables |->
       revision[t] \cup {v \in work[r].revision : job[r].table = t}]
  /\ hold' = [h \in Holds |->
       IF \E c \in work[r].hold : c.hold = h
       THEN (CHOOSE c \in work[r].hold : c.hold = h).row ELSE hold[h]]
  /\ usage' = {u \in usage : u.source \notin Settled(work[r].usage)} \cup work[r].usage
  /\ settlement' = settlement \cup work[r].settlement
  /\ UNCHANGED <<now, job, work>>

-------------------------------------------------------------------------------
(***************************************************************************)
(* publishRate and publishPolicy: the receipt of the publication, then the *)
(* next number of the tenant's table under the lock of that table, then    *)
(* the row, which is read back.                                            *)
(***************************************************************************)
Identity(r) == <<job[r].table, job[r].identity>>

Published(r) == {v \in revision[job[r].table] : v.identity = job[r].identity}

IsPublicationOf(v, r) == v.effective = job[r].effective /\ v.content = job[r].content

\* CommandReceiptRepository.execute, which CommandReceipts shows query by query.
Receipt(r) ==
  /\ Step(r, "receipt") /\ Free(r, Identity(r))
  /\ IF \E v \in Published(r) : ~IsPublicationOf(v, r) THEN Refuse(r)
     ELSE IF Published(r) # {}
     THEN Proceed(r, [work[r] EXCEPT !.at = "verify", !.locks = {Identity(r)}])
     ELSE Proceed(r, [work[r] EXCEPT !.at = "lock", !.locks = {Identity(r)}])
  /\ UNCHANGED <<now, job, committedRows>>

\* Mutant: every publication has a lock of its own.
TableLockPerCommand(r) == Identity(r)

TableLock(r) == <<job[r].table, "table">>

LockTable(r) ==
  /\ Step(r, "lock") /\ Free(r, TableLock(r))
  /\ Proceed(r, [work[r] EXCEPT !.at = "number", !.locks = @ \cup {TableLock(r)}])
  /\ UNCHANGED <<now, job, committedRows>>

Numbers(rows) == {v.number : v \in rows}

ReadNumber(r) ==
  /\ Step(r, "number")
  /\ Proceed(r, [work[r] EXCEPT !.at = "insert",
                   !.number = Max(Numbers(revision[job[r].table]) \cup {0}) + 1])
  /\ UNCHANGED <<now, job, committedRows>>

\* The unique index of the table lets an insert wait for a draft of its number.
Insert(r) ==
  /\ Step(r, "insert")
  /\ \A q \in InDatabase \ {r} : (job[q].kind = "publish" /\ job[q].table = job[r].table)
       => work[r].number \notin Numbers(work[q].revision)
  /\ IF work[r].number \in Numbers(revision[job[r].table]) THEN Refuse(r)
     ELSE Proceed(r, [work[r] EXCEPT !.at = "verify",
            !.revision = {[number |-> work[r].number, identity |-> job[r].identity,
                           effective |-> job[r].effective, content |-> job[r].content]}])
  /\ UNCHANGED <<now, job, committedRows>>

\* assertRatePublication, assertPolicyPublication: of a replay as well.
Verify(r) ==
  /\ Step(r, "verify")
  /\ IF \E v \in Published(r) \cup work[r].revision : IsPublicationOf(v, r)
     THEN Proceed(r, [work[r] EXCEPT !.at = "end"]) ELSE Refuse(r)
  /\ UNCHANGED <<now, job, committedRows>>

-------------------------------------------------------------------------------
(***************************************************************************)
(* selectActivePricing: the rates in force, then the policy, two reads.    *)
(***************************************************************************)
Outranks(v, w) == \/ v.effective > w.effective
                  \/ v.effective = w.effective /\ v.number > w.number

InForce(rows, clock) == {v \in rows : v.effective <= clock}

\* ORDER BY effective_from DESC, revision DESC LIMIT 1
Winner(rows, clock) ==
  {v \in InForce(rows, clock) : \A w \in InForce(rows, clock) : ~Outranks(w, v)}

\* The profile stands for the profile and the currency, which must agree.
SelectRate(r) ==
  /\ Step(r, "rate")
  /\ \/ \E v \in Winner(revision["rate"], work[r].clock) :
          LET found == Matches(v.content.rates, job[r].observed)
          IN  /\ v.content.profile = job[r].profile
              /\ found # {}
              /\ IF Cardinality(found) > 1
                 THEN Doomed(r) /\ work' = [work EXCEPT ![r].ambiguous = TRUE]
                 ELSE Proceed(r, [work[r] EXCEPT !.at = "policy", !.selected["rate"] = {v}])
     \/ /\ \A v \in Winner(revision["rate"], work[r].clock) :
             \/ v.content.profile # job[r].profile
             \/ Matches(v.content.rates, job[r].observed) = {}
        /\ Refuse(r)
  /\ UNCHANGED <<now, job, committedRows>>

SelectPolicy(r) ==
  /\ Step(r, "policy")
  /\ LET found == {v \in Winner(revision["policy"], work[r].clock) :
                     v.content.profile = job[r].profile}
     IN  IF found = {} THEN Refuse(r)
         ELSE Proceed(r, [work[r] EXCEPT !.at = "end", !.selected["policy"] = found])
  /\ UNCHANGED <<now, job, committedRows>>

-------------------------------------------------------------------------------
(***************************************************************************)
(* settle: recordUsage, capture of the hold, the settlement. The hold      *)
(* stands for the payload of the usage that recordUsage compares.          *)
(***************************************************************************)
FindUsage(r) ==
  /\ Step(r, "find")
  /\ LET prior == {u \in usage : u.source = job[r].source}
     IN  IF \E u \in prior : u.hold # job[r].hold THEN Refuse(r)
         ELSE Proceed(r, [work[r] EXCEPT !.at = IF prior = {} THEN "create" ELSE "hold"])
  /\ UNCHANGED <<now, job, committedRows>>

SameUsage(u, r) == u.source = job[r].source \/ u.hold = job[r].hold

\* A source and a hold have one usage event; an insert waits for a draft.
CreateUsage(r) ==
  /\ Step(r, "create")
  /\ \A q \in InDatabase \ {r} : \A u \in work[q].usage : ~SameUsage(u, r)
  /\ IF \E u \in usage : SameUsage(u, r) THEN Refuse(r)
     ELSE Proceed(r, [work[r] EXCEPT !.at = "hold",
            !.usage = {[source |-> job[r].source, hold |-> job[r].hold, settled |-> FALSE]}])
  /\ UNCHANGED <<now, job, committedRows>>

\* Mutant: a hold that has ended as asked is taken for one's own.
EndedAlike(r) == hold[job[r].hold].status = job[r].status

\* The terminal payload is the same.
EndedByMe(r) == hold[job[r].hold] = [status |-> job[r].status, ref |-> job[r].source,
                                     micros |-> job[r].micros]

AfterHold(r) == IF job[r].kind = "settle" THEN "settlement" ELSE "end"

\* #finishHold, which CreditLedger shows in full; the account is locked first.
FinishHold(r) ==
  LET h == job[r].hold
      sourceUsed == \E g \in Holds : hold[g].status = "captured" /\ hold[g].ref = job[r].source
  IN  /\ Step(r, "hold") /\ Free(r, <<"account", "row">>)
      /\ IF hold[h].status # "active"
         THEN IF EndedByMe(r)
              THEN Proceed(r, [work[r] EXCEPT !.at = AfterHold(r), !.locks = {<<"account", "row">>}])
              ELSE Refuse(r)
         ELSE IF job[r].micros > HoldMicros[h] \/ (job[r].status = "captured" /\ sourceUsed)
         THEN Refuse(r)
         ELSE Proceed(r, [work[r] EXCEPT !.at = AfterHold(r), !.locks = {<<"account", "row">>},
                !.hold = {[hold |-> h, row |-> [status |-> job[r].status,
                            ref |-> job[r].source, micros |-> job[r].micros]]}])
      /\ UNCHANGED <<now, job, committedRows>>

Settle(r) ==
  /\ Step(r, "settlement")
  /\ LET durable == {s \in settlement : s.hold = job[r].hold}
     IN  IF durable = {}
         THEN Proceed(r, [work[r] EXCEPT !.at = "end",
                !.settlement = {[hold |-> job[r].hold, source |-> job[r].source,
                                 micros |-> job[r].micros]},
                !.usage = {[source |-> job[r].source, hold |-> job[r].hold, settled |-> TRUE]}])
         ELSE IF \A s \in durable : s.source = job[r].source /\ s.micros = job[r].micros
         THEN Proceed(r, [work[r] EXCEPT !.at = "end"])
         ELSE Refuse(r)
  /\ UNCHANGED <<now, job, committedRows>>

-------------------------------------------------------------------------------
Tick == now < MaxTime /\ now' = now + 1 /\ UNCHANGED <<runtimeVars, job, work, committedRows>>

\* A query fails by itself, or waits for a lock for too long.
QueryFails(r) == Doomed(r) /\ UNCHANGED meteringVars

Work(r) ==
  \/ RefuseDraft(r) \/ Begin(r) \/ CommitWork(r) \/ QueryFails(r)
  \/ (Arrives(r) \/ Disconnects(r) \/ DeadlineOf(r) \/ Rollback(r)) /\ UNCHANGED meteringVars
  \/ Receipt(r) \/ LockTable(r) \/ ReadNumber(r) \/ Insert(r) \/ Verify(r)
  \/ SelectRate(r) \/ SelectPolicy(r)
  \/ FindUsage(r) \/ CreateUsage(r) \/ FinishHold(r) \/ Settle(r)

Next ==
  \/ LifecycleStep /\ UNCHANGED meteringVars
  \/ \E r \in Requests : Work(r)
  \/ Tick

\* A process that starts on a database in which nothing has been published.
Init == RuntimeInit /\ MeteringInit /\ revision = [t \in Tables |-> {}]

Spec == Init /\ [][Next]_vars /\ LifecycleFairness

-------------------------------------------------------------------------------
(***************************************************************************)
(* "Different legal keys must all succeed" (TECHNICAL_DESIGN.md): the      *)
(* revisions of a table are numbered without a gap, a publication has one  *)
(* revision, and the number a publication goes on with is the next one and *)
(* nobody else's, so that its insert cannot be refused.                    *)
(***************************************************************************)
Numbered(t) == {r \in InDatabase : /\ job[r].kind = "publish" /\ job[r].table = t
                                   /\ work[r].number > 0}

RevisionsAreNumbered ==
  \A t \in Tables :
    /\ Numbers(revision[t]) = 1 .. Cardinality(revision[t])
    /\ \A v, w \in revision[t] : v.identity = w.identity => v = w
    /\ \A r \in Numbered(t) : /\ work[r].number = Cardinality(revision[t]) + 1
                              /\ Numbered(t) = {r}

(***************************************************************************)
(* A request never meets two rates that both match, because publication    *)
(* refuses such rates; and no revision that was committed when a selection *)
(* began, and in force then, outranks the one it answered with, whatever   *)
(* was published between its two reads.                                    *)
(***************************************************************************)
SelectionsAreSound ==
  \A r \in Requests :
    /\ ~work[r].ambiguous
    /\ \A t \in Tables : \A v \in work[r].selected[t] :
         /\ v \in InForce(revision[t], work[r].clock)
         /\ \A w \in InForce(work[r].known[t], work[r].clock) : ~Outranks(w, v)

(***************************************************************************)
(* A settlement, a settled usage event and a capture by that event for     *)
(* that amount come together, also when callers of the credit module end   *)
(* the hold on their own account.                                          *)
(***************************************************************************)
SettlementsMatchHolds ==
  /\ \A s \in settlement :
       /\ hold[s.hold] = [status |-> "captured", ref |-> s.source, micros |-> s.micros]
       /\ [source |-> s.source, hold |-> s.hold, settled |-> TRUE] \in usage
  /\ \A u \in usage : u.settled /\ \E s \in settlement : s.source = u.source /\ s.hold = u.hold
===============================================================================
