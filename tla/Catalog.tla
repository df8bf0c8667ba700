-------------------------------- MODULE Catalog --------------------------------
(***************************************************************************)
(* What a tenant sells: numbered revisions of the plans of its offers      *)
(* (catalog-admin-service.ts, catalog-service.ts) and of its tariff for    *)
(* usage (usage-pricing-admin-service.ts, usage-pricing-service.ts). Each  *)
(* client has one task, which it may try again when it fails. A command is *)
(* one READ COMMITTED transaction, statement by statement: a revision is   *)
(* in the table when its transaction commits. Tables of one tenant.        *)
(***************************************************************************)
EXTENDS Naturals, FiniteSets, Sequences, FiniteSetsExt, SequencesExt

CONSTANTS
  Clients,
  Tasks,      \* what clients may be about
  PageLimit,  \* plans on a page of the catalog
  PerTokens,  \* prices are for that many tokens (1 000 000 in the code)
  MaxTime

Tariff == 0   \* the title of usage prices; those of plans are their offer keys

\* What the validation of commands and events lets through: a plan gives credit or
\* none, and an event is about a plan and a time, or about no time.
ASSUME TasksAssumption == \A t \in Tasks :
  /\ t.kind = "publish" => t.title \in Nat
  /\ (t.kind = "publish" /\ t.title # Tariff) => t.content.credit \in Nat
  /\ t.kind = "event" => t.title # Tariff /\ t.period \in 0 .. MaxTime

ASSUME PageAssumption == PageLimit \in Nat \ {0}

VARIABLES
  now,       \* the clock of the database
  task,      \* what each client is about
  call,      \* how far it is
  revision,  \* entitlement_offer_revision, entitlement_usage_price_revision
  receipt    \* entitlement_command_receipt of publications

catalogVars == <<now, task, call, revision, receipt>>

Nothing == [at |-> "start", known |-> {}, number |-> 0, pages |-> <<>>, answer |-> {}]

CatalogInit ==
  /\ now = 0
  /\ task \in [Clients -> Tasks]
  /\ call = [c \in Clients |-> Nothing]
  /\ revision = {} /\ receipt = {}

Does(c, kind, at) == task[c].kind = kind /\ call[c].at = at

GoesOn(c, at) == call' = [call EXCEPT ![c].at = at]

Answers(c, answer) == call' = [call EXCEPT ![c].at = "done", ![c].answer = answer]

\* The transaction is rolled back, and the client may try again.
FailCall(c) ==
  /\ call[c].at \notin {"start", "done"}
  /\ call' = [call EXCEPT ![c] = Nothing]
  /\ UNCHANGED <<now, task, revision, receipt>>

Tick ==
  /\ now < MaxTime
  /\ now' = now + 1
  /\ UNCHANGED <<task, call, revision, receipt>>

-------------------------------------------------------------------------------
(***************************************************************************)
(* publishPlan and publish: the receipt of the command, then the next      *)
(* number of the title under the lock of the offer, or for the tariff      *)
(* under the advisory lock of the tenant, then revision and receipt.       *)
(***************************************************************************)
Title(c) == task[c].title

\* A tariff has rates, for features of its own, that reserve credit.
Publishable(t) ==
  t.title = Tariff =>
    /\ t.content # {}
    /\ \A rate \in t.content : rate.reservation > 0
    /\ \A r, s \in t.content : r.feature = s.feature => r = s

\* The transactions that have inserted a receipt, and that have locked a title.
Claims(at) == {c \in Clients : task[c].kind = "publish" /\ call[c].at \in at}

SameReceipt(c, d) ==
  task[c].key = task[d].key /\ (Title(c) = Tariff <=> Title(d) = Tariff)

Receipts(c) ==
  {r \in receipt : r.key = task[c].key /\ (r.title = Tariff <=> Title(c) = Tariff)}

IsReceiptOf(r, c) ==
  r.title = Title(c) /\ r.content = task[c].content /\ r.effective = task[c].effective

\* INSERT ... ON CONFLICT DO NOTHING waits for who inserts the same receipt; then it is read.
Replay(c) ==
  /\ Does(c, "publish", "start") /\ Publishable(task[c])
  /\ ~\E d \in Claims({"title", "number", "write"}) : SameReceipt(c, d)
  /\ \/ Receipts(c) = {} /\ GoesOn(c, "title")
     \/ \E r \in Receipts(c) : IsReceiptOf(r, c) /\ Answers(c, {r.number})
  /\ UNCHANGED <<now, task, revision, receipt>>

\* Mutant: publications under the same receipt only exclude one another.
LockPerReceipt(c, d) == SameReceipt(c, d)

Excludes(c, d) == Title(c) = Title(d)

LockTitle(c) ==
  /\ Does(c, "publish", "title")
  /\ ~\E d \in Claims({"number", "write"}) : Excludes(c, d)
  /\ GoesOn(c, "number")
  /\ UNCHANGED <<now, task, revision, receipt>>

RevisionsOf(title) == {v \in revision : v.title = title}

Number(c) ==
  /\ Does(c, "publish", "number")
  /\ call' = [call EXCEPT ![c].at = "write",
                          ![c].number = Max({v.number : v \in RevisionsOf(Title(c))} \cup {0}) + 1]
  /\ UNCHANGED <<now, task, revision, receipt>>

Numbered(c) ==
  [title |-> Title(c), number |-> call[c].number, content |-> task[c].content,
   effective |-> task[c].effective]

Receipt(c) ==
  [key |-> task[c].key, title |-> Title(c), number |-> call[c].number,
   content |-> task[c].content, effective |-> task[c].effective]

\* The answer to COMMIT may be lost; the client then asks again.
CommitPublication(c) ==
  /\ Does(c, "publish", "write")
  /\ revision' = revision \cup {Numbered(c)}
  /\ receipt' = receipt \cup {Receipt(c)}
  /\ \/ Answers(c, {call[c].number})
     \/ call' = [call EXCEPT ![c] = Nothing]
  /\ UNCHANGED <<now, task>>

-------------------------------------------------------------------------------
(***************************************************************************)
(* listPublished: the newest plan of each offer, page by page. The cursor  *)
(* names the last plan of the page before.                                 *)
(***************************************************************************)
Newest == {v \in revision : v.title # Tariff
                            /\ \A newer \in RevisionsOf(v.title) : newer.number <= v.number}

\* Mutant: of an offer that was listed, another revision may follow.
FollowsAnyway(v, cursor) ==
  v.title > cursor.title \/ (v.title = cursor.title /\ v.number > cursor.number)

Follows(v, cursor) ==
  v.title > cursor.title \/ (v.title = cursor.title /\ v.number < cursor.number)

Remaining(pages) ==
  IF pages = <<>> THEN Newest ELSE {v \in Newest : Follows(v, Last(pages))}

\* The first n rows in the order of their offers.
FirstRows(rows, n) ==
  [i \in 1 .. n |-> CHOOSE v \in rows : Cardinality({w \in rows : w.title < v.title}) = i - 1]

ListPage(c) ==
  LET rows == Remaining(call[c].pages)
      more == Cardinality(rows) > PageLimit
      page == FirstRows(rows, IF more THEN PageLimit ELSE Cardinality(rows))
      known == IF call[c].at = "start" THEN Newest ELSE call[c].known
  IN  /\ task[c].kind = "list" /\ call[c].at \in {"start", "page"}
      /\ call' = [call EXCEPT ![c].at = IF more THEN "page" ELSE "done",
                              ![c].known = known, ![c].pages = @ \o page]
      /\ UNCHANGED <<now, task, revision, receipt>>

-------------------------------------------------------------------------------
(***************************************************************************)
(* quote and quoteForHold: a hold is priced by the revision that priced    *)
(* its quote, which its caller gave it.                                    *)
(***************************************************************************)
RatesFor(v, feature) == {rate \in v.content : rate.feature = feature}

Offering(feature) ==
  {v \in RevisionsOf(Tariff) : v.effective <= now /\ RatesFor(v, feature) # {}}

\* Any non-zero fraction of a unit costs a unit.
Charge(rate, tokens) ==
  (rate.input * tokens.input + rate.output * tokens.output + PerTokens - 1) \div PerTokens

Quote(c) ==
  /\ Does(c, "use", "start")
  /\ \E v \in Offering(task[c].feature) :
       /\ \A w \in Offering(task[c].feature) : w.number <= v.number
       /\ \E rate \in RatesFor(v, task[c].feature) :
            call' = [call EXCEPT ![c].at = "held", ![c].number = v.number,
                                 ![c].known = {Charge(rate, task[c].tokens)}]
  /\ UNCHANGED <<now, task, revision, receipt>>

\* Mutant: a hold is priced as new usage is.
PinnedAnew(c, v) == \A w \in Offering(task[c].feature) : w.number <= v.number

Pinned(c, v) == v.number = call[c].number

QuoteForHold(c) ==
  /\ Does(c, "use", "held")
  /\ \E v \in RevisionsOf(Tariff) :
       /\ Pinned(c, v)
       /\ \E rate \in RatesFor(v, task[c].feature) : Answers(c, {Charge(rate, task[c].tokens)})
  /\ UNCHANGED <<now, task, revision, receipt>>

CatalogStep(c) ==
  \/ Replay(c) \/ LockTitle(c) \/ Number(c) \/ CommitPublication(c)
  \/ ListPage(c) \/ Quote(c) \/ QuoteForHold(c) \/ FailCall(c)

-------------------------------------------------------------------------------
(***************************************************************************)
(* A command to publish is carried out once, however often it is repeated  *)
(* and wherever it fails: the revisions of a title are numbered without    *)
(* gaps, each is the work of one receipt, and every answer names the       *)
(* revision of its receipt.                                                *)
(***************************************************************************)
PublicationsActOnce ==
  /\ \A title \in {v.title : v \in revision} :
       /\ {v.number : v \in RevisionsOf(title)} = 1 .. Cardinality(RevisionsOf(title))
       /\ \A v \in RevisionsOf(title) :
            Cardinality({r \in receipt : r.title = title /\ r.number = v.number}) = 1
  /\ \A c \in Clients : task[c].kind = "publish" =>
       \A n \in call[c].answer : \E r \in Receipts(c) : r.number = n /\ IsReceiptOf(r, c)

(***************************************************************************)
(* Through all pages of a listing no offer appears twice, although new     *)
(* revisions are published between them, and in the end none is missing    *)
(* that was there when the listing began.                                  *)
(***************************************************************************)
OffersAreListedOnce ==
  \A c \in Clients : task[c].kind = "list" =>
    LET listed == [i \in DOMAIN call[c].pages |-> call[c].pages[i].title]
    IN  /\ IsInjective(listed)
        /\ call[c].at = "done" => {v.title : v \in call[c].known} \subseteq ToSet(listed)

(***************************************************************************)
(* Usage is charged what it was quoted, whatever is published and becomes  *)
(* effective between the quote and the charge.                             *)
(***************************************************************************)
ChargedAsQuoted ==
  \A c \in Clients : task[c].kind = "use" => call[c].answer \subseteq call[c].known
===============================================================================
