---------------------------- MODULE CommerceProofs ----------------------------
(***************************************************************************)
(* Publications act once, usage is charged as it was quoted, a checkout    *)
(* has one session, a period is credited once and offers are listed once,  *)
(* for any number of clients with any tasks.                               *)
(*                                                                         *)
(* The four parts of the invariant are about different tables; what they   *)
(* share is that a revision is never changed, and that what is said of a   *)
(* client stays true while others publish.                                 *)
(***************************************************************************)
EXTENDS Commerce, FiniteSetTheorems, TLAPS

-------------------------------------------------------------------------------
IsCall(w) ==
  w = [at |-> w.at, known |-> w.known, number |-> w.number, pages |-> w.pages,
       answer |-> w.answer]

CallsTyped ==
  /\ task \in [Clients -> Tasks]
  /\ DOMAIN call = Clients /\ call = [c \in Clients |-> call[c]]
  /\ \A c \in Clients : IsCall(call[c])

(***************************************************************************)
(* Publications. Revisions and receipts come in pairs. Who has inserted a  *)
(* receipt is the only one to, and who has locked a title the only one to; *)
(* the number it has read stays the next.                                  *)
(***************************************************************************)
Titles == {t.title : t \in {s \in Tasks : s.kind = "publish"}}

TitleOK(title) ==
  /\ IsFiniteSet(RevisionsOf(title))
  /\ {v.number : v \in RevisionsOf(title)} = 1 .. Cardinality(RevisionsOf(title))
  /\ \A v, w \in RevisionsOf(title) : v.number = w.number => v = w

OfOneCommand(v, r) == v.title = r.title /\ v.number = r.number

Paired ==
  /\ \A v \in revision : v.title \in Titles /\ \E r \in receipt : OfOneCommand(v, r)
  /\ \A r \in receipt : \E v \in revision : OfOneCommand(v, r)
  /\ \A r, s \in receipt : OfOneCommand(r, s) => r = s

AllClaims == Claims({"title", "number", "write"})

AnswerOK(c) ==
  task[c].kind = "publish" =>
    \A n \in call[c].answer : \E r \in Receipts(c) : r.number = n /\ IsReceiptOf(r, c)

PublishInv ==
  /\ \A title \in Titles : TitleOK(title)
  /\ Paired
  /\ \A c \in AllClaims : /\ Publishable(task[c])
                          /\ Receipts(c) = {}
                          /\ \A d \in AllClaims \ {c} : ~SameReceipt(c, d)
  /\ \A c, d \in Claims({"number", "write"}) : Title(c) = Title(d) => c = d
  /\ \A c \in Claims({"write"}) : call[c].number = Cardinality(RevisionsOf(Title(c))) + 1
  /\ \A c \in Clients : AnswerOK(c)

(***************************************************************************)
(* Charges. What was quoted is what the rate of a revision says, and the   *)
(* revision has one rate of the feature.                                   *)
(***************************************************************************)
QuotedBy(v, c) ==
  /\ v.number = call[c].number
  /\ \E rate \in RatesFor(v, task[c].feature) : call[c].known = {Charge(rate, task[c].tokens)}

UseOK(c) ==
  task[c].kind = "use" =>
    /\ call[c].at # "done" => call[c].answer = {}
    /\ call[c].at = "held" => \E v \in RevisionsOf(Tariff) : QuotedBy(v, c)
    /\ call[c].answer \subseteq call[c].known

ChargeInv ==
  /\ \A v \in RevisionsOf(Tariff) : \A r, s \in v.content : r.feature = s.feature => r = s
  /\ \A c \in Clients : UseOK(c)

(***************************************************************************)
(* Sessions. The idempotency key of a checkout makes its session the only  *)
(* one, and a row that has a session has this one.                         *)
(***************************************************************************)
SessionOf(key) == [checkout |-> key, id |-> [key |-> key]]

IsCheckout(k) ==
  k = [key |-> k.key, title |-> k.title, number |-> k.number, content |-> k.content,
       expires |-> k.expires, hosted |-> k.hosted]

BuyOK(c) ==
  task[c].kind = "buy" =>
    /\ call[c].at = "asking" => CheckoutsOf(c) # {}
    /\ \A id \in call[c].answer : \E k \in CheckoutsOf(c) : k.hosted = {id}

SessionInv ==
  /\ \A s \in session : s = SessionOf(s.checkout)
  /\ \A k \in checkout : IsCheckout(k) /\ (k.hosted = {} \/ k.hosted = {[key |-> k.key]})
  /\ \A c \in Clients : BuyOK(c)

(***************************************************************************)
(* Periods. Journal and grants are of the same periods, and the account    *)
(* has the credit of the journal.                                          *)
(***************************************************************************)
CreditsOf(entries) == [i \in DOMAIN entries |-> entries[i].credit]

PeriodInv ==
  /\ \A v \in revision : v.title # Tariff => v.content.credit \in Nat
  /\ credited \in Seq([period : 0 .. MaxTime, credit : Nat])
  /\ IsFiniteSet(Amounts!Units(DOMAIN credited, CreditsOf(credited)))
  /\ PeriodsAreCreditedOnce

Inv == CallsTyped /\ PublishInv /\ ChargeInv /\ SessionInv /\ PeriodInv

-------------------------------------------------------------------------------
(***************************************************************************)
(* What a step makes of the row of its client.                             *)
(***************************************************************************)
Others(c) == task' = task /\ \A d \in Clients \ {c} : call'[d] = call[d]

(* A state of a call with a field or more changed is one again. *)
LEMMA ChangedRow ==
  ASSUME NEW n, IsCall(n), NEW w, DOMAIN w = DOMAIN n, w = [f \in DOMAIN w |-> w[f]]
  PROVE  IsCall(w)
<1>1. DOMAIN w = {"at", "known", "number", "pages", "answer"} BY DEF IsCall
<1> QED BY <1>1 DEF IsCall

(* A client whose row is replaced, and the others. *)
LEMMA RowChanges ==
  ASSUME CallsTyped, NEW c \in Clients, NEW w, IsCall(w), call' = [call EXCEPT ![c] = w],
         task' = task
  PROVE  CallsTyped' /\ Others(c) /\ call'[c] = w
<1>1. /\ call'[c] = w /\ \A d \in Clients \ {c} : call'[d] = call[d]
      /\ DOMAIN call' = Clients /\ call' = [d \in Clients |-> call'[d]]
      /\ task' \in [Clients -> Tasks]
  BY DEF CallsTyped
<1>2. \A d \in Clients : IsCall(call'[d]) BY <1>1 DEF CallsTyped
<1> QED BY <1>1, <1>2 DEF CallsTyped, Others

(* A client that goes on: only its point changes. *)
LEMMA GoesOnIs ==
  ASSUME CallsTyped, NEW c \in Clients, NEW at, GoesOn(c, at), task' = task
  PROVE  /\ CallsTyped' /\ Others(c)
         /\ call'[c].at = at /\ call'[c].known = call[c].known
         /\ call'[c].number = call[c].number /\ call'[c].answer = call[c].answer
<1>1. PICK n : n = call[c] OBVIOUS
<1>2. IsCall(n) BY <1>1 DEF CallsTyped
<1>3. PICK w : w = [n EXCEPT !.at = at] OBVIOUS
<1>4. w.at = at /\ w.known = n.known /\ w.number = n.number /\ w.answer = n.answer
  BY <1>2, <1>3 DEF IsCall
<1>5. DOMAIN w = DOMAIN n /\ w = [f \in DOMAIN w |-> w[f]] BY <1>3
<1>6. IsCall(w) BY <1>2, <1>5, ChangedRow
<1>7. call' = [call EXCEPT ![c] = w] BY <1>1, <1>3 DEF GoesOn
<1> HIDE <1>3
<1> QED BY <1>1, <1>4, <1>6, <1>7, RowChanges

(* A client that has its answer: it is done. *)
LEMMA AnswersIs ==
  ASSUME CallsTyped, NEW c \in Clients, NEW answer, Answers(c, answer), task' = task
  PROVE  /\ CallsTyped' /\ Others(c)
         /\ call'[c].at = "done" /\ call'[c].known = call[c].known
         /\ call'[c].number = call[c].number /\ call'[c].answer = answer
<1>1. PICK n : n = call[c] OBVIOUS
<1>2. IsCall(n) BY <1>1 DEF CallsTyped
<1>3. PICK w : w = [n EXCEPT !.at = "done", !.answer = answer] OBVIOUS
<1>4. w.at = "done" /\ w.known = n.known /\ w.number = n.number /\ w.answer = answer
  BY <1>2, <1>3 DEF IsCall
<1>5. DOMAIN w = DOMAIN n /\ w = [f \in DOMAIN w |-> w[f]] BY <1>3
<1>6. IsCall(w) BY <1>2, <1>5, ChangedRow
<1>7. call' = [call EXCEPT ![c] = w] BY <1>1, <1>3 DEF Answers, CallsTyped
<1> HIDE <1>3
<1> QED BY <1>1, <1>4, <1>6, <1>7, RowChanges

(* A client that begins again knows nothing. *)
LEMMA NothingIs ==
  ASSUME CallsTyped, NEW c \in Clients, call' = [call EXCEPT ![c] = Nothing], task' = task
  PROVE  CallsTyped' /\ Others(c) /\ call'[c].at = "start" /\ call'[c].answer = {}
<1>1. PICK w : w = Nothing OBVIOUS
<1>2. IsCall(w) /\ w.at = "start" /\ w.answer = {} BY <1>1 DEF Nothing, IsCall
<1> QED BY <1>1, <1>2, RowChanges

-------------------------------------------------------------------------------
(***************************************************************************)
(* What other steps leave as it is, part by part.                          *)
(***************************************************************************)
LEMMA PublishRests ==
  ASSUME PublishInv, NEW c \in Clients, Others(c), UNCHANGED <<revision, receipt>>,
         task[c].kind = "publish" => /\ call'[c].at \notin {"title", "number", "write"}
                                     /\ AnswerOK(c)'
  PROVE  PublishInv'
<1>1. task' = task /\ \A d \in Clients \ {c} : call'[d] = call[d] BY DEF Others
<1>2. /\ \A title : TitleOK(title)' = TitleOK(title) BY DEF TitleOK, RevisionsOf
<1>3. /\ \A title : RevisionsOf(title)' = RevisionsOf(title)
      /\ \A d \in Clients : Receipts(d)' = Receipts(d)
      /\ \A d \in Clients : Publishable(task'[d]) = Publishable(task[d])
      /\ \A d, e \in Clients : SameReceipt(d, e)' = SameReceipt(d, e)
      /\ \A d \in Clients : Title(d)' = Title(d)
      /\ \A r : \A d \in Clients : IsReceiptOf(r, d)' = IsReceiptOf(r, d)
  BY <1>1 DEF RevisionsOf, Receipts, SameReceipt, Title, IsReceiptOf
<1>4. Paired' BY DEF PublishInv, Paired, OfOneCommand
<1>5. \A d \in Clients : task[d].kind = "publish" /\ call'[d].at \in {"title", "number", "write"}
         => call'[d] = call[d]
  BY <1>1
<1>6. /\ AllClaims' \subseteq AllClaims
      /\ Claims({"number", "write"})' \subseteq Claims({"number", "write"})
      /\ Claims({"write"})' \subseteq Claims({"write"})
      /\ \A d \in Claims({"write"})' : call'[d] = call[d]
      /\ AllClaims \subseteq Clients /\ Claims({"number", "write"}) \subseteq Clients
      /\ Claims({"write"}) \subseteq Clients
  BY <1>1, <1>5 DEF AllClaims, Claims
<1>7. \A d \in Clients : AnswerOK(d)'
  <2>1. ASSUME NEW d \in Clients, d # c PROVE AnswerOK(d)'
    <3>1. call'[d] = call[d] /\ AnswerOK(d) BY <1>1, <2>1 DEF PublishInv
    <3> QED BY <1>1, <1>3, <3>1 DEF AnswerOK
  <2>2. AnswerOK(c)' BY <1>1 DEF AnswerOK
  <2> QED BY <2>1, <2>2
<1>8. \A d \in AllClaims' : /\ Publishable(task'[d])
                            /\ Receipts(d)' = {}
                            /\ \A e \in AllClaims' \ {d} : ~SameReceipt(d, e)'
  BY <1>3, <1>6 DEF PublishInv
<1>9. \A d, e \in Claims({"number", "write"})' : Title(d)' = Title(e)' => d = e
  BY <1>3, <1>6 DEF PublishInv
<1>10. \A d \in Claims({"write"})' : call'[d].number = Cardinality(RevisionsOf(Title(d))') + 1
  BY <1>3, <1>6 DEF PublishInv
<1>11. \A title \in Titles : TitleOK(title)' BY <1>2 DEF PublishInv
<1> QED BY <1>4, <1>7, <1>8, <1>9, <1>10, <1>11 DEF PublishInv, Publishable

(* What is said of a charge stays while its client and the tariff stay. *)
LEMMA ChargeRests ==
  ASSUME ChargeInv, NEW c \in Clients, Others(c), revision \subseteq revision',
         \A v \in RevisionsOf(Tariff)' : \A r, s \in v.content : r.feature = s.feature => r = s,
         UseOK(c)'
  PROVE  ChargeInv'
<1>1. task' = task /\ \A d \in Clients \ {c} : call'[d] = call[d] BY DEF Others
<1>2. RevisionsOf(Tariff) \subseteq RevisionsOf(Tariff)' BY DEF RevisionsOf
<1>3. ASSUME NEW d \in Clients, d # c PROVE UseOK(d)'
  <2>1. call'[d] = call[d] /\ UseOK(d) BY <1>1, <1>3 DEF ChargeInv
  <2>2. \A v : QuotedBy(v, d) => QuotedBy(v, d)' BY <1>1, <2>1 DEF QuotedBy, RatesFor, Charge
  <2> QED BY <1>1, <1>2, <2>1, <2>2 DEF UseOK
<1> QED BY <1>3 DEF ChargeInv

(* What is said of checkouts stays while they, sessions and clients stay. *)
LEMMA SessionRests ==
  ASSUME SessionInv, NEW c \in Clients, Others(c), UNCHANGED <<checkout, session>>, BuyOK(c)'
  PROVE  SessionInv'
<1>1. task' = task /\ \A d \in Clients \ {c} : call'[d] = call[d] BY DEF Others
<1>2. ASSUME NEW d \in Clients, d # c PROVE BuyOK(d)'
  BY <1>1, <1>2 DEF SessionInv, BuyOK, CheckoutsOf
<1>3. /\ \A s \in session' : s = SessionOf(s.checkout)
      /\ \A k \in checkout' : IsCheckout(k) /\ (k.hosted = {} \/ k.hosted = {[key |-> k.key]})
  BY DEF SessionInv
<1> QED BY <1>2, <1>3 DEF SessionInv, SessionOf, IsCheckout

(* What is said of periods stays while events and grants stay. *)
LEMMA PeriodRests ==
  ASSUME PeriodInv, UNCHANGED <<granted, credited, credit>>,
         \A v \in revision' : v.title # Tariff => v.content.credit \in Nat
  PROVE  PeriodInv'
<1>1. CreditsOf(credited') = CreditsOf(credited) OBVIOUS
<1>2. PeriodsAreCreditedOnce' BY DEF PeriodInv, PeriodsAreCreditedOnce, AllCredited, IsInjective
<1>3. IsFiniteSet(Amounts!Units(DOMAIN credited', CreditsOf(credited'))) BY <1>1 DEF PeriodInv
<1> QED BY <1>2, <1>3 DEF PeriodInv, CreditsOf

(* What does not look at the sessions. *)
LEMMA OtherPartsKeep ==
  ASSUME Inv, UNCHANGED <<task, call, revision, receipt, granted, credited, credit>>
  PROVE  CallsTyped' /\ PublishInv' /\ ChargeInv' /\ PeriodInv'
<1>1. CallsTyped' BY DEF Inv, CallsTyped
<1>2. PublishInv'
  <2>1. \A title \in Titles : TitleOK(title)' BY DEF Inv, PublishInv, TitleOK, RevisionsOf
  <2>2. Paired' BY DEF Inv, PublishInv, Paired, OfOneCommand
  <2>3. /\ \A title : RevisionsOf(title)' = RevisionsOf(title)
        /\ \A at : Claims(at)' = Claims(at)
        /\ \A c \in Clients : Receipts(c)' = Receipts(c)
    BY DEF RevisionsOf, Claims, Receipts, Title
  <2>4. \A c \in AllClaims' : /\ Publishable(task'[c])
                              /\ Receipts(c)' = {}
                              /\ \A d \in AllClaims' \ {c} : ~SameReceipt(c, d)'
    BY <2>3 DEF Inv, PublishInv, AllClaims, Claims, SameReceipt, Title
  <2>5. \A c, d \in Claims({"number", "write"})' : Title(c)' = Title(d)' => c = d
    BY <2>3 DEF Inv, PublishInv, Title
  <2>6. \A c \in Claims({"write"})' :
          call'[c].number = Cardinality(RevisionsOf(Title(c))') + 1
    BY <2>3 DEF Inv, PublishInv, Title, RevisionsOf
  <2>7. \A c \in Clients : AnswerOK(c)'
    BY DEF Inv, PublishInv, AnswerOK, Receipts, IsReceiptOf, Title
  <2> QED BY <2>1, <2>2, <2>4, <2>5, <2>6, <2>7 DEF PublishInv, Publishable
<1>3. ChargeInv'
  <2>1. \A v, c : QuotedBy(v, c) => QuotedBy(v, c)' BY DEF QuotedBy, RatesFor, Charge
  <2> QED BY <2>1 DEF Inv, ChargeInv, RevisionsOf, UseOK
<1>4. PeriodInv'
  <2>1. \A v \in revision' : v.title # Tariff => v.content.credit \in Nat BY DEF Inv, PeriodInv
  <2> QED BY <2>1, PeriodRests DEF Inv
<1> QED BY <1>1, <1>2, <1>3, <1>4

(* A step that changes nothing keeps the invariant. *)
LEMMA UnchangedKeeps ==
  ASSUME Inv, UNCHANGED <<task, call, revision, receipt, checkout, session, granted, credited, credit>>
  PROVE  Inv'
<1>1. SessionInv' BY DEF Inv, SessionInv, SessionOf, IsCheckout, BuyOK, CheckoutsOf
<1> QED BY <1>1, OtherPartsKeep DEF Inv

(* A step that only changes the row of its client, who is not publishing. *)
LEMMA RowKeeps ==
  ASSUME Inv, NEW c \in Clients, CallsTyped', Others(c),
         UNCHANGED <<revision, receipt, checkout, session, granted, credited, credit>>,
         task[c].kind = "publish" => /\ call'[c].at \notin {"title", "number", "write"}
                                     /\ AnswerOK(c)',
         UseOK(c)', BuyOK(c)'
  PROVE  Inv'
<1>1. /\ \A v \in RevisionsOf(Tariff)' : \A r, s \in v.content : r.feature = s.feature => r = s
      /\ \A v \in revision' : v.title # Tariff => v.content.credit \in Nat
  BY DEF Inv, ChargeInv, PeriodInv, RevisionsOf
<1>2. PublishInv' BY PublishRests DEF Inv
<1>3. ChargeInv' BY <1>1, ChargeRests DEF Inv
<1>4. SessionInv' BY SessionRests DEF Inv
<1>5. PeriodInv' BY <1>1, PeriodRests DEF Inv
<1> QED BY <1>2, <1>3, <1>4, <1>5 DEF Inv

-------------------------------------------------------------------------------
(* A transaction that is rolled back leaves nothing. *)
LEMMA FailCallKeeps ==
  ASSUME Inv, NEW c \in Clients, FailCall(c), UNCHANGED <<checkoutVars, subscriptionVars>>
  PROVE  Inv'
<1>1. call' = [call EXCEPT ![c] = Nothing] /\ UNCHANGED <<task, revision, receipt>>
  BY DEF FailCall
<1>2. CallsTyped' /\ Others(c) /\ call'[c].at = "start" /\ call'[c].answer = {}
  BY <1>1, NothingIs DEF Inv
<1>3. AnswerOK(c)' /\ UseOK(c)' /\ BuyOK(c)' BY <1>2 DEF AnswerOK, UseOK, BuyOK
<1> QED BY <1>1, <1>2, <1>3, RowKeeps DEF checkoutVars, subscriptionVars

(* The next page of a listing. *)
LEMMA ListPageKeeps ==
  ASSUME Inv, NEW c \in Clients, ListPage(c), UNCHANGED <<checkoutVars, subscriptionVars>>
  PROVE  Inv'
<1>1. /\ task[c].kind = "list" /\ UNCHANGED <<task, revision, receipt>>
      /\ \E at, known, page :
           call' = [call EXCEPT ![c].at = at, ![c].known = known, ![c].pages = @ \o page]
  BY Zenon DEF ListPage
<1>2. PICK at, known, page :
        call' = [call EXCEPT ![c].at = at, ![c].known = known, ![c].pages = @ \o page]
  BY <1>1
<1>3. PICK n : n = call[c] OBVIOUS
<1>4. IsCall(n) BY <1>3 DEF Inv, CallsTyped
<1>5. PICK pages : pages = n.pages \o page OBVIOUS
<1>6. PICK w : w = [n EXCEPT !.at = at, !.known = known, !.pages = pages] OBVIOUS
<1>7. DOMAIN w = DOMAIN n /\ w = [f \in DOMAIN w |-> w[f]] BY <1>6
<1>8. IsCall(w) BY <1>4, <1>7, ChangedRow
<1>9. call' = [call EXCEPT ![c] = w]
  BY <1>2, <1>3, <1>4, <1>5, <1>6 DEF Inv, CallsTyped, IsCall
<1>10. CallsTyped' /\ Others(c) BY <1>1, <1>8, <1>9, RowChanges DEF Inv
<1>11. UseOK(c)' /\ BuyOK(c)' BY <1>1 DEF UseOK, BuyOK
<1> QED BY <1>1, <1>10, <1>11, RowKeeps DEF checkoutVars, subscriptionVars

(* The quote is what its revision says. *)
LEMMA QuoteKeeps ==
  ASSUME Inv, NEW c \in Clients, Quote(c), UNCHANGED <<checkoutVars, subscriptionVars>>
  PROVE  Inv'
<1>1. task[c].kind = "use" /\ call[c].at = "start" /\ UNCHANGED <<task, revision, receipt>>
  BY DEF Quote, Does
<1>2. PICK v \in Offering(task[c].feature) : \E rate \in RatesFor(v, task[c].feature) :
        call' = [call EXCEPT ![c].at = "held", ![c].number = v.number,
                             ![c].known = {Charge(rate, task[c].tokens)}]
  BY DEF Quote
<1>3. PICK rate \in RatesFor(v, task[c].feature) :
        call' = [call EXCEPT ![c].at = "held", ![c].number = v.number,
                             ![c].known = {Charge(rate, task[c].tokens)}]
  BY <1>2
<1>4. PICK n : n = call[c] OBVIOUS
<1>5. IsCall(n) BY <1>4 DEF Inv, CallsTyped
<1>6. PICK known : known = {Charge(rate, task[c].tokens)} OBVIOUS
<1>7. PICK number : number = v.number OBVIOUS
<1>8. PICK w : w = [n EXCEPT !.at = "held", !.number = number, !.known = known] OBVIOUS
<1>9. w.at = "held" /\ w.number = number /\ w.known = known /\ w.answer = n.answer
  BY <1>5, <1>8 DEF IsCall
<1>10. DOMAIN w = DOMAIN n /\ w = [f \in DOMAIN w |-> w[f]] BY <1>8
<1>11. IsCall(w) BY <1>5, <1>10, ChangedRow
<1>12. call' = [call EXCEPT ![c] = w]
  BY <1>3, <1>4, <1>5, <1>6, <1>7, <1>8 DEF Inv, CallsTyped, IsCall
<1> HIDE <1>8
<1>13. CallsTyped' /\ Others(c) /\ call'[c] = w BY <1>1, <1>11, <1>12, RowChanges DEF Inv
<1>14. UseOK(c)'
  <2>1. n.answer = {} BY <1>1, <1>4 DEF Inv, ChargeInv, UseOK
  <2>2. v \in RevisionsOf(Tariff)' BY <1>1, <1>2 DEF Offering, RevisionsOf
  <2>3. QuotedBy(v, c)' BY <1>1, <1>3, <1>6, <1>7, <1>9, <1>13 DEF QuotedBy, RatesFor, Charge
  <2> QED BY <1>9, <1>13, <2>1, <2>2, <2>3 DEF UseOK
<1>15. BuyOK(c)' BY <1>1 DEF BuyOK
<1> QED BY <1>1, <1>13, <1>14, <1>15, RowKeeps DEF checkoutVars, subscriptionVars

(* What is held is priced as it was quoted. *)
LEMMA QuoteForHoldKeeps ==
  ASSUME Inv, NEW c \in Clients, QuoteForHold(c), UNCHANGED <<checkoutVars, subscriptionVars>>
  PROVE  Inv'
<1>1. task[c].kind = "use" /\ call[c].at = "held" /\ UNCHANGED <<task, revision, receipt>>
  BY DEF QuoteForHold, Does
<1>2. PICK v \in RevisionsOf(Tariff) : /\ v.number = call[c].number
        /\ \E rate \in RatesFor(v, task[c].feature) : Answers(c, {Charge(rate, task[c].tokens)})
  BY DEF QuoteForHold, Pinned
<1>3. PICK rate \in RatesFor(v, task[c].feature) : Answers(c, {Charge(rate, task[c].tokens)})
  BY <1>2
<1>4. PICK w \in RevisionsOf(Tariff) : QuotedBy(w, c)
  BY <1>1 DEF Inv, ChargeInv, UseOK
<1>5. PICK other \in RatesFor(w, task[c].feature) :
        call[c].known = {Charge(other, task[c].tokens)}
  BY <1>4 DEF QuotedBy
<1>6. v = w
  <2>1. Tariff \in Titles BY <1>2 DEF Inv, PublishInv, Paired, RevisionsOf
  <2>2. TitleOK(Tariff) BY <2>1 DEF Inv, PublishInv
  <2>3. v.number = w.number BY <1>2, <1>4 DEF QuotedBy
  <2> QED BY <1>2, <1>4, <2>2, <2>3 DEF TitleOK
<1>7. rate = other BY <1>2, <1>3, <1>5, <1>6 DEF Inv, ChargeInv, RatesFor
<1>8. /\ CallsTyped' /\ Others(c) /\ call'[c].at = "done" /\ call'[c].known = call[c].known
      /\ call'[c].answer = {Charge(rate, task[c].tokens)}
  BY <1>1, <1>3, AnswersIs DEF Inv
<1>9. UseOK(c)' BY <1>5, <1>7, <1>8 DEF UseOK
<1>10. BuyOK(c)' BY <1>1 DEF BuyOK
<1> QED BY <1>1, <1>8, <1>9, <1>10, RowKeeps DEF checkoutVars, subscriptionVars

-------------------------------------------------------------------------------
(***************************************************************************)
(* Publications.                                                           *)
(***************************************************************************)
(* What is said of a publisher's tables while none of them is written. *)
LEMMA TablesKept ==
  ASSUME PublishInv, NEW c \in Clients, Others(c), UNCHANGED <<revision, receipt>>
  PROVE  /\ \A title : RevisionsOf(title)' = RevisionsOf(title)
         /\ \A title \in Titles : TitleOK(title)'
         /\ Paired'
         /\ \A d \in Clients : /\ Receipts(d)' = Receipts(d)
                               /\ Title(d)' = Title(d)
                               /\ Publishable(task'[d]) = Publishable(task[d])
         /\ \A d, e \in Clients : SameReceipt(d, e)' = SameReceipt(d, e)
         /\ \A d \in Clients \ {c} : AnswerOK(d)'
<1>1. task' = task /\ \A d \in Clients \ {c} : call'[d] = call[d] BY DEF Others
<1>2. /\ \A title : RevisionsOf(title)' = RevisionsOf(title)
      /\ \A d \in Clients : Receipts(d)' = Receipts(d)
      /\ \A d \in Clients : Publishable(task'[d]) = Publishable(task[d])
      /\ \A d, e \in Clients : SameReceipt(d, e)' = SameReceipt(d, e)
      /\ \A d \in Clients : Title(d)' = Title(d)
      /\ \A r : \A d \in Clients : IsReceiptOf(r, d)' = IsReceiptOf(r, d)
  BY <1>1 DEF RevisionsOf, Receipts, SameReceipt, Title, IsReceiptOf
<1>3. \A title \in Titles : TitleOK(title)' BY DEF PublishInv, TitleOK, RevisionsOf
<1>4. Paired' BY DEF PublishInv, Paired, OfOneCommand
<1>5. ASSUME NEW d \in Clients \ {c} PROVE AnswerOK(d)'
  <2>1. call'[d] = call[d] /\ AnswerOK(d) BY <1>1 DEF PublishInv
  <2> QED BY <1>1, <1>2, <2>1 DEF AnswerOK
<1> QED BY <1>2, <1>3, <1>4, <1>5

(* What holds of the other parts when a publisher goes on. *)
LEMMA PublisherKeeps ==
  ASSUME Inv, NEW c \in Clients, task[c].kind = "publish", CallsTyped', Others(c), PublishInv',
         UNCHANGED <<revision, checkoutVars, subscriptionVars>>
  PROVE  Inv'
<1>1. /\ \A v \in RevisionsOf(Tariff)' : \A r, s \in v.content : r.feature = s.feature => r = s
      /\ \A v \in revision' : v.title # Tariff => v.content.credit \in Nat
  BY DEF Inv, ChargeInv, PeriodInv, RevisionsOf
<1>2. UseOK(c)' /\ BuyOK(c)' BY DEF Others, UseOK, BuyOK
<1>3. UNCHANGED <<checkout, session, granted, credited, credit>>
  BY DEF checkoutVars, subscriptionVars
<1>4. ChargeInv' BY <1>1, <1>2, ChargeRests DEF Inv
<1>5. SessionInv' BY <1>2, <1>3, SessionRests DEF Inv
<1>6. PeriodInv' BY <1>1, <1>3, PeriodRests DEF Inv
<1> QED BY <1>4, <1>5, <1>6 DEF Inv

(* A receipt is answered again, or is the first and only one. *)
LEMMA ReplayKeeps ==
  ASSUME Inv, NEW c \in Clients, Replay(c), UNCHANGED <<checkoutVars, subscriptionVars>>
  PROVE  Inv'
<1>1. /\ task[c].kind = "publish" /\ call[c].at = "start" /\ Publishable(task[c])
      /\ \A d \in AllClaims : ~SameReceipt(c, d)
      /\ UNCHANGED <<task, revision, receipt>>
  BY DEF Replay, Does, AllClaims
<1>2. PublishInv /\ CallsTyped BY DEF Inv
<1>3. CASE Receipts(c) = {} /\ GoesOn(c, "title")
  <2>1. /\ CallsTyped' /\ Others(c) /\ call'[c].at = "title" /\ call'[c].answer = call[c].answer
    BY <1>1, <1>2, <1>3, GoesOnIs
  <2>2. task' = task /\ \A d \in Clients \ {c} : call'[d] = call[d] BY <2>1 DEF Others
  <2>3. /\ AllClaims' \subseteq AllClaims \cup {c} /\ AllClaims \subseteq Clients
        /\ Claims({"number", "write"})' \subseteq Claims({"number", "write"})
        /\ Claims({"write"})' \subseteq Claims({"write"})
        /\ Claims({"number", "write"}) \subseteq Clients /\ Claims({"write"}) \subseteq Clients
        /\ \A d \in Claims({"write"})' : call'[d] = call[d]
    BY <1>1, <2>1, <2>2 DEF AllClaims, Claims
  <2>4. /\ \A title : RevisionsOf(title)' = RevisionsOf(title)
        /\ \A title \in Titles : TitleOK(title)'
        /\ Paired'
        /\ \A d \in Clients : /\ Receipts(d)' = Receipts(d)
                              /\ Title(d)' = Title(d)
                              /\ Publishable(task'[d]) = Publishable(task[d])
        /\ \A d, e \in Clients : SameReceipt(d, e)' = SameReceipt(d, e)
        /\ \A d \in Clients \ {c} : AnswerOK(d)'
    BY <1>1, <1>2, <2>1, TablesKept
  <2>5. \A d, e \in Clients : SameReceipt(d, e) => SameReceipt(e, d) BY DEF SameReceipt
  <2>6. \A d \in AllClaims' : /\ Publishable(task'[d])
                              /\ Receipts(d)' = {}
                              /\ \A e \in AllClaims' \ {d} : ~SameReceipt(d, e)'
    BY <1>1, <1>2, <1>3, <2>3, <2>4, <2>5 DEF PublishInv
  <2>7. \A d, e \in Claims({"number", "write"})' : Title(d)' = Title(e)' => d = e
    BY <1>2, <2>3, <2>4 DEF PublishInv
  <2>8. \A d \in Claims({"write"})' : call'[d].number = Cardinality(RevisionsOf(Title(d))') + 1
    BY <1>2, <2>3, <2>4 DEF PublishInv
  <2>9. AnswerOK(c)'
    BY <1>1, <1>2, <2>1, <2>2, <2>4 DEF PublishInv, AnswerOK, IsReceiptOf, Title
  <2>10. PublishInv' BY <2>4, <2>6, <2>7, <2>8, <2>9 DEF PublishInv, Publishable
  <2> QED BY <1>1, <2>1, <2>10, PublisherKeeps
<1>4. ASSUME NEW r \in Receipts(c), IsReceiptOf(r, c), Answers(c, {r.number}) PROVE Inv'
  <2>1. /\ CallsTyped' /\ Others(c) /\ call'[c].at = "done" /\ call'[c].answer = {r.number}
    BY <1>1, <1>2, <1>4, AnswersIs
  <2>2. AnswerOK(c)'
    BY <1>1, <1>4, <2>1 DEF AnswerOK, Receipts, IsReceiptOf, Title
  <2>3. PublishInv' BY <1>1, <1>2, <2>1, <2>2, PublishRests
  <2> QED BY <1>1, <2>1, <2>3, PublisherKeeps
<1> QED BY <1>3, <1>4 DEF Replay

(* One publication of a title after the other. *)
LEMMA LockTitleKeeps ==
  ASSUME Inv, NEW c \in Clients, LockTitle(c), UNCHANGED <<checkoutVars, subscriptionVars>>
  PROVE  Inv'
<1>1. /\ task[c].kind = "publish" /\ call[c].at = "title" /\ GoesOn(c, "number")
      /\ \A d \in Claims({"number", "write"}) : Title(c) # Title(d)
      /\ UNCHANGED <<task, revision, receipt>>
  BY DEF LockTitle, Does, Excludes
<1>2. PublishInv /\ CallsTyped BY DEF Inv
<1>3. /\ CallsTyped' /\ Others(c) /\ call'[c].at = "number" /\ call'[c].answer = call[c].answer
  BY <1>1, <1>2, GoesOnIs
<1>4. task' = task /\ \A d \in Clients \ {c} : call'[d] = call[d] BY <1>3 DEF Others
<1>5. /\ AllClaims' \subseteq AllClaims /\ AllClaims \subseteq Clients
      /\ Claims({"number", "write"})' \subseteq Claims({"number", "write"}) \cup {c}
      /\ Claims({"write"})' \subseteq Claims({"write"})
      /\ Claims({"number", "write"}) \subseteq Clients /\ Claims({"write"}) \subseteq Clients
      /\ \A d \in Claims({"write"})' : call'[d] = call[d]
  BY <1>1, <1>3, <1>4 DEF AllClaims, Claims
<1>6. /\ \A title : RevisionsOf(title)' = RevisionsOf(title)
      /\ \A title \in Titles : TitleOK(title)'
      /\ Paired'
      /\ \A d \in Clients : /\ Receipts(d)' = Receipts(d)
                            /\ Title(d)' = Title(d)
                            /\ Publishable(task'[d]) = Publishable(task[d])
      /\ \A d, e \in Clients : SameReceipt(d, e)' = SameReceipt(d, e)
      /\ \A d \in Clients \ {c} : AnswerOK(d)'
  BY <1>1, <1>2, <1>3, TablesKept
<1>7. \A d \in AllClaims' : /\ Publishable(task'[d])
                            /\ Receipts(d)' = {}
                            /\ \A e \in AllClaims' \ {d} : ~SameReceipt(d, e)'
  BY <1>2, <1>5, <1>6 DEF PublishInv
<1>8. \A d, e \in Claims({"number", "write"})' : Title(d)' = Title(e)' => d = e
  BY <1>1, <1>2, <1>5, <1>6 DEF PublishInv
<1>9. \A d \in Claims({"write"})' : call'[d].number = Cardinality(RevisionsOf(Title(d))') + 1
  BY <1>2, <1>5, <1>6 DEF PublishInv
<1>10. AnswerOK(c)'
  BY <1>1, <1>2, <1>3, <1>4, <1>6 DEF PublishInv, AnswerOK, IsReceiptOf, Title
<1>11. PublishInv' BY <1>6, <1>7, <1>8, <1>9, <1>10 DEF PublishInv, Publishable
<1> QED BY <1>1, <1>3, <1>11, PublisherKeeps

(* The number after those of a title without gaps. *)
LEMMA NextNumber ==
  ASSUME NEW n \in Nat
  PROVE  Max((1 .. n) \cup {0}) = n
<1> DEFINE S == (1 .. n) \cup {0}
<1>1. n \in S /\ \A m \in S : m \in Int /\ n >= m OBVIOUS
<1>2. Max(S) \in S /\ \A m \in S : Max(S) >= m BY <1>1 DEF Max
<1>3. Max(S) >= n /\ n >= Max(S) /\ Max(S) \in Int BY <1>1, <1>2
<1> QED BY <1>3

(* A publication takes the number after the last, under the lock of its title. *)
LEMMA NumberKeeps ==
  ASSUME Inv, NEW c \in Clients, Number(c), UNCHANGED <<checkoutVars, subscriptionVars>>
  PROVE  Inv'
<1>1. /\ task[c].kind = "publish" /\ call[c].at = "number"
      /\ call' = [call EXCEPT ![c].at = "write",
                    ![c].number = Max({v.number : v \in RevisionsOf(Title(c))} \cup {0}) + 1]
      /\ UNCHANGED <<task, revision, receipt>>
  BY DEF Number, Does
<1>2. PublishInv /\ CallsTyped BY DEF Inv
<1>3. PICK count : count = Cardinality(RevisionsOf(Title(c))) OBVIOUS
<1>4. Max({v.number : v \in RevisionsOf(Title(c))} \cup {0}) = count
  <2>1. task[c] \in Tasks BY <1>2 DEF CallsTyped
  <2>2. Title(c) \in Titles BY <1>1, <2>1 DEF Titles, Title
  <2>3. TitleOK(Title(c)) BY <1>2, <2>2 DEF PublishInv
  <2>4. count \in Nat BY <1>3, <2>3, FS_CardinalityType DEF TitleOK
  <2>5. {v.number : v \in RevisionsOf(Title(c))} = 1 .. count BY <1>3, <2>3 DEF TitleOK
  <2> QED BY <2>4, <2>5, NextNumber
<1>5. PICK n : n = call[c] OBVIOUS
<1>6. IsCall(n) BY <1>2, <1>5 DEF CallsTyped
<1>7. PICK number : number = count + 1 OBVIOUS
<1>8. PICK w : w = [n EXCEPT !.at = "write", !.number = number] OBVIOUS
<1>9. w.at = "write" /\ w.number = number /\ w.known = n.known /\ w.answer = n.answer
  BY <1>6, <1>8 DEF IsCall
<1>10. DOMAIN w = DOMAIN n /\ w = [f \in DOMAIN w |-> w[f]] BY <1>8
<1>11. IsCall(w) BY <1>6, <1>10, ChangedRow
<1>12. call' = [call EXCEPT ![c].at = "write", ![c].number = number]
  BY <1>1, <1>4, <1>7
<1>13. call' = [call EXCEPT ![c] = w] BY <1>2, <1>5, <1>6, <1>8, <1>12 DEF CallsTyped, IsCall
<1> HIDE <1>8
<1>14. CallsTyped' /\ Others(c) /\ call'[c] = w BY <1>1, <1>2, <1>11, <1>13, RowChanges
<1>15. task' = task /\ \A d \in Clients \ {c} : call'[d] = call[d] BY <1>14 DEF Others
<1>16. /\ AllClaims' \subseteq AllClaims /\ AllClaims \subseteq Clients
       /\ Claims({"number", "write"})' \subseteq Claims({"number", "write"})
       /\ Claims({"write"})' \subseteq Claims({"write"}) \cup {c}
       /\ Claims({"number", "write"}) \subseteq Clients /\ Claims({"write"}) \subseteq Clients
       /\ \A d \in Claims({"write"})' \ {c} : d \in Claims({"write"}) /\ call'[d] = call[d]
  BY <1>1, <1>9, <1>14, <1>15 DEF AllClaims, Claims
<1>17. /\ \A title : RevisionsOf(title)' = RevisionsOf(title)
       /\ \A title \in Titles : TitleOK(title)'
       /\ Paired'
       /\ \A d \in Clients : /\ Receipts(d)' = Receipts(d)
                             /\ Title(d)' = Title(d)
                             /\ Publishable(task'[d]) = Publishable(task[d])
       /\ \A d, e \in Clients : SameReceipt(d, e)' = SameReceipt(d, e)
       /\ \A d \in Clients \ {c} : AnswerOK(d)'
  BY <1>1, <1>2, <1>14, TablesKept
<1>18. \A d \in AllClaims' : /\ Publishable(task'[d])
                             /\ Receipts(d)' = {}
                             /\ \A e \in AllClaims' \ {d} : ~SameReceipt(d, e)'
  BY <1>2, <1>16, <1>17 DEF PublishInv
<1>19. \A d, e \in Claims({"number", "write"})' : Title(d)' = Title(e)' => d = e
  BY <1>2, <1>16, <1>17 DEF PublishInv
<1>20. \A d \in Claims({"write"})' : call'[d].number = Cardinality(RevisionsOf(Title(d))') + 1
  <2>1. RevisionsOf(Title(c))' = RevisionsOf(Title(c)) BY <1>17 DEF RevisionsOf
  <2>2. call'[c].number = Cardinality(RevisionsOf(Title(c))') + 1
    BY <1>3, <1>7, <1>9, <1>14, <2>1
  <2>3. ASSUME NEW d \in Claims({"write"}), d # c, call'[d] = call[d]
        PROVE  call'[d].number = Cardinality(RevisionsOf(Title(d))') + 1
    <3>1. d \in Clients /\ call[d].number = Cardinality(RevisionsOf(Title(d))) + 1
      BY <1>2, <1>16 DEF PublishInv
    <3>2. RevisionsOf(Title(d))' = RevisionsOf(Title(d)) BY <1>1, <3>1 DEF RevisionsOf, Title
    <3> QED BY <2>3, <3>1, <3>2
  <2> QED BY <1>16, <2>2, <2>3
<1>21. AnswerOK(c)'
  BY <1>1, <1>2, <1>5, <1>9, <1>14, <1>15, <1>17 DEF PublishInv, AnswerOK, IsReceiptOf, Title
<1>22. PublishInv' BY <1>17, <1>18, <1>19, <1>20, <1>21 DEF PublishInv, Publishable
<1> QED BY <1>1, <1>14, <1>22, PublisherKeeps

(* A title with one more revision, which has the next number. *)
LEMMA TitleGrows ==
  ASSUME NEW rows, IsFiniteSet(rows), {v.number : v \in rows} = 1 .. Cardinality(rows),
         \A v, w \in rows : v.number = w.number => v = w,
         NEW new, new.number = Cardinality(rows) + 1
  PROVE  /\ IsFiniteSet(rows \cup {new})
         /\ Cardinality(rows \cup {new}) = Cardinality(rows) + 1
         /\ {v.number : v \in rows \cup {new}} = 1 .. Cardinality(rows) + 1
         /\ \A v, w \in rows \cup {new} : v.number = w.number => v = w
<1>1. PICK n \in Nat : n = Cardinality(rows) BY FS_CardinalityType
<1>2. \A v \in rows : v.number \in 1 .. n BY <1>1
<1>3. \A v \in rows : v.number # new.number BY <1>1, <1>2
<1>4. /\ IsFiniteSet(rows \cup {new})
      /\ Cardinality(rows \cup {new}) = Cardinality(rows) + 1
  BY <1>3, FS_AddElement
<1>5. {v.number : v \in rows \cup {new}} = {v.number : v \in rows} \cup {new.number} OBVIOUS
<1>6. {v.number : v \in rows \cup {new}} = 1 .. n + 1
  <2>1. (1 .. n) \cup {n + 1} = 1 .. n + 1 OBVIOUS
  <2> QED BY <1>1, <1>5, <2>1
<1> QED BY <1>1, <1>3, <1>4, <1>6

(* What a commit adds, and that it is the work of a new receipt. *)
LEMMA CommitIs ==
  ASSUME Inv, NEW c \in Clients, CommitPublication(c)
  PROVE  \E new, mine :
    /\ new.title = Title(c) /\ new.number = call[c].number /\ new.content = task[c].content
    /\ mine.key = task[c].key /\ mine.title = Title(c) /\ mine.number = call[c].number
    /\ mine.content = task[c].content /\ mine.effective = task[c].effective
    /\ revision' = revision \cup {new} /\ receipt' = receipt \cup {mine}
<1>1. PICK new : new = Numbered(c) OBVIOUS
<1>2. PICK mine : mine = Receipt(c) OBVIOUS
<1>3. revision' = revision \cup {new} /\ receipt' = receipt \cup {mine}
  BY <1>1, <1>2 DEF CommitPublication
<1>4. new.title = Title(c) /\ new.number = call[c].number /\ new.content = task[c].content
  BY <1>1 DEF Numbered
<1>5. /\ mine.key = task[c].key /\ mine.title = Title(c) /\ mine.number = call[c].number
      /\ mine.content = task[c].content /\ mine.effective = task[c].effective
  BY <1>2 DEF Receipt
<1> QED BY <1>3, <1>4, <1>5

(* A committed publication is the next revision of its title. *)
LEMMA CommitKeepsPublications ==
  ASSUME Inv, NEW c \in Clients, CommitPublication(c), Others(c),
         \/ call'[c].at = "done" /\ call'[c].answer = {call[c].number}
         \/ call'[c].at = "start" /\ call'[c].answer = {}
  PROVE  PublishInv'
<1>1. task[c].kind = "publish" /\ call[c].at = "write" BY DEF CommitPublication, Does
<1>2. PublishInv /\ CallsTyped BY DEF Inv
<1>3. task' = task /\ \A d \in Clients \ {c} : call'[d] = call[d] BY DEF Others
<1>4. PICK new, mine :
        /\ new.title = Title(c) /\ new.number = call[c].number /\ new.content = task[c].content
        /\ mine.key = task[c].key /\ mine.title = Title(c) /\ mine.number = call[c].number
        /\ mine.content = task[c].content /\ mine.effective = task[c].effective
        /\ revision' = revision \cup {new} /\ receipt' = receipt \cup {mine}
  BY CommitIs
<1>5. Title(c) \in Titles
  <2>1. task[c] \in Tasks BY <1>2 DEF CallsTyped
  <2> QED BY <1>1, <2>1 DEF Titles, Title
<1>6. /\ c \in AllClaims /\ c \in Claims({"number", "write"}) /\ c \in Claims({"write"})
      /\ AllClaims' \subseteq AllClaims \ {c}
      /\ Claims({"number", "write"})' \subseteq Claims({"number", "write"}) \ {c}
      /\ Claims({"write"})' \subseteq Claims({"write"}) \ {c}
      /\ AllClaims \subseteq Clients /\ Claims({"write"}) \subseteq Claims({"number", "write"})
      /\ Claims({"number", "write"}) \subseteq Clients
  BY <1>1, <1>3 DEF AllClaims, Claims
<1>7. /\ TitleOK(Title(c)) /\ call[c].number = Cardinality(RevisionsOf(Title(c))) + 1
  BY <1>2, <1>5, <1>6 DEF PublishInv
<1>8. /\ RevisionsOf(Title(c))' = RevisionsOf(Title(c)) \cup {new}
      /\ \A title : title # Title(c) => RevisionsOf(title)' = RevisionsOf(title)
  BY <1>3, <1>4 DEF RevisionsOf, Title
<1>9. ASSUME NEW title \in Titles PROVE TitleOK(title)'
  <2>1. TitleOK(title) BY <1>2 DEF PublishInv
  <2>2. CASE title # Title(c)
    <3>1. RevisionsOf(title)' = RevisionsOf(title) BY <1>8, <2>2
    <3> QED BY <2>1, <3>1 DEF TitleOK
  <2>3. CASE title = Title(c)
    <3>1. RevisionsOf(title)' = RevisionsOf(title) \cup {new} BY <1>4, <2>3 DEF RevisionsOf
    <3>2. new.number = Cardinality(RevisionsOf(title)) + 1 BY <1>4, <1>7, <2>3
    <3>3. PICK rows : rows = RevisionsOf(title) OBVIOUS
    <3>4. /\ IsFiniteSet(rows \cup {new})
          /\ Cardinality(rows \cup {new}) = Cardinality(rows) + 1
          /\ {v.number : v \in rows \cup {new}} = 1 .. Cardinality(rows) + 1
          /\ \A v, w \in rows \cup {new} : v.number = w.number => v = w
      BY <2>1, <3>2, <3>3, TitleGrows DEF TitleOK
    <3> QED BY <3>1, <3>3, <3>4 DEF TitleOK
  <2> QED BY <2>2, <2>3
<1>10. Paired'
  <2>1. \A r \in receipt : ~OfOneCommand(r, mine)
    <3> SUFFICES ASSUME NEW r \in receipt, OfOneCommand(r, mine) PROVE FALSE
      OBVIOUS
    <3>1. PICK v \in revision : OfOneCommand(v, r) BY <1>2 DEF PublishInv, Paired
    <3>2. v \in RevisionsOf(Title(c)) /\ v.number = call[c].number
      BY <1>4, <3>1 DEF OfOneCommand, RevisionsOf
    <3>3. PICK n \in Nat : n = Cardinality(RevisionsOf(Title(c)))
      BY <1>7, FS_CardinalityType DEF TitleOK
    <3>4. v.number \in 1 .. n BY <1>7, <3>2, <3>3 DEF TitleOK
    <3> QED BY <1>7, <3>2, <3>3, <3>4
  <2>2. \A r, s \in receipt' : OfOneCommand(r, s) => r = s
    <3>1. \A r, s : OfOneCommand(r, s) => OfOneCommand(s, r) BY DEF OfOneCommand
    <3> QED BY <1>2, <1>4, <2>1, <3>1 DEF PublishInv, Paired
  <2>3. OfOneCommand(new, mine) BY <1>4 DEF OfOneCommand
  <2>4. \A v \in revision' : v.title \in Titles /\ \E r \in receipt' : OfOneCommand(v, r)
    BY <1>2, <1>4, <1>5, <2>3 DEF PublishInv, Paired
  <2>5. \A r \in receipt' : \E v \in revision' : OfOneCommand(v, r)
    BY <1>2, <1>4, <2>3 DEF PublishInv, Paired
  <2> QED BY <2>2, <2>4, <2>5 DEF Paired, OfOneCommand
<1>11. /\ \A d \in Clients : Receipts(d) \subseteq Receipts(d)'
       /\ \A d \in Clients : ~SameReceipt(d, c) => Receipts(d)' = Receipts(d)
       /\ \A d \in Clients : Title(d)' = Title(d)
       /\ \A d, e \in Clients : SameReceipt(d, e)' = SameReceipt(d, e)
       /\ \A r : \A d \in Clients : IsReceiptOf(r, d)' = IsReceiptOf(r, d)
       /\ mine \in Receipts(c)' /\ IsReceiptOf(mine, c)'
  BY <1>3, <1>4 DEF Receipts, SameReceipt, Title, IsReceiptOf
<1>12. \A d \in AllClaims' : /\ Publishable(task'[d])
                             /\ Receipts(d)' = {}
                             /\ \A e \in AllClaims' \ {d} : ~SameReceipt(d, e)'
  BY <1>2, <1>3, <1>6, <1>11 DEF PublishInv
<1>13. \A d, e \in Claims({"number", "write"})' : Title(d)' = Title(e)' => d = e
  BY <1>2, <1>6, <1>11 DEF PublishInv
<1>14. ASSUME NEW d \in Claims({"write"})'
       PROVE  call'[d].number = Cardinality(RevisionsOf(Title(d))') + 1
  <2>1. d \in Claims({"write"}) /\ d # c /\ d \in Clients /\ call'[d] = call[d]
    BY <1>3, <1>6
  <2>2. Title(d) # Title(c) BY <1>2, <1>6, <2>1 DEF PublishInv
  <2>3. RevisionsOf(Title(d))' = RevisionsOf(Title(d))
    BY <1>3, <1>4, <2>2 DEF RevisionsOf, Title
  <2> QED BY <1>2, <2>1, <2>3 DEF PublishInv
<1>15. ASSUME NEW d \in Clients PROVE AnswerOK(d)'
  <2>1. CASE d # c
    <3>1. call'[d] = call[d] /\ AnswerOK(d) BY <1>2, <1>3, <2>1 DEF PublishInv
    <3> QED BY <1>3, <1>11, <3>1 DEF AnswerOK
  <2>2. CASE d = c BY <1>4, <1>11, <2>2 DEF AnswerOK
  <2> QED BY <2>1, <2>2
<1> QED BY <1>9, <1>10, <1>12, <1>13, <1>14, <1>15 DEF PublishInv, Publishable

(* A committed publication keeps the whole invariant. *)
LEMMA CommitKeeps ==
  ASSUME Inv, NEW c \in Clients, CommitPublication(c), UNCHANGED <<checkoutVars, subscriptionVars>>
  PROVE  Inv'
<1>1. /\ task[c].kind = "publish" /\ task' = task /\ call[c].at = "write"
      /\ Answers(c, {call[c].number}) \/ call' = [call EXCEPT ![c] = Nothing]
  BY DEF CommitPublication, Does
<1>2. CallsTyped BY DEF Inv
<1>3. /\ CallsTyped' /\ Others(c)
      /\ \/ call'[c].at = "done" /\ call'[c].answer = {call[c].number}
         \/ call'[c].at = "start" /\ call'[c].answer = {}
  <2>1. CASE Answers(c, {call[c].number}) BY <1>1, <1>2, <2>1, AnswersIs
  <2>2. CASE call' = [call EXCEPT ![c] = Nothing] BY <1>1, <1>2, <2>2, NothingIs
  <2> QED BY <1>1, <2>1, <2>2
<1>4. PublishInv' BY <1>3, CommitKeepsPublications
<1>5. PICK new, mine :
        /\ new.title = Title(c) /\ new.content = task[c].content
        /\ revision' = revision \cup {new}
  BY CommitIs
<1>6. /\ task[c] \in Tasks /\ Publishable(task[c])
  <2>1. c \in AllClaims BY <1>1 DEF AllClaims, Claims
  <2> QED BY <1>2, <2>1 DEF Inv, CallsTyped, PublishInv
<1>7. \A v \in RevisionsOf(Tariff)' : \A r, s \in v.content : r.feature = s.feature => r = s
  <2>1. new.title = Tariff => \A r, s \in new.content : r.feature = s.feature => r = s
    BY <1>5, <1>6 DEF Publishable, Title
  <2> QED BY <1>5, <2>1 DEF Inv, ChargeInv, RevisionsOf
<1>8. \A v \in revision' : v.title # Tariff => v.content.credit \in Nat
  <2>1. new.title # Tariff => new.content.credit \in Nat
    BY <1>1, <1>5, <1>6, TasksAssumption DEF Title
  <2> QED BY <1>5, <2>1 DEF Inv, PeriodInv
<1>9. UseOK(c)' /\ BuyOK(c)' BY <1>1 DEF UseOK, BuyOK
<1>10. UNCHANGED <<checkout, session, granted, credited, credit>>
  BY DEF checkoutVars, subscriptionVars
<1>11. ChargeInv' BY <1>3, <1>5, <1>7, <1>9, ChargeRests DEF Inv
<1>12. SessionInv' BY <1>3, <1>9, <1>10, SessionRests DEF Inv
<1>13. PeriodInv' BY <1>8, <1>10, PeriodRests DEF Inv
<1> QED BY <1>3, <1>4, <1>11, <1>12, <1>13 DEF Inv

-------------------------------------------------------------------------------
(***************************************************************************)
(* Checkouts.                                                              *)
(***************************************************************************)
(* What holds of the other parts when a buyer goes on. *)
LEMMA BuyerKeeps ==
  ASSUME Inv, NEW c \in Clients, task[c].kind = "buy", CallsTyped', Others(c), SessionInv',
         UNCHANGED <<revision, receipt, subscriptionVars>>
  PROVE  Inv'
<1>1. /\ \A v \in RevisionsOf(Tariff)' : \A r, s \in v.content : r.feature = s.feature => r = s
      /\ \A v \in revision' : v.title # Tariff => v.content.credit \in Nat
  BY DEF Inv, ChargeInv, PeriodInv, RevisionsOf
<1>2. UseOK(c)' BY DEF Others, UseOK
<1>3. UNCHANGED <<granted, credited, credit>> BY DEF subscriptionVars
<1>4. PublishInv' BY PublishRests DEF Inv
<1>5. ChargeInv' BY <1>1, <1>2, ChargeRests DEF Inv
<1>6. PeriodInv' BY <1>1, <1>3, PeriodRests DEF Inv
<1> QED BY <1>4, <1>5, <1>6 DEF Inv

(* A checkout is created with its key. *)
LEMMA CreateCheckoutKeeps ==
  ASSUME Inv, NEW c \in Clients, CreateCheckout(c), UNCHANGED subscriptionVars
  PROVE  Inv'
<1>1. /\ task[c].kind = "buy" /\ UNCHANGED <<task, revision, receipt, session>>
      /\ GoesOn(c, "created") \/ UNCHANGED call
  BY DEF CreateCheckout, Does
<1>2. CallsTyped /\ SessionInv BY DEF Inv
<1>3. /\ CallsTyped' /\ Others(c) /\ call'[c].at # "asking" /\ call'[c].answer = call[c].answer
  <2>1. CASE GoesOn(c, "created") BY <1>1, <1>2, <2>1, GoesOnIs
  <2>2. CASE UNCHANGED call
    <3>1. CallsTyped' BY <1>1, <1>2, <2>2 DEF CallsTyped
    <3>2. call'[c].at = "start"
      <4>1. call[c].at = "start" BY DEF CreateCheckout, Does
      <4> QED BY <2>2, <4>1
    <3> QED BY <1>1, <2>2, <3>1, <3>2 DEF Others
  <2> QED BY <1>1, <2>1, <2>2
<1>4. \/ checkout' = checkout
      \/ \E k : IsCheckout(k) /\ k.hosted = {} /\ checkout' = checkout \cup {k}
  <2>1. PICK k : k = [key |-> task[c].key, title |-> task[c].title, number |-> task[c].number,
                      content |-> task[c].content, expires |-> task[c].expires, hosted |-> {}]
    OBVIOUS
  <2>2. IsCheckout(k) /\ k.hosted = {} BY <2>1 DEF IsCheckout
  <2>3. checkout' = checkout \/ checkout' = checkout \cup {k} BY <2>1 DEF CreateCheckout
  <2> QED BY <2>2, <2>3
<1>5. /\ checkout \subseteq checkout'
      /\ \A k \in checkout' : IsCheckout(k) /\ (k.hosted = {} \/ k.hosted = {[key |-> k.key]})
  BY <1>2, <1>4 DEF SessionInv
<1>6. task' = task /\ \A d \in Clients \ {c} : call'[d] = call[d] BY <1>3 DEF Others
<1>7. \A d \in Clients : CheckoutsOf(d) \subseteq CheckoutsOf(d)'
  BY <1>5, <1>6 DEF CheckoutsOf
<1>8. ASSUME NEW d \in Clients PROVE BuyOK(d)'
  <2>1. BuyOK(d) BY <1>2 DEF SessionInv
  <2>2. call'[d].answer = call[d].answer /\ (call'[d].at = "asking" => call[d].at = "asking")
    BY <1>3, <1>6
  <2> QED BY <1>6, <1>7, <2>1, <2>2 DEF BuyOK
<1>9. SessionInv' BY <1>1, <1>2, <1>5, <1>8 DEF SessionInv, SessionOf, IsCheckout
<1> QED BY <1>1, <1>3, <1>9, BuyerKeeps

(* Who reads the checkout gets its session, or goes on to ask the provider. *)
LEMMA LockCheckoutKeeps ==
  ASSUME Inv, NEW c \in Clients, LockCheckout(c), UNCHANGED subscriptionVars
  PROVE  Inv'
<1>1. task[c].kind = "buy" /\ UNCHANGED <<task, revision, receipt, checkout, session>>
  BY DEF LockCheckout, Does
<1>2. CallsTyped /\ SessionInv BY DEF Inv
<1>3. PICK k \in CheckoutsOf(c) : (k.hosted # {} /\ Answers(c, k.hosted)) \/ GoesOn(c, "asking")
  BY DEF LockCheckout
<1>4. CheckoutsOf(c)' = CheckoutsOf(c) BY <1>1 DEF CheckoutsOf
<1>5. CASE k.hosted # {} /\ Answers(c, k.hosted)
  <2>1. CallsTyped' /\ Others(c) /\ call'[c].at = "done" /\ call'[c].answer = k.hosted
    BY <1>1, <1>2, <1>5, AnswersIs
  <2>2. k.hosted = {[key |-> k.key]} BY <1>2, <1>5 DEF SessionInv, CheckoutsOf
  <2>3. BuyOK(c)' BY <1>4, <2>1, <2>2 DEF BuyOK
  <2>4. SessionInv' BY <1>1, <1>2, <2>1, <2>3, SessionRests
  <2> QED BY <1>1, <2>1, <2>4, BuyerKeeps
<1>6. CASE GoesOn(c, "asking")
  <2>1. CallsTyped' /\ Others(c) /\ call'[c].at = "asking" /\ call'[c].answer = call[c].answer
    BY <1>1, <1>2, <1>6, GoesOnIs
  <2>2. BuyOK(c)' BY <1>1, <1>2, <1>4, <2>1 DEF BuyOK, SessionInv
  <2>3. SessionInv' BY <1>1, <1>2, <2>1, <2>2, SessionRests
  <2> QED BY <1>1, <2>1, <2>3, BuyerKeeps
<1> QED BY <1>3, <1>5, <1>6

(* The key that the session of a request is known by does not tell who asked. *)
LEMMA OpenSessionKeeps ==
  ASSUME Inv, NEW q \in asked, OpenSession(q), UNCHANGED subscriptionVars
  PROVE  Inv'
<1>1. /\ UNCHANGED <<task, call, revision, receipt, checkout, granted, credited, credit>>
      /\ session' = session \cup {SessionOf(q.key)}
  BY DEF OpenSession, SessionOf, IdempotencyKey, catalogVars, subscriptionVars
<1>2. SessionOf(q.key) = SessionOf(SessionOf(q.key).checkout) BY DEF SessionOf
<1>3. SessionInv'
  <2>1. \A s \in session' : s = SessionOf(s.checkout) BY <1>1, <1>2 DEF Inv, SessionInv
  <2>2. \A d \in Clients : BuyOK(d)' BY <1>1 DEF Inv, SessionInv, BuyOK, CheckoutsOf
  <2>3. \A k \in checkout' : IsCheckout(k) /\ (k.hosted = {} \/ k.hosted = {[key |-> k.key]})
    BY <1>1 DEF Inv, SessionInv
  <2> QED BY <2>1, <2>2, <2>3 DEF SessionInv, SessionOf, IsCheckout
<1>4. CallsTyped' /\ PublishInv' /\ ChargeInv' /\ PeriodInv' BY <1>1, OtherPartsKeep
<1> QED BY <1>3, <1>4 DEF Inv

(* The row that is given a session. *)
LEMMA HostedRow ==
  ASSUME NEW k, IsCheckout(k), NEW h, NEW m, m = [k EXCEPT !.hosted = h]
  PROVE  IsCheckout(m) /\ m.key = k.key /\ m.hosted = h
<1>1. m.key = k.key /\ m.hosted = h BY DEF IsCheckout
<1>2. DOMAIN m = DOMAIN k /\ m = [f \in DOMAIN m |-> m[f]] OBVIOUS
<1>3. DOMAIN m = {"key", "title", "number", "content", "expires", "hosted"}
  BY <1>2 DEF IsCheckout
<1>4. IsCheckout(m) BY <1>2, <1>3 DEF IsCheckout
<1> QED BY <1>1, <1>4

(* A session is saved with its checkout, or discarded. *)
LEMMA SaveSessionKeeps ==
  ASSUME Inv, NEW c \in Clients, SaveSession(c), UNCHANGED subscriptionVars
  PROVE  Inv'
<1>1. /\ task[c].kind = "buy" /\ call[c].at = "asking"
      /\ UNCHANGED <<task, revision, receipt, session>>
  BY DEF SaveSession, Does
<1>2. CallsTyped /\ SessionInv BY DEF Inv
<1>3. PICK s \in SessionsFor(c) :
        /\ checkout' = {IF k.key = task[c].key THEN [k EXCEPT !.hosted = {s.id}] ELSE k :
                          k \in checkout}
        /\ Answers(c, {s.id}) \/ GoesOn(c, "created")
  BY DEF SaveSession
<1>4. PICK id : id = s.id OBVIOUS
<1>5. id = [key |-> task[c].key] BY <1>4 DEF SessionsFor, IdempotencyKey
<1>6. /\ CallsTyped' /\ Others(c) /\ call'[c].at # "asking"
      /\ call'[c].answer = {id} \/ call'[c].answer = call[c].answer
  <2>1. CASE Answers(c, {s.id}) BY <1>1, <1>2, <1>4, <2>1, AnswersIs
  <2>2. CASE GoesOn(c, "created") BY <1>1, <1>2, <2>2, GoesOnIs
  <2> QED BY <1>3, <2>1, <2>2
<1>7. task' = task /\ \A d \in Clients \ {c} : call'[d] = call[d] BY <1>6 DEF Others
<1> DEFINE Saved(k) == IF k.key = task[c].key THEN [k EXCEPT !.hosted = {id}] ELSE k
<1>8. ASSUME NEW k \in checkout
      PROVE  /\ IsCheckout(Saved(k)) /\ Saved(k).key = k.key
             /\ Saved(k).hosted = {[key |-> k.key]} \/ (Saved(k).hosted = {} /\ k.hosted = {})
             /\ k.key = task[c].key => Saved(k).hosted = {id}
             /\ k.hosted # {} => Saved(k).hosted = k.hosted
  <2>1. IsCheckout(k) /\ (k.hosted = {} \/ k.hosted = {[key |-> k.key]})
    BY <1>2 DEF SessionInv
  <2>2. CASE k.key = task[c].key
    <3>1. PICK m : m = [k EXCEPT !.hosted = {id}] OBVIOUS
    <3>2. IsCheckout(m) /\ m.key = k.key /\ m.hosted = {id} BY <2>1, <3>1, HostedRow
    <3>3. Saved(k) = m BY <2>2, <3>1
    <3> HIDE <3>1 DEF Saved
    <3> QED BY <1>5, <2>1, <2>2, <3>2, <3>3
  <2>3. CASE k.key # task[c].key
    <3>1. Saved(k) = k BY <2>3
    <3> HIDE DEF Saved
    <3> QED BY <2>1, <2>3, <3>1
  <2> QED BY <2>2, <2>3
<1>9. checkout' = {Saved(k) : k \in checkout} BY <1>3, <1>4, Zenon
<1> HIDE DEF Saved
<1>10. \A m \in checkout' : IsCheckout(m) /\ (m.hosted = {} \/ m.hosted = {[key |-> m.key]})
  BY <1>8, <1>9
<1>11. ASSUME NEW d \in Clients, NEW k \in CheckoutsOf(d)
       PROVE  Saved(k) \in CheckoutsOf(d)'
  BY <1>7, <1>8, <1>9 DEF CheckoutsOf
<1>12. ASSUME NEW d \in Clients, task[d].kind = "buy" PROVE BuyOK(d)'
  <2>1. BuyOK(d) BY <1>2 DEF SessionInv
  <2>2. call'[d].at = "asking" => CheckoutsOf(d)' # {}
    BY <1>6, <1>7, <1>11, <1>12, <2>1 DEF BuyOK
  <2>3. ASSUME NEW a \in call'[d].answer PROVE \E k \in CheckoutsOf(d)' : k.hosted = {a}
    <3>1. CASE a \in call[d].answer
      <4>1. PICK k \in CheckoutsOf(d) : k.hosted = {a} BY <1>12, <2>1, <3>1 DEF BuyOK
      <4>2. Saved(k) \in CheckoutsOf(d)' BY <1>11
      <4>3. Saved(k).hosted = {a} BY <1>8, <4>1 DEF CheckoutsOf
      <4> QED BY <4>2, <4>3
    <3>2. CASE a \notin call[d].answer
      <4>1. d = c /\ a = id BY <1>6, <1>7, <2>3, <3>2
      <4>2. PICK k \in CheckoutsOf(d) : TRUE
        BY <1>1, <1>12, <2>1, <4>1 DEF BuyOK
      <4>3. Saved(k) \in CheckoutsOf(d)' BY <1>11
      <4>4. Saved(k).hosted = {id} BY <1>8, <4>1, <4>2 DEF CheckoutsOf
      <4> QED BY <4>1, <4>3, <4>4
    <3> QED BY <3>1, <3>2
  <2> QED BY <2>2, <2>3 DEF BuyOK
<1>13. \A d \in Clients : BuyOK(d)'
  BY <1>7, <1>12 DEF BuyOK
<1>14. SessionInv' BY <1>1, <1>2, <1>10, <1>13 DEF SessionInv, SessionOf, IsCheckout
<1> QED BY <1>1, <1>6, <1>14, BuyerKeeps

(* Every step of a checkout keeps the invariant. *)
LEMMA CheckoutKeeps ==
  ASSUME Inv, NEW c \in Clients, CheckoutStep(c), UNCHANGED subscriptionVars
  PROVE  Inv'
BY CreateCheckoutKeeps, LockCheckoutKeeps, SaveSessionKeeps DEF CheckoutStep

-------------------------------------------------------------------------------
(***************************************************************************)
(* Subscriptions.                                                          *)
(***************************************************************************)
(* What holds of the other parts when an event is worked on. *)
LEMMA EventKeeps ==
  ASSUME Inv, NEW c \in Clients, task[c].kind = "event", CallsTyped', Others(c), PeriodInv',
         UNCHANGED <<revision, receipt, checkout, session>>
  PROVE  Inv'
<1>1. \A v \in RevisionsOf(Tariff)' : \A r, s \in v.content : r.feature = s.feature => r = s
  BY DEF Inv, ChargeInv, RevisionsOf
<1>2. UseOK(c)' /\ BuyOK(c)' BY DEF Others, UseOK, BuyOK
<1>3. PublishInv' BY PublishRests DEF Inv
<1>4. ChargeInv' BY <1>1, <1>2, ChargeRests DEF Inv
<1>5. SessionInv' BY <1>2, SessionRests DEF Inv
<1> QED BY <1>3, <1>4, <1>5 DEF Inv

(* An event that cancels changes no credit. *)
LEMMA CancelKeeps ==
  ASSUME Inv, NEW c \in Clients, Cancel(c), UNCHANGED checkoutVars
  PROVE  Inv'
<1>1. /\ task[c].kind = "event" /\ GoesOn(c, "done")
      /\ UNCHANGED <<task, revision, receipt, checkout, session, granted, credited, credit>>
  BY DEF Cancel, Does, checkoutVars
<1>2. CallsTyped' /\ Others(c) BY <1>1, GoesOnIs DEF Inv
<1>3. \A v \in revision' : v.title # Tariff => v.content.credit \in Nat
  BY <1>1 DEF Inv, PeriodInv
<1>4. PeriodInv' BY <1>1, <1>3, PeriodRests DEF Inv
<1> QED BY <1>1, <1>2, <1>4, EventKeeps

(* An event reads the plan that its subscription names. *)
LEMMA ReadPlanKeeps ==
  ASSUME Inv, NEW c \in Clients, ReadPlan(c), UNCHANGED checkoutVars
  PROVE  Inv'
<1>1. /\ task[c].kind = "event"
      /\ UNCHANGED <<task, revision, receipt, checkout, session, granted, credited, credit>>
  BY DEF ReadPlan, Does, checkoutVars, subscriptionVars
<1>2. PICK v : call' = [call EXCEPT ![c].at = "plan", ![c].number = v.number]
  BY DEF ReadPlan
<1>3. PICK n : n = call[c] OBVIOUS
<1>4. IsCall(n) BY <1>3 DEF Inv, CallsTyped
<1>5. PICK w : w = [n EXCEPT !.at = "plan", !.number = v.number] OBVIOUS
<1>6. DOMAIN w = DOMAIN n /\ w = [f \in DOMAIN w |-> w[f]] BY <1>5
<1>7. IsCall(w) BY <1>4, <1>6, ChangedRow
<1>8. call' = [call EXCEPT ![c] = w] BY <1>2, <1>3, <1>5 DEF Inv, CallsTyped
<1>9. CallsTyped' /\ Others(c)
  <2> HIDE <1>2, <1>5
  <2> QED BY <1>1, <1>7, <1>8, RowChanges DEF Inv
<1>10. \A u \in revision' : u.title # Tariff => u.content.credit \in Nat
  BY <1>1 DEF Inv, PeriodInv
<1>11. PeriodInv' BY <1>1, <1>10, PeriodRests DEF Inv
<1> QED BY <1>1, <1>9, <1>11, EventKeeps

(* What one more entry adds to the sum of a journal. *)
LEMMA EntryCounts ==
  ASSUME NEW entries \in Seq([period : 0 .. MaxTime, credit : Nat]),
         NEW e \in [period : 0 .. MaxTime, credit : Nat],
         IsFiniteSet(Amounts!Units(DOMAIN entries, CreditsOf(entries))),
         NEW more, more = Append(entries, e)
  PROVE  /\ IsFiniteSet(Amounts!Units(DOMAIN more, CreditsOf(more)))
         /\ Amounts!Sum(DOMAIN more, CreditsOf(more)) =
              Amounts!Sum(DOMAIN entries, CreditsOf(entries)) + e.credit
<1> DEFINE n == Len(entries)
           U == Amounts!Units(DOMAIN entries, CreditsOf(entries))
           V == {n + 1} \X (1 .. e.credit)
<1>1. n \in Nat /\ e.credit \in Nat OBVIOUS
<1>2. /\ DOMAIN entries = 1 .. n /\ DOMAIN more = (1 .. n) \cup {n + 1}
      /\ \A i \in 1 .. n : more[i] = entries[i]
      /\ more[n + 1] = e
  OBVIOUS
<1>3. /\ \A i \in 1 .. n : CreditsOf(more)[i] = CreditsOf(entries)[i]
      /\ CreditsOf(more)[n + 1] = e.credit
  BY <1>2 DEF CreditsOf
<1> HIDE DEF n
<1>4. Amounts!Units(DOMAIN more, CreditsOf(more)) = U \cup V
  BY <1>2, <1>3 DEF Amounts!Units
<1>5. U \cap V = {}
  <2>1. \A p \in U : p[1] \in 1 .. n BY <1>2 DEF Amounts!Units
  <2>2. \A p \in V : p[1] = n + 1 OBVIOUS
  <2>3. n + 1 \notin 1 .. n BY <1>1
  <2> QED BY <2>1, <2>2, <2>3
<1>6. IsFiniteSet(V) /\ Cardinality(V) = e.credit
  <2> DEFINE S == {n + 1}
             T == 1 .. e.credit
  <2>1. IsFiniteSet(S) /\ Cardinality(S) = 1 BY FS_Singleton
  <2>2. IsFiniteSet(T) /\ Cardinality(T) = e.credit BY <1>1, FS_Interval
  <2>3. V = S \X T OBVIOUS
  <2> HIDE DEF S, T, V
  <2>4. IsFiniteSet(S \X T) /\ Cardinality(S \X T) = Cardinality(S) * Cardinality(T)
    BY <2>1, <2>2, FS_Product
  <2> QED BY <1>1, <2>1, <2>2, <2>3, <2>4
<1> HIDE DEF U, V
<1>7. IsFiniteSet(U) BY DEF U
<1>8. /\ IsFiniteSet(U \cup V)
      /\ Cardinality(U \cup V) = Cardinality(U) + Cardinality(V) - Cardinality({})
  BY <1>5, <1>6, <1>7, FS_Union
<1>9. Cardinality(U) \in Nat /\ Cardinality({}) = 0
  BY <1>7, FS_CardinalityType, FS_EmptySet
<1>10. Cardinality(U \cup V) = Cardinality(U) + e.credit BY <1>1, <1>6, <1>8, <1>9
<1>11. \A S : Amounts!Cardinality(S) = Cardinality(S)
  BY DEF Amounts!Cardinality, Cardinality
<1>12. /\ Amounts!Sum(DOMAIN more, CreditsOf(more)) = Cardinality(U \cup V)
       /\ Amounts!Sum(DOMAIN entries, CreditsOf(entries)) = Cardinality(U)
  BY <1>4, <1>11 DEF Amounts!Sum, U
<1> QED BY <1>4, <1>8, <1>10, <1>12

(* A period is credited by one event. *)
LEMMA GrantKeeps ==
  ASSUME PeriodInv, NEW p \in 0 .. MaxTime, NEW title, NEW micros \in Nat,
         GrantPeriod(p, title, micros), UNCHANGED revision
  PROVE  PeriodInv'
<1>1. PICK grant : grant = [period |-> p, title |-> title, credit |-> micros] OBVIOUS
<1>2. PICK entry : entry = [period |-> p, credit |-> micros] OBVIOUS
<1>3. /\ grant.period = p /\ grant.credit = micros /\ entry.period = p /\ entry.credit = micros
      /\ entry \in [period : 0 .. MaxTime, credit : Nat]
  BY <1>1, <1>2
<1>4. /\ granted' = granted \cup {grant}
      /\ Journaled(p) => UNCHANGED <<credited, credit>>
      /\ ~Journaled(p) => credited' = Append(credited, entry) /\ credit' = credit + micros
  BY <1>1, <1>2 DEF GrantPeriod, Journaled
<1> HIDE <1>1, <1>2
<1>5. \A v \in revision' : v.title # Tariff => v.content.credit \in Nat BY DEF PeriodInv
<1>6. CASE Journaled(p)
  <2>1. CreditsOf(credited') = CreditsOf(credited) BY <1>4, <1>6
  <2>2. IsInjective([i \in DOMAIN credited' |-> credited'[i].period])
    BY <1>4, <1>6 DEF PeriodInv, PeriodsAreCreditedOnce
  <2>3. \A i \in DOMAIN credited' : \E g \in granted' :
          g.period = credited'[i].period /\ g.credit = credited'[i].credit
    <3>1. \A i \in DOMAIN credited : \E g \in granted :
            g.period = credited[i].period /\ g.credit = credited[i].credit
      BY DEF PeriodInv, PeriodsAreCreditedOnce
    <3>2. granted \subseteq granted' BY <1>4
    <3>3. credited' = credited BY <1>4, <1>6
    <3> QED BY <3>1, <3>2, <3>3
  <2>4. credit' = AllCredited' BY <1>4, <1>6 DEF PeriodInv, PeriodsAreCreditedOnce, AllCredited
  <2>5. \A g \in granted' : \E i \in DOMAIN credited' : credited'[i].period = g.period
    <3>1. credited' = credited BY <1>4, <1>6
    <3>2. \A g \in granted : \E i \in DOMAIN credited' : credited'[i].period = g.period
      BY <3>1 DEF PeriodInv, PeriodsAreCreditedOnce
    <3>3. \E i \in DOMAIN credited' : credited'[i].period = grant.period
      BY <1>3, <1>6, <3>1 DEF Journaled
    <3>4. granted' = granted \cup {grant} BY <1>4
    <3> QED BY <3>2, <3>3, <3>4
  <2>6. PeriodsAreCreditedOnce'
    BY <2>2, <2>3, <2>4, <2>5 DEF PeriodsAreCreditedOnce, IsInjective
  <2> QED BY <1>4, <1>5, <1>6, <2>1, <2>6 DEF PeriodInv, CreditsOf
<1>7. CASE ~Journaled(p)
  <2> DEFINE n == Len(credited)
  <2>1. credited \in Seq([period : 0 .. MaxTime, credit : Nat]) BY DEF PeriodInv
  <2>2. credited' = Append(credited, entry) /\ credit' = credit + micros BY <1>4, <1>7
  <2>3. /\ n \in Nat /\ DOMAIN credited = 1 .. n /\ DOMAIN credited' = 1 .. n + 1
        /\ \A i \in 1 .. n : credited'[i] = credited[i]
        /\ credited'[n + 1] = entry
        /\ credited' \in Seq([period : 0 .. MaxTime, credit : Nat])
    BY <1>3, <2>1, <2>2
  <2> HIDE DEF n
  <2>4. \A i \in 1 .. n : credited[i].period # p BY <1>7, <2>3 DEF Journaled
  <2>5. \A i, j \in 1 .. n : credited[i].period = credited[j].period => i = j
    <3>1. PICK f : f = [i \in 1 .. n |-> credited[i].period] OBVIOUS
    <3>2. IsInjective(f) BY <2>3, <3>1 DEF PeriodInv, PeriodsAreCreditedOnce
    <3>3. DOMAIN f = 1 .. n /\ \A i \in 1 .. n : f[i] = credited[i].period BY <3>1
    <3> QED BY <3>2, <3>3 DEF IsInjective
  <2>6. \A i \in 1 .. n + 1 : i \in 1 .. n \/ i = n + 1 BY <2>3
  <2>7. \A i, j \in 1 .. n + 1 : credited'[i].period = credited'[j].period => i = j
    BY <1>3, <2>3, <2>4, <2>5, <2>6
  <2>8. IsInjective([i \in DOMAIN credited' |-> credited'[i].period])
    BY <2>3, <2>7 DEF IsInjective
  <2>9. \A i \in DOMAIN credited' : \E g \in granted' :
          g.period = credited'[i].period /\ g.credit = credited'[i].credit
    <3>1. \A i \in 1 .. n : \E g \in granted :
            g.period = credited[i].period /\ g.credit = credited[i].credit
      BY <2>3 DEF PeriodInv, PeriodsAreCreditedOnce
    <3>2. granted \subseteq granted' /\ grant \in granted' BY <1>4
    <3>3. \A i \in 1 .. n : \E g \in granted' :
            g.period = credited'[i].period /\ g.credit = credited'[i].credit
      BY <2>3, <3>1, <3>2
    <3>4. grant.period = credited'[n + 1].period /\ grant.credit = credited'[n + 1].credit
      BY <1>3, <2>3
    <3> QED BY <2>3, <2>6, <3>2, <3>3, <3>4
  <2>10. /\ IsFiniteSet(Amounts!Units(DOMAIN credited', CreditsOf(credited')))
         /\ Amounts!Sum(DOMAIN credited', CreditsOf(credited')) =
              Amounts!Sum(DOMAIN credited, CreditsOf(credited)) + micros
    <3>1. PICK more : more = credited' OBVIOUS
    <3> QED BY <1>3, <2>1, <2>2, <3>1, EntryCounts DEF PeriodInv
  <2>11. credit' = AllCredited'
    BY <2>2, <2>10 DEF PeriodInv, PeriodsAreCreditedOnce, AllCredited, CreditsOf
  <2>12. \A g \in granted' : \E i \in DOMAIN credited' : credited'[i].period = g.period
    <3>1. n + 1 \in 1 .. n + 1 /\ 1 .. n \subseteq 1 .. n + 1 BY <2>3
    <3>2. \A g \in granted : \E i \in 1 .. n : credited[i].period = g.period
      BY <2>3 DEF PeriodInv, PeriodsAreCreditedOnce
    <3>3. \A g \in granted : \E i \in 1 .. n + 1 : credited'[i].period = g.period
      BY <2>3, <3>1, <3>2
    <3>4. \E i \in 1 .. n + 1 : credited'[i].period = grant.period BY <1>3, <2>3, <3>1
    <3> QED BY <1>4, <2>3, <3>3, <3>4
  <2>13. PeriodsAreCreditedOnce'
    BY <2>8, <2>9, <2>11, <2>12 DEF PeriodsAreCreditedOnce, IsInjective
  <2> QED BY <1>5, <2>3, <2>10, <2>13 DEF PeriodInv, CreditsOf
<1> QED BY <1>6, <1>7

(* An event that is processed stands for its period. *)
LEMMA ProcessKeeps ==
  ASSUME Inv, NEW c \in Clients, ProcessSubscription(c), UNCHANGED checkoutVars
  PROVE  Inv'
<1>1. /\ task[c].kind = "event" /\ GoesOn(c, "done")
      /\ UNCHANGED <<task, revision, receipt, checkout, session>>
  BY DEF ProcessSubscription, Does, checkoutVars
<1>2. CallsTyped' /\ Others(c) BY <1>1, GoesOnIs DEF Inv
<1>3. task[c].title # Tariff /\ task[c].period \in 0 .. MaxTime
  <2>1. task[c] \in Tasks BY DEF Inv, CallsTyped
  <2> QED BY <1>1, <2>1, TasksAssumption
<1>4. PICK v \in RevisionsOf(task[c].title) :
        \/ UNCHANGED <<granted, credited, credit>>
        \/ GrantPeriod(task[c].period, v.title, v.content.credit)
  BY DEF ProcessSubscription
<1>5. v.content.credit \in Nat BY <1>3 DEF Inv, PeriodInv, RevisionsOf
<1>6. PeriodInv'
  <2>1. CASE UNCHANGED <<granted, credited, credit>>
    <3>1. \A u \in revision' : u.title # Tariff => u.content.credit \in Nat
      BY <1>1 DEF Inv, PeriodInv
    <3> QED BY <2>1, <3>1, PeriodRests DEF Inv
  <2>2. CASE GrantPeriod(task[c].period, v.title, v.content.credit)
    BY <1>1, <1>3, <1>5, <2>2, GrantKeeps DEF Inv
  <2> QED BY <1>4, <2>1, <2>2
<1> QED BY <1>1, <1>2, <1>6, EventKeeps

(* Every step of a subscription keeps the invariant. *)
LEMMA SubscriptionKeeps ==
  ASSUME Inv, NEW c \in Clients, SubscriptionStep(c), UNCHANGED checkoutVars
  PROVE  Inv'
BY CancelKeeps, ReadPlanKeeps, ProcessKeeps DEF SubscriptionStep

-------------------------------------------------------------------------------
(***************************************************************************)
(* All steps together.                                                     *)
(***************************************************************************)
LEMMA CatalogKeeps ==
  ASSUME Inv, NEW c \in Clients, CatalogStep(c), UNCHANGED <<checkoutVars, subscriptionVars>>
  PROVE  Inv'
BY ReplayKeeps, LockTitleKeeps, NumberKeeps, CommitKeeps, ListPageKeeps, QuoteKeeps,
   QuoteForHoldKeeps, FailCallKeeps DEF CatalogStep

(* Every step of the commerce parts keeps the invariant. *)
LEMMA NextKeeps ==
  ASSUME Inv, [Next]_vars
  PROVE  Inv'
<1>1. CASE Tick /\ UNCHANGED <<checkoutVars, subscriptionVars>>
  BY <1>1, UnchangedKeeps DEF Tick, checkoutVars, subscriptionVars
<1>2. CASE (\E c \in Clients : CatalogStep(c)) /\ UNCHANGED <<checkoutVars, subscriptionVars>>
  BY <1>2, CatalogKeeps
<1>3. CASE (\E c \in Clients : CheckoutStep(c)) /\ UNCHANGED subscriptionVars
  BY <1>3, CheckoutKeeps
<1>4. CASE (\E q \in asked : OpenSession(q)) /\ UNCHANGED subscriptionVars
  BY <1>4, OpenSessionKeeps
<1>5. CASE (\E c \in Clients : SubscriptionStep(c)) /\ UNCHANGED checkoutVars
  BY <1>5, SubscriptionKeeps
<1>6. CASE UNCHANGED vars
  BY <1>6, UnchangedKeeps DEF vars, catalogVars, checkoutVars, subscriptionVars
<1> QED BY <1>1, <1>2, <1>3, <1>4, <1>5, <1>6 DEF Next

(* Empty tables satisfy the invariant. *)
LEMMA InitHolds ==
  ASSUME Init
  PROVE  Inv
<1>1. task \in [Clients -> Tasks] /\ call = [c \in Clients |-> Nothing]
  BY DEF Init, CatalogInit
<1>2. revision = {} /\ receipt = {} /\ checkout = {} /\ session = {}
  BY DEF Init, CatalogInit, CheckoutsInit
<1>3. granted = {} /\ credited = <<>> /\ credit = 0 BY DEF Init, SubscriptionsInit
<1>4. /\ IsCall(Nothing) /\ Nothing.at = "start" /\ Nothing.answer = {}
  BY DEF Nothing, IsCall
<1>5. \A c \in Clients : call[c] = Nothing BY <1>1
<1>6. CallsTyped
  <2>1. DOMAIN call = Clients /\ call = [c \in Clients |-> call[c]] BY <1>1
  <2> HIDE <1>1
  <2>2. \A c \in Clients : IsCall(call[c]) BY <1>4, <1>5
  <2>3. task \in [Clients -> Tasks] BY <1>1
  <2> QED BY <2>1, <2>2, <2>3 DEF CallsTyped
<1>7. \A c \in Clients : call[c].at = "start" /\ call[c].answer = {} BY <1>4, <1>5
<1>8. PublishInv
  <2>1. \A title : RevisionsOf(title) = {} BY <1>2 DEF RevisionsOf
  <2>2. Cardinality({}) = 0 /\ IsFiniteSet({}) BY FS_EmptySet
  <2>3. \A title : TitleOK(title)
    <3>1. 1 .. 0 = {} OBVIOUS
    <3> QED BY <2>1, <2>2, <3>1 DEF TitleOK
  <2>4. Paired BY <1>2 DEF Paired
  <2>5. AllClaims = {} /\ Claims({"number", "write"}) = {} /\ Claims({"write"}) = {}
    BY <1>7 DEF AllClaims, Claims
  <2>6. \A c \in Clients : AnswerOK(c) BY <1>7 DEF AnswerOK
  <2> QED BY <2>3, <2>4, <2>5, <2>6 DEF PublishInv
<1>9. ChargeInv BY <1>2, <1>7 DEF ChargeInv, RevisionsOf, UseOK
<1>10. SessionInv BY <1>2, <1>7 DEF SessionInv, BuyOK
<1>11. PeriodInv
  <2>1. credited \in Seq([period : 0 .. MaxTime, credit : Nat]) /\ DOMAIN credited = {}
    BY <1>3
  <2>2. Amounts!Units(DOMAIN credited, CreditsOf(credited)) = {} BY <2>1 DEF Amounts!Units
  <2>3. IsFiniteSet({}) /\ Cardinality({}) = 0 BY FS_EmptySet
  <2>4. AllCredited = 0
    <3>1. Amounts!Units(DOMAIN credited, [i \in DOMAIN credited |-> credited[i].credit]) = {}
      BY <2>1 DEF Amounts!Units
    <3>2. Amounts!Cardinality({}) = Cardinality({}) BY DEF Amounts!Cardinality, Cardinality
    <3> QED BY <2>3, <3>1, <3>2 DEF AllCredited, Amounts!Sum
  <2>5. IsInjective([i \in DOMAIN credited |-> credited[i].period]) BY <2>1 DEF IsInjective
  <2>6. PeriodsAreCreditedOnce BY <1>3, <2>1, <2>4, <2>5 DEF PeriodsAreCreditedOnce
  <2> QED BY <1>2, <2>1, <2>2, <2>3, <2>6 DEF PeriodInv
<1> QED BY <1>6, <1>8, <1>9, <1>10, <1>11 DEF Inv

(***************************************************************************)
(* The four parts of the invariant hold in every state: of publications,   *)
(* charges, sessions and periods.                                          *)
(***************************************************************************)
THEOREM Invariant == Spec => []Inv
<1>1. Init => Inv BY InitHolds
<1>2. Inv /\ [Next]_vars => Inv' BY NextKeeps
<1> QED BY <1>1, <1>2, PTL DEF Spec

(***************************************************************************)
(* The revisions of a title are numbered without gaps, each is the work of *)
(* one receipt, and every answer to a publication names the revision of    *)
(* its receipt (publishPlan, publish).                                     *)
(***************************************************************************)
THEOREM PublicationsAlwaysActOnce == Spec => []PublicationsActOnce
<1>1. Inv => PublicationsActOnce
  <2> SUFFICES ASSUME Inv PROVE PublicationsActOnce
    OBVIOUS
  <2>1. PublishInv BY DEF Inv
  <2>2. ASSUME NEW v \in revision
        PROVE  Cardinality({r \in receipt : r.title = v.title /\ r.number = v.number}) = 1
    <3>1. PICK r \in receipt : OfOneCommand(v, r) BY <2>1 DEF PublishInv, Paired
    <3>2. \A s \in receipt : s.title = v.title /\ s.number = v.number => s = r
      BY <2>1, <3>1 DEF PublishInv, Paired, OfOneCommand
    <3>3. {s \in receipt : s.title = v.title /\ s.number = v.number} = {r}
      BY <3>1, <3>2 DEF OfOneCommand
    <3> QED BY <3>3, FS_Singleton
  <2>3. ASSUME NEW title \in {v.title : v \in revision}
        PROVE  /\ {v.number : v \in RevisionsOf(title)} = 1 .. Cardinality(RevisionsOf(title))
               /\ \A v \in RevisionsOf(title) :
                    Cardinality({r \in receipt : r.title = title /\ r.number = v.number}) = 1
    <3>1. title \in Titles BY <2>1 DEF PublishInv, Paired
    <3>2. TitleOK(title) BY <2>1, <3>1 DEF PublishInv
    <3>3. ASSUME NEW v \in RevisionsOf(title)
          PROVE  Cardinality({r \in receipt : r.title = title /\ r.number = v.number}) = 1
      BY <2>2 DEF RevisionsOf
    <3> QED BY <3>2, <3>3 DEF TitleOK
  <2>4. \A c \in Clients : AnswerOK(c) BY <2>1 DEF PublishInv
  <2> QED BY <2>3, <2>4 DEF PublicationsActOnce, AnswerOK
<1> QED BY <1>1, Invariant, PTL

(***************************************************************************)
(* Usage is charged what it was quoted, whatever is published in between   *)
(* (quote, quoteForHold).                                                  *)
(***************************************************************************)
THEOREM UsageAlwaysIsChargedAsQuoted == Spec => []ChargedAsQuoted
<1>1. Inv => ChargedAsQuoted BY DEF Inv, ChargeInv, UseOK, ChargedAsQuoted
<1> QED BY <1>1, Invariant, PTL

(***************************************************************************)
(* The provider has one session for a checkout at most, and whoever was    *)
(* given a session was given the one in the row (createHostedSession).     *)
(***************************************************************************)
THEOREM CheckoutsAlwaysHaveOneSession == Spec => []OneSessionPerCheckout
<1>1. Inv => OneSessionPerCheckout
  <2> SUFFICES ASSUME Inv PROVE OneSessionPerCheckout
    OBVIOUS
  <2>1. SessionInv BY DEF Inv
  <2>2. ASSUME NEW k \in checkout
        PROVE  Cardinality({s \in session : s.checkout = k.key}) <= 1
    <3>1. PICK S : S = {s \in session : s.checkout = k.key} OBVIOUS
    <3>2. S \subseteq {SessionOf(k.key)} BY <2>1, <3>1 DEF SessionInv
    <3>3. IsFiniteSet({SessionOf(k.key)}) /\ Cardinality({SessionOf(k.key)}) = 1
      BY FS_Singleton
    <3>4. Cardinality(S) <= 1 BY <3>2, <3>3, FS_Subset
    <3> QED BY <3>1, <3>4
  <2>3. \A c \in Clients : BuyOK(c) BY <2>1 DEF SessionInv
  <2> QED BY <2>2, <2>3 DEF OneSessionPerCheckout, BuyOK
<1> QED BY <1>1, Invariant, PTL

(***************************************************************************)
(* A period is credited once, and the account has what the journal says    *)
(* (processSubscription, grant).                                           *)
(***************************************************************************)
THEOREM PeriodsAreAlwaysCreditedOnce == Spec => []PeriodsAreCreditedOnce
<1>1. Inv => PeriodsAreCreditedOnce BY DEF Inv, PeriodInv
<1> QED BY <1>1, Invariant, PTL

-------------------------------------------------------------------------------
(***************************************************************************)
(* Listings. The pages of a listing are revisions in the order of their    *)
(* offers; a plan that was there when it began has been listed, or comes   *)
(* after the last of them.                                                 *)
(***************************************************************************)
Plans == {v \in revision : v.title # Tariff}

InOrder(rows) == \A i, j \in DOMAIN rows : i < j => rows[i].title < rows[j].title

ListedIn(rows, v) == \E i \in DOMAIN rows : rows[i].title = v.title

ListOK(c) ==
  task[c].kind = "list" =>
    /\ call[c].pages \in Seq(Plans) /\ InOrder(call[c].pages)
    /\ call[c].at = "start" => call[c].pages = <<>>
    /\ call[c].at = "page" => call[c].pages # <<>>
    /\ call[c].known \subseteq Plans
    /\ \A v \in call[c].known :
         \/ ListedIn(call[c].pages, v)
         \/ call[c].at = "page" /\ Last(call[c].pages).title < v.title

Listings == IsFiniteSet(revision) /\ \A c \in Clients : ListOK(c)

(* The rows that come before a row: how many, tells them apart. *)
LEMMA RanksOfRows ==
  ASSUME NEW W, IsFiniteSet(W), \A v \in W : v.title \in Nat,
         \A v, w \in W : v.title = w.title => v = w
  PROVE  LET rank == [v \in W |-> Cardinality({w \in W : w.title < v.title})]
         IN  /\ \A v \in W : rank[v] \in 0 .. Cardinality(W) - 1
             /\ {rank[v] : v \in W} = 0 .. Cardinality(W) - 1
             /\ \A v, w \in W : v.title < w.title => rank[v] < rank[w]
             /\ \A v, w \in W : rank[v] = rank[w] => v = w
<1> DEFINE below(v) == {w \in W : w.title < v.title}
           rank == [v \in W |-> Cardinality({w \in W : w.title < v.title})]
           T == 0 .. Cardinality(W) - 1
<1>1. Cardinality(W) \in Nat BY FS_CardinalityType
<1>2. ASSUME NEW v \in W
      PROVE  /\ rank[v] = Cardinality(below(v)) /\ rank[v] \in Nat
             /\ rank[v] < Cardinality(W)
  <2>1. below(v) \in SUBSET W /\ v \notin below(v) /\ rank[v] = Cardinality(below(v)) OBVIOUS
  <2> HIDE DEF below, rank
  <2>2. /\ IsFiniteSet(below(v)) /\ Cardinality(below(v)) <= Cardinality(W)
        /\ (Cardinality(W) = Cardinality(below(v)) => W = below(v))
    BY <2>1, FS_Subset
  <2>3. Cardinality(below(v)) \in Nat BY <2>2, FS_CardinalityType
  <2> QED BY <1>1, <2>1, <2>2, <2>3
<1>3. ASSUME NEW v \in W, NEW w \in W, v.title < w.title PROVE rank[v] < rank[w]
  <2>1. /\ below(v) \in SUBSET below(w) /\ v \in below(w) /\ v \notin below(v)
        /\ below(w) \in SUBSET W
    <3>1. v.title \in Nat /\ w.title \in Nat /\ v.title < w.title BY <1>3
    <3>2. \A u \in W : u.title < v.title => u.title < w.title
      <4> TAKE u \in W
      <4>1. u.title \in Nat OBVIOUS
      <4> QED BY <3>1, <4>1
    <3>3. ~(v.title < v.title) BY <3>1
    <3> QED BY <1>3, <3>2, <3>3, Zenon
  <2> HIDE DEF below, rank
  <2>2. IsFiniteSet(below(w)) BY <2>1, FS_Subset
  <2>3. /\ Cardinality(below(v)) <= Cardinality(below(w))
        /\ (Cardinality(below(w)) = Cardinality(below(v)) => below(w) = below(v))
    BY <2>1, <2>2, FS_Subset
  <2> QED BY <1>2, <2>1, <2>3
<1>4. ASSUME NEW v \in W, NEW w \in W, rank[v] = rank[w] PROVE v = w
  <2>1. rank[v] \in Nat /\ rank[w] \in Nat BY <1>2
  <2>2. v.title \in Nat /\ w.title \in Nat OBVIOUS
  <2> HIDE DEF rank
  <2> QED BY <1>3, <1>4, <2>1, <2>2
<1>5. \A v \in W : rank[v] \in T
  <2> TAKE v \in W
  <2>1. rank[v] \in Nat /\ rank[v] < Cardinality(W) BY <1>2
  <2> HIDE DEF rank
  <2> QED BY <1>1, <2>1
<1>6. rank \in Injection(W, T)
  <2>1. rank \in [W -> T] BY <1>5
  <2> HIDE DEF rank, T
  <2> QED BY <1>4, <2>1 DEF Injection, IsInjective
<1>7. IsFiniteSet(T) /\ Cardinality(T) = Cardinality(W)
  <2>1. /\ IsFiniteSet(0 .. Cardinality(W) - 1)
        /\ Cardinality(0 .. Cardinality(W) - 1)
             = IF 0 > Cardinality(W) - 1 THEN 0 ELSE Cardinality(W) - 1 - 0 + 1
    BY <1>1, FS_Interval
  <2> QED BY <1>1, <2>1
<1>8. rank \in Surjection(W, T) BY <1>6, <1>7, FS_Injection
<1>9. {rank[v] : v \in W} = T
  <2> HIDE DEF rank, T
  <2> QED BY <1>5, <1>8 DEF Surjection
<1> QED BY <1>3, <1>4, <1>5, <1>9

(* The first rows are in the order of their offers, and the others come after them. *)
LEMMA FirstRowsAre ==
  ASSUME NEW W, IsFiniteSet(W), \A v \in W : v.title \in Nat,
         \A v, w \in W : v.title = w.title => v = w,
         NEW n \in Nat, n <= Cardinality(W)
  PROVE  /\ FirstRows(W, n) \in Seq(W) /\ Len(FirstRows(W, n)) = n
         /\ InOrder(FirstRows(W, n))
         /\ \A v \in W : \/ \E i \in 1 .. n : FirstRows(W, n)[i] = v
                         \/ /\ n # Cardinality(W)
                            /\ \A i \in 1 .. n : FirstRows(W, n)[i].title < v.title
<1> DEFINE rank == [v \in W |-> Cardinality({w \in W : w.title < v.title})]
<1>1. PICK rows : rows = FirstRows(W, n) OBVIOUS
<1>2. Cardinality(W) \in Nat BY FS_CardinalityType
<1>3. /\ \A v \in W : rank[v] \in 0 .. Cardinality(W) - 1
      /\ {rank[v] : v \in W} = 0 .. Cardinality(W) - 1
      /\ \A v, w \in W : v.title < w.title => rank[v] < rank[w]
      /\ \A v, w \in W : rank[v] = rank[w] => v = w
  <2> HIDE DEF rank
  <2> QED BY RanksOfRows DEF rank
<1>4. \A v \in W : Cardinality({w \in W : w.title < v.title}) = rank[v] OBVIOUS
<1> HIDE DEF rank
<1>5. rows = [i \in 1 .. n |->
                CHOOSE v \in W : Cardinality({w \in W : w.title < v.title}) = i - 1]
  BY <1>1 DEF FirstRows
<1>6. ASSUME NEW i \in 1 .. n PROVE rows[i] \in W /\ rank[rows[i]] = i - 1
  <2>1. i - 1 \in 0 .. Cardinality(W) - 1 BY <1>2
  <2>2. PICK v \in W : rank[v] = i - 1 BY <1>3, <2>1
  <2>3. \E w \in W : Cardinality({u \in W : u.title < w.title}) = i - 1 BY <1>4, <2>2
  <2>4. rows[i] = CHOOSE w \in W : Cardinality({u \in W : u.title < w.title}) = i - 1
    BY <1>5
  <2>5. rows[i] \in W /\ Cardinality({u \in W : u.title < rows[i].title}) = i - 1
    BY <2>3, <2>4
  <2> QED BY <1>4, <2>5
<1>7. DOMAIN rows = 1 .. n /\ rows \in Seq(W) /\ Len(rows) = n
  <2>1. rows \in [1 .. n -> W] BY <1>5, <1>6
  <2> QED BY <2>1
<1> HIDE <1>5
<1>8. \A v, w \in W : rank[v] < rank[w] => v.title < w.title
  <2> SUFFICES ASSUME NEW v \in W, NEW w \in W, rank[v] < rank[w] PROVE v.title < w.title
    OBVIOUS
  <2>1. v.title \in Nat /\ w.title \in Nat /\ rank[v] \in Int /\ rank[w] \in Int BY <1>2, <1>3
  <2>2. CASE w.title < v.title
    <3>1. rank[w] < rank[v] BY <1>3, <2>2
    <3> QED BY <2>1, <3>1
  <2>3. CASE w.title = v.title
    <3>1. v = w BY <2>3
    <3> QED BY <2>1, <3>1
  <2> QED BY <2>1, <2>2, <2>3
<1>9. InOrder(rows)
  <2> SUFFICES ASSUME NEW i \in 1 .. n, NEW j \in 1 .. n, i < j
               PROVE  rows[i].title < rows[j].title
    BY <1>7 DEF InOrder
  <2>1. rank[rows[i]] < rank[rows[j]] BY <1>6
  <2> QED BY <1>6, <1>8, <2>1
<1>10. ASSUME NEW v \in W
       PROVE  \/ \E i \in 1 .. n : rows[i] = v
              \/ n # Cardinality(W) /\ \A i \in 1 .. n : rows[i].title < v.title
  <2>1. PICK r \in 0 .. Cardinality(W) - 1 : r = rank[v] BY <1>3
  <2>2. CASE r < n
    <3>1. r + 1 \in 1 .. n BY <1>2, <2>2
    <3>2. rows[r + 1] \in W /\ rank[rows[r + 1]] = r BY <1>6, <3>1
    <3> QED BY <1>3, <2>1, <3>1, <3>2
  <2>3. CASE ~(r < n)
    <3>1. n # Cardinality(W) BY <1>2, <2>3
    <3>2. ASSUME NEW i \in 1 .. n PROVE rows[i].title < v.title
      <4>1. rank[rows[i]] < rank[v] BY <1>2, <1>6, <2>1, <2>3
      <4> QED BY <1>6, <1>8, <4>1
    <3> QED BY <3>1, <3>2
  <2> QED BY <2>2, <2>3
<1>11. rows = FirstRows(W, n) BY <1>1
<1> QED BY <1>7, <1>9, <1>10, <1>11

(* Publications leave of a listing what they find. *)
LEMMA ListingRests ==
  ASSUME NEW c \in Clients, ListOK(c), task'[c] = task[c], call'[c] = call[c],
         revision \subseteq revision'
  PROVE  ListOK(c)'
<1>1. Plans \subseteq Plans' BY DEF Plans
<1>2. PICK pages : pages = call[c].pages OBVIOUS
<1>3. pages \in Seq(Plans) => pages \in Seq(Plans')
  <2> SUFFICES ASSUME pages \in Seq(Plans) PROVE pages \in Seq(Plans')
    OBVIOUS
  <2>1. PICK n \in Nat : pages \in [1 .. n -> Plans] OBVIOUS
  <2>2. pages \in [1 .. n -> Plans'] BY <1>1, <2>1
  <2> QED BY <2>2
<1>4. /\ call[c].pages \in Seq(Plans) => call[c].pages \in Seq(Plans')
      /\ \A v : ListedIn(call'[c].pages, v) = ListedIn(call[c].pages, v)
      /\ InOrder(call'[c].pages) = InOrder(call[c].pages)
  BY <1>2, <1>3
<1> QED BY <1>1, <1>4 DEF ListOK

(* A client that begins again has listed nothing. *)
LEMMA NothingIsListed ==
  ASSUME NEW c \in Clients, call'[c] = Nothing
  PROVE  ListOK(c)'
<1>1. PICK n : n = Nothing OBVIOUS
<1>2. n.at = "start" /\ n.pages = <<>> /\ n.known = {} BY <1>1 DEF Nothing
<1>3. n.pages \in Seq(Plans') /\ InOrder(n.pages) BY <1>2 DEF InOrder
<1>4. call'[c] = n BY <1>1
<1> HIDE <1>1
<1> QED BY <1>2, <1>3, <1>4 DEF ListOK

(* What the rows are that a page is taken from: newest plans of offers not listed yet. *)
LEMMA RowsToCome ==
  ASSUME Inv, Listings, NEW c \in Clients, task[c].kind = "list",
         NEW rows, rows = Remaining(call[c].pages)
  PROVE  /\ rows \subseteq Plans /\ IsFiniteSet(rows)
         /\ \A v \in rows : v.title \in Nat
         /\ \A v, w \in rows : v.title = w.title => v = w
         /\ call[c].pages # <<>> => \A v \in rows : Last(call[c].pages).title < v.title
         /\ \A k \in Plans :
              call[c].pages = <<>> \/ Last(call[c].pages).title < k.title
                => \E v \in rows : v.title = k.title
<1>1. PublishInv /\ ListOK(c) /\ IsFiniteSet(revision) BY DEF Inv, Listings
<1>2. /\ \A v \in revision : v.title \in Titles
      /\ \A title \in Titles : title \in Nat /\ TitleOK(title)
  BY <1>1, TasksAssumption DEF PublishInv, Paired, Titles
<1>3. rows \subseteq Newest BY DEF Remaining
<1>4. Newest \subseteq revision /\ Newest \subseteq Plans BY DEF Newest, Plans
<1>5. IsFiniteSet(rows) BY <1>1, <1>3, <1>4, FS_Subset
<1>6. ASSUME NEW v \in revision
      PROVE  v.title \in Nat /\ v.number \in Nat /\ v \in RevisionsOf(v.title)
  <2>1. v \in RevisionsOf(v.title) BY DEF RevisionsOf
  <2>2. TitleOK(v.title) /\ v.title \in Nat BY <1>2
  <2>3. Cardinality(RevisionsOf(v.title)) \in Nat BY <2>2, FS_CardinalityType DEF TitleOK
  <2>4. v.number \in 1 .. Cardinality(RevisionsOf(v.title)) BY <2>1, <2>2 DEF TitleOK
  <2> QED BY <2>1, <2>2, <2>3, <2>4
<1>7. ASSUME NEW v \in Newest, NEW w \in revision, v.title = w.title PROVE w.number <= v.number
  <2>1. w \in RevisionsOf(v.title) BY <1>7 DEF RevisionsOf
  <2> QED BY <2>1 DEF Newest
<1>8. ASSUME NEW v \in Newest, NEW w \in Newest, v.title = w.title PROVE v = w
  <2>1. v.number <= w.number /\ w.number <= v.number BY <1>4, <1>7, <1>8
  <2>2. v.number = w.number BY <1>4, <1>6, <2>1
  <2>3. TitleOK(v.title) /\ v \in RevisionsOf(v.title) /\ w \in RevisionsOf(v.title)
    BY <1>2, <1>4, <1>6, <1>8
  <2> QED BY <2>2, <2>3 DEF TitleOK
<1>9. call[c].pages # <<>> => Last(call[c].pages) \in Plans
  <2>1. PICK pages : pages = call[c].pages OBVIOUS
  <2>2. pages \in Seq(Plans) BY <1>1, <2>1 DEF ListOK
  <2>3. pages # <<>> => pages[Len(pages)] \in Plans BY <2>2
  <2> QED BY <2>1, <2>3 DEF Last
<1>10. PICK last : last = Last(call[c].pages) OBVIOUS
<1>11. ASSUME call[c].pages # <<>>, NEW v \in rows PROVE last.title < v.title
  <2>1. last \in revision BY <1>9, <1>10, <1>11 DEF Plans
  <2>2. Follows(v, last) BY <1>10, <1>11 DEF Remaining
  <2>3. v \in Newest /\ v \in revision BY <1>3, <1>4
  <2>4. v.title = last.title => last.number <= v.number BY <1>7, <2>1, <2>3
  <2>5. /\ v.title \in Nat /\ v.number \in Nat
        /\ last.title \in Nat /\ last.number \in Nat
    BY <1>6, <2>1, <2>3
  <2> QED BY <2>2, <2>4, <2>5 DEF Follows
<1>12. ASSUME NEW k \in Plans PROVE \E v \in Newest : v.title = k.title
  <2>1. k \in revision /\ k.title # Tariff BY DEF Plans
  <2>2. TitleOK(k.title) /\ k \in RevisionsOf(k.title) BY <1>2, <1>6, <2>1
  <2>3. PICK n \in Nat : n = Cardinality(RevisionsOf(k.title))
    BY <2>2, FS_CardinalityType DEF TitleOK
  <2>4. {v.number : v \in RevisionsOf(k.title)} = 1 .. n BY <2>2, <2>3 DEF TitleOK
  <2>5. k.number \in 1 .. n BY <2>2, <2>4
  <2>6. n \in 1 .. n BY <2>5
  <2>7. PICK v \in RevisionsOf(k.title) : v.number = n BY <2>4, <2>6
  <2>8. \A w \in RevisionsOf(k.title) : w.number <= v.number BY <2>4, <2>7
  <2>9. v \in revision /\ v.title = k.title BY DEF RevisionsOf
  <2> QED BY <2>1, <2>8, <2>9 DEF Newest
<1>13. ASSUME NEW k \in Plans, call[c].pages = <<>> \/ last.title < k.title
       PROVE  \E v \in rows : v.title = k.title
  <2>1. PICK v \in Newest : v.title = k.title BY <1>12
  <2>2. call[c].pages # <<>> => Follows(v, Last(call[c].pages))
    BY <1>10, <1>13, <2>1 DEF Follows
  <2>3. v \in rows BY <2>1, <2>2 DEF Remaining
  <2> QED BY <2>1, <2>3
<1> QED BY <1>3, <1>4, <1>5, <1>6, <1>8, <1>10, <1>11, <1>13

(* One sequence after another. *)
LEMMA Joined ==
  ASSUME NEW S, NEW p \in Seq(S), NEW q \in Seq(S)
  PROVE  /\ p \o q \in Seq(S)
         /\ DOMAIN (p \o q) = 1 .. Len(p) + Len(q) /\ Len(p \o q) = Len(p) + Len(q)
         /\ \A i \in 1 .. Len(p) + Len(q) :
              (p \o q)[i] = IF i <= Len(p) THEN p[i] ELSE q[i - Len(p)]
OBVIOUS

(* Two sequences in order, where the second goes on from the last of the first. *)
LEMMA PagesFollow ==
  ASSUME NEW S, \A v \in S : v.title \in Nat,
         NEW p \in Seq(S), NEW q \in Seq(S), InOrder(p), InOrder(q),
         p # <<>> => \A i \in DOMAIN q : Last(p).title < q[i].title
  PROVE  p \o q \in Seq(S) /\ InOrder(p \o q)
<1>1. PICK m \in Nat, n \in Nat : m = Len(p) /\ n = Len(q) OBVIOUS
<1>2. /\ p \o q \in Seq(S) /\ DOMAIN p = 1 .. m /\ DOMAIN q = 1 .. n
      /\ DOMAIN (p \o q) = 1 .. m + n
      /\ \A i \in 1 .. m + n : (p \o q)[i] = IF i <= m THEN p[i] ELSE q[i - m]
  BY <1>1, Joined
<1>3. /\ \A i \in 1 .. m : p[i] \in S /\ p[i].title \in Nat
      /\ \A i \in 1 .. n : q[i] \in S /\ q[i].title \in Nat
  BY <1>2
<1>4. ASSUME NEW i \in 1 .. m, NEW j \in 1 .. n PROVE p[i].title < q[j].title
  <2>1. p # <<>> /\ Last(p) = p[m] /\ m \in 1 .. m BY <1>1, <1>2 DEF Last
  <2>2. p[m].title < q[j].title BY <1>2, <2>1
  <2>3. i < m => p[i].title < p[m].title BY <1>2, <2>1 DEF InOrder
  <2> QED BY <1>3, <2>1, <2>2, <2>3
<1>5. InOrder(p \o q)
  <2> SUFFICES ASSUME NEW i \in 1 .. m + n, NEW j \in 1 .. m + n, i < j
               PROVE  (p \o q)[i].title < (p \o q)[j].title
    BY <1>2 DEF InOrder
  <2>1. CASE j <= m
    <3>1. i \in 1 .. m /\ j \in 1 .. m /\ i <= m BY <2>1
    <3>2. p[i].title < p[j].title BY <1>2, <3>1 DEF InOrder
    <3>3. (p \o q)[i] = p[i] /\ (p \o q)[j] = p[j] BY <1>2, <2>1, <3>1
    <3> QED BY <3>2, <3>3
  <2>2. CASE i <= m /\ ~(j <= m)
    <3>1. i \in 1 .. m /\ j - m \in 1 .. n BY <2>2
    <3> QED BY <1>2, <1>4, <2>2, <3>1
  <2>3. CASE ~(i <= m)
    <3>1. i - m \in 1 .. n /\ j - m \in 1 .. n /\ i - m < j - m BY <2>3
    <3>2. q[i - m].title < q[j - m].title BY <1>2, <3>1 DEF InOrder
    <3>3. (p \o q)[i] = q[i - m] /\ (p \o q)[j] = q[j - m]
      <4>1. ~(j <= m) BY <2>3
      <4> QED BY <1>2, <2>3, <4>1
    <3> QED BY <3>2, <3>3
  <2> QED BY <2>1, <2>2, <2>3
<1> QED BY <1>2, <1>5

(* A page goes on where the one before ended, and leaves out no offer. *)
LEMMA PageIsListed ==
  ASSUME Inv, Listings, NEW c \in Clients, ListPage(c)
  PROVE  ListOK(c)'
<1> DEFINE rows == Remaining(call[c].pages)
           more == Cardinality(rows) > PageLimit
           n == IF more THEN PageLimit ELSE Cardinality(rows)
           page == FirstRows(rows, n)
<1>1. /\ task[c].kind = "list" /\ call[c].at \in {"start", "page"}
      /\ call' = [call EXCEPT ![c].at = IF more THEN "page" ELSE "done",
                    ![c].known = IF call[c].at = "start" THEN Newest ELSE call[c].known,
                    ![c].pages = @ \o page]
      /\ UNCHANGED <<task, revision>>
  BY DEF ListPage
<1>2. /\ rows \subseteq Plans /\ IsFiniteSet(rows)
      /\ \A v \in rows : v.title \in Nat
      /\ \A v, w \in rows : v.title = w.title => v = w
      /\ call[c].pages # <<>> => \A v \in rows : Last(call[c].pages).title < v.title
      /\ \A k \in Plans :
           call[c].pages = <<>> \/ Last(call[c].pages).title < k.title
             => \E v \in rows : v.title = k.title
  <2> HIDE DEF rows
  <2> QED BY <1>1, RowsToCome DEF rows
<1>3. CallsTyped /\ ListOK(c) /\ PublishInv BY DEF Inv, Listings
<1>4. PICK m : m = call[c] OBVIOUS
<1>5. IsCall(m) BY <1>3, <1>4 DEF CallsTyped
<1>6. PICK known : known = IF m.at = "start" THEN Newest ELSE m.known OBVIOUS
<1>7. PICK at : at = IF more THEN "page" ELSE "done" OBVIOUS
<1>8. PICK pages : pages = m.pages \o page OBVIOUS
<1>9. call' = [call EXCEPT ![c] = [m EXCEPT !.at = at, !.known = known, !.pages = pages]]
  BY <1>1, <1>3, <1>4, <1>5, <1>6, <1>7, <1>8 DEF CallsTyped, IsCall
<1>10. call'[c].at = at /\ call'[c].known = known /\ call'[c].pages = pages
  BY <1>3, <1>5, <1>9 DEF CallsTyped, IsCall
<1>11. n \in Nat /\ n <= Cardinality(rows) /\ (more => n # 0) /\ (n # Cardinality(rows) => more)
  <2>1. Cardinality(rows) \in Nat BY <1>2, FS_CardinalityType
  <2> HIDE DEF rows
  <2> QED BY <2>1, PageAssumption
<1> HIDE DEF rows, n, more
<1>12. /\ page \in Seq(rows) /\ Len(page) = n /\ InOrder(page)
       /\ \A v \in rows : \/ \E i \in 1 .. n : page[i] = v
                          \/ n # Cardinality(rows) /\ \A i \in 1 .. n : page[i].title < v.title
  BY <1>2, <1>11, FirstRowsAre
<1> HIDE DEF page
<1>13. /\ m.pages \in Seq(Plans) /\ InOrder(m.pages) /\ page \in Seq(Plans)
       /\ m.at = "start" => m.pages = <<>>
       /\ m.at = "page" => m.pages # <<>>
       /\ DOMAIN page = 1 .. n
  <2>1. page \in [1 .. n -> rows] BY <1>11, <1>12
  <2>2. page \in [1 .. n -> Plans] BY <1>2, <2>1
  <2> QED BY <1>1, <1>3, <1>4, <1>11, <2>2 DEF ListOK
<1>14. \A v \in Plans : v.title \in Nat
  BY <1>3, TasksAssumption DEF Plans, PublishInv, Paired, Titles
<1>15. pages \in Seq(Plans) /\ InOrder(pages)
  <2>1. m.pages # <<>> => \A i \in DOMAIN page : Last(m.pages).title < page[i].title
    <3>1. \A i \in DOMAIN page : page[i] \in rows BY <1>12, <1>13
    <3> QED BY <1>2, <1>4, <3>1
  <2>2. m.pages \o page \in Seq(Plans) /\ InOrder(m.pages \o page)
    <3>1. PICK S : S = Plans OBVIOUS
    <3>2. PICK p : p = m.pages OBVIOUS
    <3>3. p \in Seq(S) /\ page \in Seq(S) /\ InOrder(p) /\ InOrder(page)
      BY <1>12, <1>13, <3>1, <3>2
    <3>4. \A v \in S : v.title \in Nat BY <1>14, <3>1
    <3>5. p # <<>> => \A i \in DOMAIN page : Last(p).title < page[i].title BY <2>1, <3>2
    <3>6. p \o page \in Seq(S) /\ InOrder(p \o page) BY <3>3, <3>4, <3>5, PagesFollow
    <3> QED BY <3>1, <3>2, <3>6
  <2> QED BY <1>8, <2>2
<1>16. /\ DOMAIN pages = 1 .. Len(m.pages) + n /\ Len(m.pages) \in Nat
       /\ Len(pages) = Len(m.pages) + n
       /\ \A i \in DOMAIN m.pages : i \in DOMAIN pages /\ pages[i] = m.pages[i]
       /\ \A i \in 1 .. n : /\ Len(m.pages) + i \in DOMAIN pages
                            /\ pages[Len(m.pages) + i] = page[i]
  <2>1. PICK p : p = m.pages OBVIOUS
  <2>2. p \in Seq(Plans) /\ page \in Seq(Plans) /\ pages = p \o page BY <1>8, <1>13, <2>1
  <2>3. PICK k \in Nat : k = Len(p) /\ DOMAIN p = 1 .. k BY <2>2
  <2>4. /\ DOMAIN pages = 1 .. k + n /\ Len(pages) = k + n
        /\ \A i \in 1 .. k + n : pages[i] = IF i <= k THEN p[i] ELSE page[i - k]
    <3>1. Len(page) = n BY <1>12
    <3>2. PICK S : S = Plans OBVIOUS
    <3>3. p \in Seq(S) /\ page \in Seq(S) BY <2>2, <3>2
    <3>4. /\ DOMAIN (p \o page) = 1 .. Len(p) + Len(page)
          /\ Len(p \o page) = Len(p) + Len(page)
          /\ \A i \in 1 .. Len(p) + Len(page) :
               (p \o page)[i] = IF i <= Len(p) THEN p[i] ELSE page[i - Len(p)]
      BY <3>3, Joined
    <3> QED BY <2>2, <2>3, <3>1, <3>4
  <2>5. \A i \in 1 .. k : i \in 1 .. k + n /\ pages[i] = p[i] BY <1>11, <2>4
  <2>6. \A i \in 1 .. n : k + i \in 1 .. k + n /\ pages[k + i] = page[i] BY <1>11, <2>4
  <2> QED BY <2>1, <2>3, <2>4, <2>5, <2>6
<1>17. /\ \A v : ListedIn(m.pages, v) => ListedIn(pages, v)
       /\ \A v : (\E i \in 1 .. n : page[i].title = v.title) => ListedIn(pages, v)
  BY <1>16 DEF ListedIn
<1>18. more => pages # <<>> /\ Last(pages) = page[n] /\ n \in 1 .. n
  <2>1. n # 0 => pages # <<>> /\ pages[Len(m.pages) + n] = page[n] /\ n \in 1 .. n
    BY <1>11, <1>16
  <2> QED BY <1>11, <1>16, <2>1 DEF Last
<1>19. known \subseteq Plans
  <2>1. Newest \subseteq Plans BY DEF Newest, Plans
  <2>2. m.known \subseteq Plans BY <1>1, <1>3, <1>4 DEF ListOK
  <2> QED BY <1>6, <2>1, <2>2
<1>20. ASSUME NEW k \in known
       PROVE  ListedIn(pages, k) \/ (at = "page" /\ Last(pages).title < k.title)
  <2>1. k \in Plans BY <1>19
  <2>2. \/ ListedIn(m.pages, k)
        \/ m.pages = <<>> \/ Last(m.pages).title < k.title
    BY <1>1, <1>3, <1>4, <1>6, <1>13 DEF ListOK
  <2>3. CASE ListedIn(m.pages, k) BY <1>17, <2>3
  <2>4. CASE m.pages = <<>> \/ Last(m.pages).title < k.title
    <3>1. PICK v \in rows : v.title = k.title BY <1>2, <1>4, <2>1, <2>4
    <3>2. CASE \E i \in 1 .. n : page[i] = v BY <1>17, <3>1, <3>2
    <3>3. CASE n # Cardinality(rows) /\ \A i \in 1 .. n : page[i].title < v.title
      <4>1. more BY <1>11, <3>3
      <4>2. Last(pages).title < k.title BY <1>18, <3>1, <3>3, <4>1
      <4> QED BY <1>7, <4>1, <4>2
    <3> QED BY <1>12, <3>2, <3>3
  <2> QED BY <2>2, <2>3, <2>4
<1>21. at # "start" /\ (at = "page" => pages # <<>>) BY <1>7, <1>18
<1>22. Plans' = Plans BY <1>1 DEF Plans
<1> HIDE <1>6, <1>7, <1>8
<1> QED BY <1>10, <1>15, <1>19, <1>20, <1>21, <1>22 DEF ListOK

(* What a step may do with the call of a client that lists plans, and with revisions. *)
LEMMA ListersOnlyList ==
  ASSUME Inv, [Next]_vars
  PROVE  /\ task' = task
         /\ \/ UNCHANGED revision
            \/ \E c \in Clients : revision' = revision \cup {Numbered(c)}
         /\ \A d \in Clients : task[d].kind = "list" =>
              call'[d] = call[d] \/ call'[d] = Nothing \/ ListPage(d)
<1>1. DOMAIN call = Clients BY DEF Inv, CallsTyped
<1>2. CASE (\E c \in Clients : CatalogStep(c)) /\ UNCHANGED <<checkoutVars, subscriptionVars>>
  <2>1. PICK c \in Clients : CatalogStep(c) BY <1>2
  <2>2. CASE Replay(c) BY <1>1, <2>2 DEF Replay, Does, GoesOn, Answers
  <2>3. CASE LockTitle(c) BY <1>1, <2>3 DEF LockTitle, Does, GoesOn
  <2>4. CASE Number(c) BY <1>1, <2>4 DEF Number, Does
  <2>5. CASE CommitPublication(c) BY <1>1, <2>5 DEF CommitPublication, Does, Answers
  <2>6. CASE ListPage(c)
    <3>1. UNCHANGED <<task, revision>> /\ \A d \in Clients \ {c} : call'[d] = call[d]
      BY <1>1, <2>6 DEF ListPage
    <3> QED BY <2>6, <3>1
  <2>7. CASE Quote(c) BY <1>1, <2>7 DEF Quote, Does
  <2>8. CASE QuoteForHold(c) BY <1>1, <2>8 DEF QuoteForHold, Does, Answers
  <2>9. CASE FailCall(c) BY <1>1, <2>9 DEF FailCall
  <2> QED BY <2>1, <2>2, <2>3, <2>4, <2>5, <2>6, <2>7, <2>8, <2>9 DEF CatalogStep
<1>3. CASE \E c \in Clients : CheckoutStep(c)
  <2>1. PICK c \in Clients : CheckoutStep(c) BY <1>3
  <2>2. CASE CreateCheckout(c) BY <1>1, <2>2 DEF CreateCheckout, Does, GoesOn
  <2>3. CASE LockCheckout(c) BY <1>1, <2>3 DEF LockCheckout, Does, Answers, GoesOn
  <2>4. CASE SaveSession(c) BY <1>1, <2>4 DEF SaveSession, Does, Answers, GoesOn
  <2> QED BY <2>1, <2>2, <2>3, <2>4 DEF CheckoutStep
<1>4. CASE \E c \in Clients : SubscriptionStep(c)
  <2>1. PICK c \in Clients : SubscriptionStep(c) BY <1>4
  <2>2. CASE Cancel(c) BY <1>1, <2>2 DEF Cancel, Does, GoesOn
  <2>3. CASE ReadPlan(c) BY <1>1, <2>3 DEF ReadPlan, Does
  <2>4. CASE ProcessSubscription(c) BY <1>1, <2>4 DEF ProcessSubscription, Does, GoesOn
  <2> QED BY <2>1, <2>2, <2>3, <2>4 DEF SubscriptionStep
<1>5. CASE Tick \/ UNCHANGED vars \/ \E q \in asked : OpenSession(q)
  BY <1>5 DEF Tick, vars, catalogVars, OpenSession
<1> QED BY <1>2, <1>3, <1>4, <1>5 DEF Next

(* Every step keeps what is said of listings. *)
LEMMA ListingsKept ==
  ASSUME Inv, Listings, [Next]_vars
  PROVE  Listings'
<1>1. task' = task BY ListersOnlyList
<1>2. revision \subseteq revision' /\ IsFiniteSet(revision')
  <2>1. CASE UNCHANGED revision BY <2>1 DEF Listings
  <2>2. CASE \E c \in Clients : revision' = revision \cup {Numbered(c)}
    <3>1. PICK new : revision' = revision \cup {new} BY <2>2
    <3>2. IsFiniteSet(revision \cup {new}) BY FS_AddElement DEF Listings
    <3> QED BY <3>1, <3>2
  <2> QED BY <2>1, <2>2, ListersOnlyList
<1>3. ASSUME NEW c \in Clients PROVE ListOK(c)'
  <2>1. CASE task[c].kind # "list" BY <1>1, <2>1 DEF ListOK
  <2>2. CASE call'[c] = call[c] BY <1>1, <1>2, <2>2, ListingRests DEF Listings
  <2>3. CASE call'[c] = Nothing BY <2>3, NothingIsListed
  <2>4. CASE ListPage(c) BY <2>4, PageIsListed
  <2> QED BY <2>1, <2>2, <2>3, <2>4, ListersOnlyList
<1> QED BY <1>2, <1>3 DEF Listings

(* Nothing is listed when nothing was published. *)
LEMMA NothingListed ==
  ASSUME Init
  PROVE  Listings
<1>1. revision = {} /\ \A c \in Clients : call[c] = Nothing BY DEF Init, CatalogInit
<1>2. PICK n : n = Nothing OBVIOUS
<1>3. n.at = "start" /\ n.pages = <<>> /\ n.known = {} BY <1>2 DEF Nothing
<1>4. \A c \in Clients : call[c] = n BY <1>1, <1>2
<1> HIDE <1>2
<1>5. <<>> \in Seq(Plans) /\ InOrder(<<>>) BY DEF InOrder
<1>6. \A c \in Clients : ListOK(c) BY <1>3, <1>4, <1>5 DEF ListOK
<1>7. IsFiniteSet(revision) BY <1>1, FS_EmptySet
<1> QED BY <1>6, <1>7 DEF Listings

(***************************************************************************)
(* A listing lists plans in the order of their offers and passes none over *)
(* (listPublished), in every state.                                        *)
(***************************************************************************)
THEOREM ListingsInvariant == Spec => [](Inv /\ Listings)
<1>1. Init => Inv /\ Listings BY InitHolds, NothingListed
<1>2. Inv /\ Listings /\ [Next]_vars => (Inv /\ Listings)' BY NextKeeps, ListingsKept
<1> QED BY <1>1, <1>2, PTL DEF Spec

(***************************************************************************)
(* Through all pages of a listing no offer appears twice, whatever is      *)
(* published between them, and in the end none is missing that was there   *)
(* when the listing began (listPublished).                                 *)
(***************************************************************************)
THEOREM OffersAreAlwaysListedOnce == Spec => []OffersAreListedOnce
<1>1. Inv /\ Listings => OffersAreListedOnce
  <2> SUFFICES ASSUME Inv, Listings, NEW c \in Clients, task[c].kind = "list"
               PROVE  LET listed == [i \in DOMAIN call[c].pages |-> call[c].pages[i].title]
                      IN  /\ IsInjective(listed)
                          /\ call[c].at = "done" =>
                               {v.title : v \in call[c].known} \subseteq ToSet(listed)
    BY DEF OffersAreListedOnce
  <2> DEFINE listed == [i \in DOMAIN call[c].pages |-> call[c].pages[i].title]
  <2>1. ListOK(c) BY DEF Listings
  <2>2. PICK pages : pages = call[c].pages OBVIOUS
  <2>3. pages \in Seq(Plans) /\ InOrder(pages) BY <2>1, <2>2 DEF ListOK
  <2>4. PICK m \in Nat : DOMAIN pages = 1 .. m /\ \A i \in 1 .. m : pages[i] \in Plans
    BY <2>3
  <2>5. \A i \in 1 .. m : pages[i].title \in Nat
    <3>1. \A v \in Plans : v.title \in Nat
      BY TasksAssumption DEF Inv, PublishInv, Paired, Plans, Titles
    <3> QED BY <2>4, <3>1
  <2>6. DOMAIN listed = 1 .. m /\ \A i \in 1 .. m : listed[i] = pages[i].title
    BY <2>2, <2>4
  <2>7. \A v \in call[c].known : call[c].at = "done" => ListedIn(pages, v)
    BY <2>1, <2>2 DEF ListOK
  <2> HIDE DEF listed
  <2>8. IsInjective(listed)
    <3> SUFFICES ASSUME NEW i \in 1 .. m, NEW j \in 1 .. m, listed[i] = listed[j] PROVE i = j
      BY <2>6 DEF IsInjective
    <3>1. ~(i < j) /\ ~(j < i) BY <2>3, <2>4, <2>5, <2>6 DEF InOrder
    <3> QED BY <3>1
  <2>9. call[c].at = "done" => \A v \in call[c].known : v.title \in ToSet(listed)
    <3>1. \A v : ListedIn(pages, v) => \E i \in DOMAIN listed : listed[i] = v.title
      BY <2>4, <2>6 DEF ListedIn
    <3> QED BY <2>7, <3>1 DEF ToSet
  <2>10. call[c].at = "done" => {v.title : v \in call[c].known} \subseteq ToSet(listed)
    BY <2>9
  <2> QED BY <2>8, <2>10 DEF listed
<1> QED BY <1>1, ListingsInvariant, PTL
===============================================================================
