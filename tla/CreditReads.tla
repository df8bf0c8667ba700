------------------------------ MODULE CreditReads ------------------------------
(***************************************************************************)
(* Readers of the credit ledger: a subject that lists the journal of its   *)
(* own account page by page, with the cursor it got with the last page     *)
(* (CreditService.listMyLedger, CreditRepository.listMyLedger and          *)
(* credit-ledger-cursor.ts), while CreditLedger changes the account.       *)
(*                                                                         *)
(* A page is read in one transaction of mode readOnlySnapshot, so that all *)
(* its queries see one state of the ledger: it is one step. Between two    *)
(* pages anything can be written. A cursor is a string that only its       *)
(* encoding and decoding look into; here it is the record they carry. A    *)
(* subject has at most one account, and is named like it.                  *)
(***************************************************************************)
EXTENDS CreditLedger, Sequences

CONSTANT PageLimit   \* the limit of a request

\* What a cursor carries.
Cursors == [subject : Accounts, account : Accounts, high : Nat, last : Nat]

ASSUME ReadsAssumption == PageLimit \in Nat \ {0} /\ None \notin Cursors

VARIABLES
  cursor,   \* the cursor a subject holds, None before the first page and at the end
  read      \* auxiliary: the items of its listing so far, in the order it got them

readVars == <<cursor, read>>

ReadsInit ==
  /\ Init
  /\ cursor = [a \in Accounts |-> None]
  /\ read = [a \in Accounts |-> <<>>]

-------------------------------------------------------------------------------
(***************************************************************************)
(* What the queries of a page compute.                                     *)
(***************************************************************************)
\* The caller's own account, in whatever status.
FindMyAccount(subject) == {a \in Accounts : a = subject /\ account[a].status # "absent"}

Amount == [e \in journal |-> e.amount]

\* SUM(amount_micros) OVER (ORDER BY journal_seq ROWS UNBOUNDED PRECEDING)
BalanceAfter(a, seq) ==
  LET history == {e \in Entries(a) : e.seq <= seq}
      granted == {e \in history : e.kind = "grant"}
  IN  Sum(granted, Amount) - Sum(history \ granted, Amount)

HistoryCorrupt(a, high) == \E e \in Entries(a) : e.seq <= high /\ BalanceAfter(a, e.seq) < 0

Numbers(a) == {e.seq : e \in Entries(a)}

\* The ceiling a listing keeps: MAX(journal_seq) when its first page is read.
Ceiling(a, c) == IF c = None THEN Max(Numbers(a)) ELSE c.high

\* Mutant: a page starts with the last entry of the page before it.
BeforeSequenceAgain(a, c) == IF c = None THEN Ceiling(a, c) + 1 ELSE c.last + 1

BeforeSequence(a, c) == IF c = None THEN Ceiling(a, c) + 1 ELSE c.last

\* The rows of "ORDER BY journal_seq DESC LIMIT limit + 1": each by how many come before it.
Rows(a, c) ==
  LET older == {s \in Numbers(a) : s <= Ceiling(a, c) /\ s < BeforeSequence(a, c)}
  IN  [i \in 1 .. Min({PageLimit + 1, Cardinality(older)}) |->
         CHOOSE s \in older : Cardinality({t \in older : t > s}) = i - 1]

PageItems(a, c) ==
  LET rows == Rows(a, c)
  IN  [i \in 1 .. Min({PageLimit, Len(rows)}) |->
         [seq |-> rows[i], balance |-> BalanceAfter(a, rows[i])]]

\* encodeCreditLedgerCursor, when there are more rows than the page shows.
NextCursor(a, c) ==
  IF Len(Rows(a, c)) <= PageLimit THEN None
  ELSE [subject |-> a, account |-> a, high |-> Ceiling(a, c), last |-> Rows(a, c)[PageLimit]]

\* decodeCreditLedgerCursor: it carries the digest of the identity that asks.
Decodes(c, subject) == c.subject = subject /\ c.last <= c.high

\* It is of this account, and the entries it names exist.
Accepted(a, c) == c.account = a /\ {c.high, c.last} \subseteq Numbers(a)

-------------------------------------------------------------------------------
(***************************************************************************)
(* A request that is refused changes nothing and is not a step; a subject  *)
(* starts again whenever it likes. An account without entries has an empty *)
(* page, before anything else is looked at.                                *)
(***************************************************************************)
FirstPage(a) ==
  /\ a \in FindMyAccount(a)
  /\ Entries(a) # {} => ~HistoryCorrupt(a, Ceiling(a, None))
  /\ read' = [read EXCEPT ![a] = IF Entries(a) = {} THEN <<>> ELSE PageItems(a, None)]
  /\ cursor' = [cursor EXCEPT ![a] = IF Entries(a) = {} THEN None ELSE NextCursor(a, None)]
  /\ UNCHANGED vars

\* A subject presents the cursor c, its own or another's.
NextPage(a, c) ==
  /\ c # None
  /\ Decodes(c, a)
  /\ a \in FindMyAccount(a) /\ Accepted(a, c)
  /\ ~HistoryCorrupt(a, c.high)
  /\ read' = [read EXCEPT ![a] = @ \o PageItems(a, c)]
  /\ cursor' = [cursor EXCEPT ![a] = NextCursor(a, c)]
  /\ UNCHANGED vars

ReadsNext ==
  \/ Next /\ UNCHANGED readVars
  \/ \E a \in Accounts : FirstPage(a) \/ \E b \in Accounts : NextPage(a, cursor[b])

ReadsSpec == ReadsInit /\ [][ReadsNext]_<<vars, readVars>>

-------------------------------------------------------------------------------
(***************************************************************************)
(* A listing is a snapshot although its pages are read at different times: *)
(* whatever grants, captures and expiries write between two pages, the     *)
(* entries are numbered from 1 without a gap or a repetition, also when    *)
(* one refresh writes several; the pages show every entry up to the        *)
(* ceiling of the first page once, latest first, each with the balance of  *)
(* the whole history up to it; the last page ends with the first entry;    *)
(* and the cursor that a subject holds always leads on, neither refused    *)
(* nor met by a corrupt history.                                           *)
(***************************************************************************)
PagesAreTheHistory ==
  \A a \in Accounts :
    LET items == read[a]
        c == cursor[a]
        first == IF items = <<>> THEN 0 ELSE items[1].seq
    IN  /\ Numbers(a) = 1 .. Cardinality(Entries(a))
        /\ \A i \in DOMAIN items : /\ items[i].seq = first + 1 - i
                                   /\ items[i].balance = BalanceAfter(a, items[i].seq)
        /\ IF c = None THEN Len(items) = first
           ELSE /\ c.high = first /\ c.last = first + 1 - Len(items)
                /\ Decodes(c, a) /\ Accepted(a, c) /\ ~HistoryCorrupt(a, c.high)

===============================================================================
