--------------------------- MODULE TransactionsProofs --------------------------
(***************************************************************************)
(* execute is atomic for any number of attempts, keys, identities and      *)
(* payloads: the invariant says, attempt by attempt, which locks it has at *)
(* each point, what it knows, and what it has drafted.                     *)
(*                                                                         *)
(* withTransaction is honest for any number of contexts, sessions and      *)
(* levels: its invariant relates the calls of a context to what the server *)
(* has open for them.                                                      *)
(***************************************************************************)
EXTENDS CommandReceipts, Connection, TLAPS

\* The points of execute between the locks and the end.
Inside == Waiting \ {"lockIdentity", "lockKey"}

\* The attempt is inside, or done and about to commit.
AtWork(t) == pc[t] \in Inside \/ (pc[t] = "end" /\ ~poisoned[t])

Holds(t) ==
  /\ lock[request[t].key] = t
  /\ request[t].identity # None => lock[request[t].identity] = t

\* The locks are there while the attempt works and while it has drafted anything.
Locked(t) ==
  /\ pc[t] = "lockIdentity" => request[t].identity # None
  /\ pc[t] = "lockKey" /\ request[t].identity # None => lock[request[t].identity] = t
  /\ AtWork(t) \/ draft[t] # NoDraft => Holds(t)

\* What the attempt has read is still so.
Informed(t) ==
  /\ pc[t] \in {"idle", "lockIdentity", "lockKey", "readKey"} => seen[t] = NothingSeen
  /\ pc[t] = "readIdentity" => seen[t].identity = None
  /\ AtWork(t) /\ pc[t] # "readKey" => seen[t].key = binding[request[t].key]
  /\ AtWork(t) /\ pc[t] \notin {"readKey", "readIdentity"} =>
       IF seen[t].identity = None THEN Identified(t) = {} ELSE seen[t].identity \in Identified(t)

Asked(t, status) ==
  [status |-> status, identity |-> request[t].identity, payload |-> request[t].payload]

Drafts == [receipt : Receipts, bound : Attempts \cup {None}, effect : BOOLEAN]

Drafting(t, r, b, e) == draft[t].receipt = r /\ draft[t].bound = b /\ (draft[t].effect <=> e)

\* What the attempt has drafted, and why it is where it is.
Drafted(t) ==
  /\ pc[t] \notin {"bind", "effect", "complete", "end"} => draft[t] = NoDraft
  /\ draft[t].receipt.identity \in {None, request[t].identity}
  /\ pc[t] \in {"create", "effect", "complete"} => Found(t) = None
  /\ pc[t] = "bind" =>
       /\ seen[t].key = None
       /\ \/ Found(t) = None /\ Drafting(t, Asked(t, "processing"), None, FALSE)
          \/ Found(t) # None /\ Replayable(t) /\ draft[t] = NoDraft
  /\ pc[t] = "effect" => Drafting(t, Asked(t, "processing"), t, FALSE)
  /\ pc[t] = "complete" => Drafting(t, Asked(t, "processing"), t, TRUE)
  /\ pc[t] = "end" /\ ~poisoned[t] =>
       \/ Found(t) = None /\ Drafting(t, Asked(t, "succeeded"), t, TRUE)
       \/ /\ Found(t) # None /\ Replayable(t)
          /\ Drafting(t, NoReceipt, IF seen[t].key = None THEN Found(t) ELSE None, FALSE)

\* What the attempt has committed.
Written(t) ==
  /\ poisoned[t] => pc[t] \in {"end", "rolledBack"}
  /\ pc[t] # "committed" => receipt[t] = NoReceipt /\ answer[t] = None
  /\ receipt[t] \in {NoReceipt, Asked(t, "succeeded")}
  /\ t \in effects <=> receipt[t].status = "succeeded"

Sound(t) == Locked(t) /\ Informed(t) /\ Drafted(t) /\ Written(t)

BoundToReceipts == \A k \in Keys : binding[k] # None => receipt[binding[k]].status = "succeeded"

(* The inductive invariant. *)
Inv == TypeOK /\ BoundToReceipts /\ \A t \in Attempts : Sound(t)

-------------------------------------------------------------------------------
(***************************************************************************)
(* A step of t that commits nothing preserves the invariant if t stays     *)
(* sound, for it touches nobody else's state and takes no lock of theirs.  *)
(***************************************************************************)
LEMMA OneAttempt ==
  ASSUME Inv, TypeOK', NEW t \in Attempts, UNCHANGED <<request, committedRows>>,
         \A u \in Attempts \ {t} : /\ pc'[u] = pc[u] /\ seen'[u] = seen[u]
                                   /\ draft'[u] = draft[u] /\ poisoned'[u] = poisoned[u],
         \A u \in Attempts \ {t}, l \in Keys \cup Identities : lock[l] = u => lock'[l] = u,
         Sound(t)'
  PROVE  Inv'
<1>1. BoundToReceipts' BY DEF Inv, BoundToReceipts, committedRows
<1>2. ASSUME NEW u \in Attempts \ {t}
      PROVE  Sound(u)'
  <2>1. /\ pc'[u] = pc[u] /\ seen'[u] = seen[u] /\ draft'[u] = draft[u]
        /\ poisoned'[u] = poisoned[u] /\ request' = request /\ receipt' = receipt
        /\ binding' = binding /\ effects' = effects /\ answer' = answer
    BY DEF committedRows
  <2>2. request[u].key \in Keys /\ (request[u].identity # None => request[u].identity \in Identities)
    BY DEF Inv, TypeOK, Requests
  <2>3. Sound(u) BY DEF Inv
  <2>4. Locked(u)'
    BY <2>1, <2>2, <2>3 DEF Sound, Locked, Holds, AtWork
  <2>5. Informed(u)'
    BY <2>1, <2>3 DEF Sound, Informed, AtWork, Identified
  <2>6. Drafted(u)'
    <3>1. Found(u)' = Found(u) /\ \A status : Asked(u, status)' = Asked(u, status)
      BY <2>1 DEF Found, Asked
    <3> QED BY <2>1, <2>3, <3>1 DEF Sound, Drafted, Drafting, Replayable, Match
  <2>7. Written(u)'
    BY <2>1, <2>3 DEF Sound, Written, Asked
  <2> QED BY <2>4, <2>5, <2>6, <2>7 DEF Sound
<1> QED BY <1>1, <1>2 DEF Inv

(* At the start nobody has done anything. *)
LEMMA InitInv == Init => Inv
<1> SUFFICES ASSUME Init PROVE Inv
  OBVIOUS
<1>1. TypeOK
  BY DEF Init, TypeOK, NoReceipt, Receipts, NoDraft, NothingSeen
<1>2. BoundToReceipts BY DEF Init, BoundToReceipts
<1>3. ASSUME NEW t \in Attempts PROVE Sound(t)
  <2>1. Locked(t) BY DEF Init, Locked, AtWork, Inside, Waiting
  <2>2. Informed(t) BY DEF Init, Informed, AtWork, Inside, Waiting
  <2>3. Drafted(t) BY DEF Init, Drafted, NoDraft, NoReceipt
  <2>4. Written(t) BY DEF Init, Written, NoReceipt
  <2> QED BY <2>1, <2>2, <2>3, <2>4 DEF Sound
<1> QED BY <1>1, <1>2, <1>3 DEF Inv

(* An error keeps the locks and marks the root; it leaves through the end. *)
LEMMA FailsInv ==
  ASSUME Inv, NEW t \in Attempts, pc[t] \in Waiting, Fails(t),
         \/ UNCHANGED draft
         \/ pc[t] = "effect" /\ draft' = [draft EXCEPT ![t].effect = TRUE]
  PROVE  Inv'
<1>1. /\ pc' = [pc EXCEPT ![t] = "end"] /\ poisoned' = [poisoned EXCEPT ![t] = TRUE]
      /\ UNCHANGED <<request, receipt, binding, effects, answer, lock, seen>> /\ TypeOK
  BY DEF Inv, Fails, GoTo, committedRows
<1>2. draft' \in [Attempts -> Drafts]
  <2>1. draft \in [Attempts -> Drafts] /\ draft[t] \in Drafts BY <1>1 DEF TypeOK, Drafts
  <2>2. [draft[t] EXCEPT !.effect = TRUE] \in Drafts BY <2>1 DEF Drafts
  <2> QED BY <2>1, <2>2
<1>3. \A l \in Keys \cup Identities : lock'[l] # None => pc'[lock'[l]] \in Waiting \cup {"end"}
  BY <1>1 DEF TypeOK
<1>4. TypeOK'
  BY <1>1, <1>2, <1>3 DEF TypeOK, Drafts
<1>5. /\ pc'[t] = "end" /\ poisoned'[t] = TRUE /\ ~AtWork(t)'
      /\ draft'[t].receipt = draft[t].receipt
      /\ \A u \in Attempts \ {t} : /\ pc'[u] = pc[u] /\ seen'[u] = seen[u]
                                   /\ draft'[u] = draft[u] /\ poisoned'[u] = poisoned[u]
  BY DEF Inv, TypeOK, Fails, GoTo, AtWork, Inside, Waiting
<1>6. Sound(t) BY DEF Inv
<1>7. Locked(t)'
  BY <1>4, <1>5, <1>6 DEF Sound, Locked, Holds, AtWork, Inside, Waiting, Fails, Drafted
<1>8. Informed(t)'
  BY <1>4, <1>5, <1>6 DEF Sound, Informed
<1>9. Drafted(t)'
  BY <1>4, <1>5, <1>6 DEF Sound, Drafted, Fails
<1>10. Written(t)'
  BY <1>4, <1>5, <1>6 DEF Sound, Written, Fails, committedRows, Waiting, Asked
<1> QED BY <1>4, <1>5, <1>7, <1>8, <1>9, <1>10, OneAttempt DEF Sound, Fails, committedRows

(* A draft with another receipt, another binding or its effect, field by field. *)
LEMMA Redrafted ==
  ASSUME NEW d \in Drafts
  PROVE  /\ \A b \in Attempts \cup {None} : LET n == [d EXCEPT !.bound = b]
                                IN /\ n \in Drafts /\ n.receipt = d.receipt
                                   /\ n.bound = b /\ n.effect = d.effect
         /\ LET n == [d EXCEPT !.effect = TRUE]
            IN /\ n \in Drafts /\ n.receipt = d.receipt
               /\ n.bound = d.bound /\ n.effect
BY DEF Drafts

(* A draft with another receipt. *)
LEMMA ReceiptRedrafted ==
  ASSUME NEW d \in Drafts, NEW r \in Receipts, NEW n, n = [d EXCEPT !.receipt = r]
  PROVE  n \in Drafts /\ n.receipt = r /\ n.bound = d.bound /\ n.effect = d.effect
BY DEF Drafts

(* Drafting nothing is a draft, and a request makes a receipt. *)
LEMMA DraftTypes ==
  ASSUME Inv, NEW t \in Attempts
  PROVE  /\ NoDraft \in Drafts
         /\ \A status \in {"processing", "succeeded"} : Asked(t, status) \in Receipts
BY DEF Inv, TypeOK, NoDraft, Drafts, NoReceipt, Receipts, Requests, Asked

(* Any query may be refused. *)
LEMMA QueryFailsInv ==
  ASSUME Inv, NEW t \in Attempts, QueryFails(t)
  PROVE  Inv'
BY FailsInv DEF QueryFails

(* The next point of a step that touches no lock and keeps the root clean. *)
LEMMA MovesOn ==
  ASSUME Inv, NEW t \in Attempts, NEW next, GoTo(t, next), UNCHANGED <<request, committedRows, poisoned>>,
         next \in Waiting \cup {"end"}
  PROVE  /\ pc' \in [Attempts -> {"idle", "end", "committed", "rolledBack"} \cup Waiting]
         /\ pc'[t] = next /\ \A u \in Attempts \ {t} : pc'[u] = pc[u]
         /\ UNCHANGED lock => \A l \in Keys \cup Identities :
                                lock'[l] # None => pc'[lock'[l]] \in Waiting \cup {"end"}
         /\ receipt' = receipt /\ binding' = binding /\ effects' = effects /\ answer' = answer
         /\ request' = request /\ poisoned' = poisoned /\ Identified(t)' = Identified(t)
BY DEF Inv, TypeOK, GoTo, committedRows, Waiting, Identified

(* execute begins with the locks. *)
LEMMA BeginInv ==
  ASSUME Inv, NEW t \in Attempts, Begin(t)
  PROVE  Inv'
<1>1. FirstLock(t) \in {"lockIdentity", "lockKey"} /\ Sound(t)
  BY DEF FirstLock, Inv
<1>2. /\ pc'[t] = FirstLock(t) /\ \A u \in Attempts \ {t} : pc'[u] = pc[u]
      /\ receipt' = receipt /\ binding' = binding /\ effects' = effects /\ answer' = answer
  BY <1>1, MovesOn DEF Begin, Waiting
<1>3. TypeOK'
  BY <1>1, MovesOn DEF Begin, Inv, TypeOK, Waiting
<1>4. Locked(t)'
  BY <1>1, <1>2 DEF Begin, Sound, Locked, Holds, AtWork, Inside, Waiting, FirstLock, Drafted
<1>5. Informed(t)'
  BY <1>1, <1>2 DEF Begin, Sound, Informed, AtWork, Inside, Waiting
<1>6. Drafted(t)'
  BY <1>1, <1>2 DEF Begin, Sound, Drafted
<1>7. Written(t)'
  BY <1>1, <1>2 DEF Begin, Sound, Written, Asked
<1> QED BY <1>2, <1>3, <1>4, <1>5, <1>6, <1>7, OneAttempt DEF Sound, Begin

(* A lock is taken from nobody. *)
LEMMA AcquireTypes ==
  ASSUME Inv, NEW t \in Attempts, NEW name \in Keys \cup Identities, NEW next \in Waiting,
         Acquire(t, name, next)
  PROVE  /\ TypeOK' /\ lock'[name] = t
         /\ \A u \in Attempts, l \in Keys \cup Identities : lock[l] = u => lock'[l] = u
         /\ pc'[t] = next /\ \A u \in Attempts \ {t} : pc'[u] = pc[u]
         /\ UNCHANGED <<request, receipt, binding, effects, answer, seen, draft, poisoned>>
<1>1. /\ lock' = [lock EXCEPT ![name] = t] /\ lock[name] = None /\ TypeOK
      /\ UNCHANGED <<request, receipt, binding, effects, answer, seen, draft, poisoned>>
      /\ pc' = [pc EXCEPT ![t] = next]
  BY DEF Acquire, GoTo, committedRows, Inv
<1>2. lock \in [Keys \cup Identities -> Attempts \cup {None}] BY <1>1 DEF TypeOK
<1>3. lock' \in [Keys \cup Identities -> Attempts \cup {None}] /\ lock'[name] = t
  BY <1>1, <1>2
<1>4. \A u \in Attempts, l \in Keys \cup Identities : lock[l] = u => lock'[l] = u
  BY <1>1, <1>2, NoneAssumption
<1>5. \A l \in Keys \cup Identities : lock'[l] # None => pc'[lock'[l]] \in Waiting \cup {"end"}
  BY <1>1, <1>2 DEF TypeOK
<1>6. TypeOK'
  BY <1>1, <1>3, <1>5 DEF TypeOK
<1> QED BY <1>1, <1>3, <1>4, <1>6 DEF TypeOK

(* The identity's lock comes first. *)
LEMMA LockIdentityInv ==
  ASSUME Inv, NEW t \in Attempts, LockIdentity(t)
  PROVE  Inv'
<1>1. Sound(t) /\ pc[t] = "lockIdentity" /\ Acquire(t, request[t].identity, "lockKey")
  BY DEF Inv, LockIdentity
<1>2. request[t].identity \in Identities
  BY <1>1 DEF Inv, TypeOK, Requests, Sound, Locked
<1>3. /\ TypeOK' /\ lock'[request[t].identity] = t
      /\ \A u \in Attempts, l \in Keys \cup Identities : lock[l] = u => lock'[l] = u
      /\ pc'[t] = "lockKey" /\ \A u \in Attempts \ {t} : pc'[u] = pc[u]
      /\ UNCHANGED <<request, receipt, binding, effects, answer, seen, draft, poisoned>>
  BY <1>1, <1>2, AcquireTypes DEF Waiting
<1>4. Locked(t)'
  BY <1>1, <1>3 DEF Sound, Locked, Holds, AtWork, Inside, Waiting, Drafted
<1>5. Informed(t)'
  BY <1>1, <1>3 DEF Sound, Informed, AtWork, Inside, Waiting
<1>6. Drafted(t)'
  BY <1>1, <1>3 DEF Sound, Drafted
<1>7. Written(t)'
  BY <1>1, <1>3 DEF Sound, Written, Asked
<1> QED BY <1>3, <1>4, <1>5, <1>6, <1>7, OneAttempt DEF Sound, committedRows

(* With the key's lock the attempt has all it needs. *)
LEMMA LockKeyInv ==
  ASSUME Inv, NEW t \in Attempts, LockKey(t)
  PROVE  Inv'
<1>1. Sound(t) /\ pc[t] = "lockKey" /\ Acquire(t, request[t].key, "readKey")
  BY DEF Inv, LockKey
<1>2. request[t].key \in Keys /\ request[t].identity \in Identities \cup {None}
  BY DEF Inv, TypeOK, Requests
<1>3. /\ TypeOK' /\ lock'[request[t].key] = t
      /\ \A u \in Attempts, l \in Keys \cup Identities : lock[l] = u => lock'[l] = u
      /\ pc'[t] = "readKey" /\ \A u \in Attempts \ {t} : pc'[u] = pc[u]
      /\ UNCHANGED <<request, receipt, binding, effects, answer, seen, draft, poisoned>>
  BY <1>1, <1>2, AcquireTypes DEF Waiting
<1>4. Locked(t)'
  <2>1. request[t].identity # None => lock'[request[t].identity] = t
    BY <1>1, <1>2, <1>3 DEF Sound, Locked
  <2> QED BY <1>3, <2>1 DEF Locked, Holds
<1>5. Informed(t)'
  BY <1>1, <1>3 DEF Sound, Informed, AtWork, Inside, Waiting
<1>6. Drafted(t)'
  BY <1>1, <1>3 DEF Sound, Drafted
<1>7. Written(t)'
  BY <1>1, <1>3 DEF Sound, Written, Asked
<1> QED BY <1>3, <1>4, <1>5, <1>6, <1>7, OneAttempt DEF Sound, committedRows

(* The binding of the key is read under the key's lock. *)
LEMMA ReadKeyInv ==
  ASSUME Inv, NEW t \in Attempts, ReadKey(t)
  PROVE  Inv'
<1>1. /\ Sound(t) /\ pc[t] = "readKey" /\ GoTo(t, "readIdentity") /\ UNCHANGED <<lock, draft>>
      /\ seen' = [seen EXCEPT ![t].key = binding[request[t].key]] /\ TypeOK
      /\ UNCHANGED <<request, committedRows, poisoned>>
  BY DEF Inv, ReadKey
<1>2. /\ pc' \in [Attempts -> {"idle", "end", "committed", "rolledBack"} \cup Waiting]
      /\ \A l \in Keys \cup Identities : lock'[l] # None => pc'[lock'[l]] \in Waiting \cup {"end"}
      /\ pc'[t] = "readIdentity" /\ \A u \in Attempts \ {t} : pc'[u] = pc[u]
      /\ UNCHANGED <<request, receipt, binding, effects, answer, draft, poisoned, lock>>
  BY <1>1, MovesOn DEF Waiting
<1>3. seen[t] = NothingSeen /\ binding[request[t].key] \in Attempts \cup {None}
  BY <1>1 DEF Sound, Informed, TypeOK, Requests
<1>4. /\ seen' \in [Attempts -> [key : Attempts \cup {None}, identity : Attempts \cup {None}]]
      /\ seen'[t].key = binding[request[t].key] /\ seen'[t].identity = None
      /\ \A u \in Attempts \ {t} : seen'[u] = seen[u]
  BY <1>1, <1>3 DEF TypeOK, NothingSeen
<1>5. TypeOK'
  BY <1>1, <1>2, <1>4 DEF TypeOK
<1>6. Locked(t)'
  BY <1>1, <1>2 DEF Sound, Locked, Holds, AtWork, Inside, Waiting
<1>7. Informed(t)'
  BY <1>1, <1>2, <1>4 DEF Sound, Informed
<1>8. Drafted(t)'
  BY <1>1, <1>2 DEF Sound, Drafted
<1>9. Written(t)'
  BY <1>1, <1>2 DEF Sound, Written, Asked
<1> QED BY <1>1, <1>2, <1>4, <1>5, <1>6, <1>7, <1>8, <1>9, OneAttempt DEF Sound

(* The receipt of the identity is read under the identity's lock. *)
LEMMA ReadIdentityInv ==
  ASSUME Inv, NEW t \in Attempts, ReadIdentity(t)
  PROVE  Inv'
<1>1. /\ Sound(t) /\ pc[t] = "readIdentity" /\ GoTo(t, "decide") /\ UNCHANGED <<lock, draft>>
      /\ \/ \E r \in Identified(t) : seen' = [seen EXCEPT ![t].identity = r]
         \/ Identified(t) = {} /\ UNCHANGED seen
      /\ UNCHANGED <<request, committedRows, poisoned>> /\ TypeOK
  BY DEF Inv, ReadIdentity
<1>2. /\ pc' \in [Attempts -> {"idle", "end", "committed", "rolledBack"} \cup Waiting]
      /\ \A l \in Keys \cup Identities : lock'[l] # None => pc'[lock'[l]] \in Waiting \cup {"end"}
      /\ pc'[t] = "decide" /\ \A u \in Attempts \ {t} : pc'[u] = pc[u]
      /\ UNCHANGED <<request, receipt, binding, effects, answer, draft, poisoned, lock>>
      /\ Identified(t)' = Identified(t)
  BY <1>1, MovesOn DEF Waiting
<1>3. seen[t].identity = None /\ seen[t].key = binding[request[t].key]
  BY <1>1 DEF Sound, Informed, AtWork, Inside, Waiting
<1>4. Identified(t) \subseteq Attempts /\ None \notin Attempts
  BY NoneAssumption DEF Identified
<1>5. /\ seen' \in [Attempts -> [key : Attempts \cup {None}, identity : Attempts \cup {None}]]
      /\ seen'[t].key = binding[request[t].key]
      /\ IF seen'[t].identity = None THEN Identified(t) = {} ELSE seen'[t].identity \in Identified(t)
      /\ \A u \in Attempts \ {t} : seen'[u] = seen[u]
  <2>1. CASE Identified(t) = {} /\ UNCHANGED seen
    BY <1>1, <1>3, <2>1 DEF TypeOK
  <2>2. CASE \E r \in Identified(t) : seen' = [seen EXCEPT ![t].identity = r]
    <3>1. PICK r \in Identified(t) : seen' = [seen EXCEPT ![t].identity = r]
      BY <2>2
    <3>2. r \in Attempts /\ r # None BY <1>4
    <3>3. seen \in [Attempts -> [key : Attempts \cup {None}, identity : Attempts \cup {None}]]
      BY <1>1 DEF TypeOK
    <3>4. seen'[t].identity = r /\ seen'[t].key = seen[t].key
      BY <3>1, <3>3
    <3>5. seen' \in [Attempts -> [key : Attempts \cup {None}, identity : Attempts \cup {None}]]
      BY <3>1, <3>2, <3>3
    <3>6. \A u \in Attempts \ {t} : seen'[u] = seen[u]
      BY <3>1, <3>3
    <3> QED BY <1>3, <3>2, <3>4, <3>5, <3>6
  <2> QED BY <1>1, <2>1, <2>2
<1>6. TypeOK'
  BY <1>1, <1>2, <1>5 DEF TypeOK
<1>7. Locked(t)'
  BY <1>1, <1>2 DEF Sound, Locked, Holds, AtWork, Inside, Waiting
<1>8. Informed(t)'
  BY <1>1, <1>2, <1>5 DEF Sound, Informed
<1>9. Drafted(t)'
  BY <1>1, <1>2 DEF Sound, Drafted
<1>10. Written(t)'
  BY <1>1, <1>2 DEF Sound, Written, Asked
<1> QED BY <1>1, <1>2, <1>5, <1>6, <1>7, <1>8, <1>9, <1>10, OneAttempt DEF Sound

(* The decision rests on rows that are still as they were read. *)
LEMMA DecideInv ==
  ASSUME Inv, NEW t \in Attempts, Decide(t)
  PROVE  Inv'
<1>1. Sound(t) /\ pc[t] = "decide" /\ TypeOK /\ AtWork(t)
  BY DEF Inv, Decide, AtWork, Inside, Waiting
<1>2. draft[t] = NoDraft /\ ~poisoned[t]
  BY <1>1 DEF Sound, Drafted, Written
<1>3. CASE Found(t) # None /\ ~Replayable(t) /\ Fails(t) /\ UNCHANGED draft
  BY <1>1, <1>3, FailsInv DEF Waiting
<1>4. ASSUME NEW next \in {"create", "bind", "end"}, GoTo(t, next),
             UNCHANGED <<request, committedRows, lock, seen, draft, poisoned>>,
             next = "create" <=> Found(t) = None, Found(t) # None => Replayable(t),
             next = "bind" => seen[t].key = None,
             next = "end" => seen[t].key # None
      PROVE  Inv'
  <2>1. /\ pc' \in [Attempts -> {"idle", "end", "committed", "rolledBack"} \cup Waiting]
        /\ \A l \in Keys \cup Identities : lock'[l] # None => pc'[lock'[l]] \in Waiting \cup {"end"}
        /\ pc'[t] = next /\ \A u \in Attempts \ {t} : pc'[u] = pc[u]
        /\ UNCHANGED <<request, receipt, binding, effects, answer, draft, poisoned, lock, seen>>
        /\ Identified(t)' = Identified(t)
    BY <1>4, MovesOn DEF Waiting
  <2>2. Found(t)' = Found(t) /\ Replayable(t)' = Replayable(t)
    BY <2>1 DEF Found, Replayable, Match
  <2>3. TypeOK'
    BY <1>1, <2>1 DEF TypeOK
  <2>4. Locked(t)'
    BY <1>1, <2>1 DEF Sound, Locked, Holds, AtWork, Inside, Waiting
  <2>5. Informed(t)'
    BY <1>1, <2>1 DEF Sound, Informed
  <2>6. Drafted(t)'
    <3>1. draft'[t] = NoDraft /\ NoDraft.receipt.identity = None
      BY <1>2, <2>1 DEF NoDraft, NoReceipt
    <3>5. Drafting(t, NoReceipt, None, FALSE)'
      BY <3>1 DEF Drafting, NoDraft
    <3>2. next = "end" => seen'[t].key # None /\ Found(t)' # None /\ Replayable(t)'
      BY <1>4, <2>1, <2>2
    <3>3. next = "bind" => seen'[t].key = None /\ Found(t)' # None /\ Replayable(t)'
      BY <1>4, <2>1, <2>2
    <3>4. next = "create" => Found(t)' = None
      BY <1>4, <2>2
    <3> QED BY <2>1, <3>1, <3>2, <3>3, <3>4, <3>5 DEF Drafted
  <2>7. Written(t)'
    BY <1>1, <1>2, <2>1 DEF Sound, Written, Asked
  <2> QED BY <2>1, <2>3, <2>4, <2>5, <2>6, <2>7, OneAttempt DEF Sound, committedRows
<1>5. CASE Found(t) = None /\ GoTo(t, "create")
           /\ UNCHANGED <<request, committedRows, lock, seen, draft, poisoned>>
  BY <1>4, <1>5
<1>6. CASE /\ Found(t) # None /\ Replayable(t)
           /\ GoTo(t, IF BindsOnReplay(t) THEN "bind" ELSE "end")
           /\ UNCHANGED <<request, committedRows, lock, seen, draft, poisoned>>
  <2>1. CASE seen[t].key = None
    BY <1>4, <1>6, <2>1 DEF BindsOnReplay
  <2>2. CASE seen[t].key # None
    BY <1>4, <1>6, <2>2 DEF BindsOnReplay
  <2> QED BY <2>1, <2>2
<1> QED BY <1>3, <1>5, <1>6 DEF Decide

(* A draft that others cannot have made is all that the writes add. *)
LEMMA WriteInv ==
  ASSUME Inv, NEW t \in Attempts, pc[t] \in {"create", "bind", "effect", "complete"},
         NEW next \in {"bind", "effect", "complete", "end"}, GoTo(t, next),
         NEW d \in Drafts, draft' = [draft EXCEPT ![t] = d],
         UNCHANGED <<request, committedRows, lock, seen, poisoned>>,
         Drafted(t)'
  PROVE  Inv'
<1>1. Sound(t) /\ AtWork(t) /\ TypeOK
  BY DEF Inv, AtWork, Inside, Waiting
<1>2. /\ pc' \in [Attempts -> {"idle", "end", "committed", "rolledBack"} \cup Waiting]
      /\ \A l \in Keys \cup Identities : lock'[l] # None => pc'[lock'[l]] \in Waiting \cup {"end"}
      /\ pc'[t] = next /\ \A u \in Attempts \ {t} : pc'[u] = pc[u]
      /\ UNCHANGED <<request, receipt, binding, effects, answer, poisoned, lock, seen>>
      /\ Identified(t)' = Identified(t)
  BY MovesOn DEF Waiting
<1>3. draft' \in [Attempts -> Drafts] /\ \A u \in Attempts \ {t} : draft'[u] = draft[u]
  BY <1>1 DEF TypeOK, Drafts
<1>4. TypeOK'
  BY <1>1, <1>2, <1>3 DEF TypeOK, Drafts
<1>5. Locked(t)'
  BY <1>1, <1>2 DEF Sound, Locked, Holds
<1>6. Informed(t)'
  BY <1>1, <1>2 DEF Sound, Informed
<1>7. Written(t)'
  BY <1>1, <1>2 DEF Sound, Written, Asked
<1> QED BY <1>2, <1>3, <1>4, <1>5, <1>6, <1>7, OneAttempt DEF Sound, committedRows

(* The receipt is drafted as being processed. *)
LEMMA CreateInv ==
  ASSUME Inv, NEW t \in Attempts, Create(t)
  PROVE  Inv'
<1>1. Sound(t) /\ pc[t] = "create" /\ TypeOK
  BY DEF Inv, Create
<1>2. CASE Identified(t) # {} /\ Fails(t) /\ UNCHANGED draft
  BY <1>1, <1>2, FailsInv DEF Waiting
<1>3. CASE /\ draft' = [draft EXCEPT ![t].receipt =
                       [status |-> "processing", identity |-> request[t].identity,
                        payload |-> request[t].payload]]
           /\ GoTo(t, "bind")
           /\ UNCHANGED <<request, committedRows, lock, seen, poisoned>>
  <2> DEFINE d == [draft[t] EXCEPT !.receipt = Asked(t, "processing")]
  <2>1. draft[t] = NoDraft /\ Found(t) = None /\ Found(t)' = Found(t) /\ draft[t] \in Drafts
    BY <1>1, <1>3 DEF Sound, Drafted, Found, TypeOK, Drafts
  <2>2. draft[t].bound = None /\ ~draft[t].effect
    BY <2>1 DEF NoDraft
  <2>3. /\ draft' = [draft EXCEPT ![t] = d] /\ d \in Drafts
        /\ d.receipt = Asked(t, "processing") /\ d.bound = None /\ ~d.effect
    <3>1. draft' = [draft EXCEPT ![t] = d]
      BY <1>3 DEF Asked
    <3>2. Asked(t, "processing") \in Receipts
      BY DraftTypes
    <3>3. PICK n : n = d OBVIOUS
    <3>4. n \in Drafts /\ n.receipt = Asked(t, "processing") /\ n.bound = draft[t].bound
          /\ n.effect = draft[t].effect
      BY <2>1, <3>2, <3>3, ReceiptRedrafted
    <3> HIDE DEF d
    <3> QED BY <2>2, <3>1, <3>3, <3>4
  <2> HIDE DEF d
  <2>4. draft'[t] = d /\ pc'[t] = "bind" /\ Asked(t, "processing")' = Asked(t, "processing")
    BY <1>1, <1>3, <2>3 DEF TypeOK, GoTo, Asked
  <2>5. seen'[t].key = None
    BY <1>1, <1>3, <2>1, NoneAssumption DEF Found
  <2>6. d.receipt.identity = request'[t].identity
    BY <1>3, <2>3 DEF Asked
  <2>7. Drafted(t)'
    BY <2>1, <2>3, <2>4, <2>5, <2>6 DEF Drafted, Drafting
  <2> QED BY <1>1, <1>3, <2>3, <2>7, WriteInv
<1> QED BY <1>2, <1>3 DEF Create

(* The key is bound to the own receipt, or to the one that is replayed. *)
LEMMA BindInv ==
  ASSUME Inv, NEW t \in Attempts, Bind(t)
  PROVE  Inv'
<1>1. Sound(t) /\ pc[t] = "bind" /\ TypeOK /\ draft[t] \in Drafts
  BY DEF Inv, Bind, TypeOK, Drafts
<1>2. CASE binding[request[t].key] # None /\ Fails(t) /\ UNCHANGED draft
  BY <1>1, <1>2, FailsInv DEF Waiting
<1>3. CASE /\ draft' = [draft EXCEPT ![t].bound = IF Found(t) = None THEN t ELSE Found(t)]
           /\ GoTo(t, IF Found(t) = None THEN "effect" ELSE "end")
           /\ UNCHANGED <<request, committedRows, lock, seen, poisoned>>
  <2> DEFINE b == IF Found(t) = None THEN t ELSE Found(t)
             next == IF Found(t) = None THEN "effect" ELSE "end"
             d == [draft[t] EXCEPT !.bound = b]
  <2>1. b \in Attempts \cup {None}
    BY <1>1 DEF Found, TypeOK
  <2>2. /\ draft' = [draft EXCEPT ![t] = d] /\ d \in Drafts
        /\ d.receipt = draft[t].receipt /\ d.bound = b /\ d.effect = draft[t].effect
    BY <1>1, <1>3, <2>1, Redrafted
  <2> HIDE DEF d
  <2>3. /\ draft'[t] = d /\ pc'[t] = next /\ GoTo(t, next)
        /\ next \in {"bind", "effect", "complete", "end"}
    BY <1>1, <1>3, <2>2 DEF TypeOK, GoTo
  <2>4. /\ seen[t].key = None /\ seen'[t].key = None
        /\ (Found(t) # None => Replayable(t))
        /\ Found(t)' = Found(t) /\ Replayable(t)' = Replayable(t)
        /\ Asked(t, "processing")' = Asked(t, "processing") /\ request' = request
    BY <1>1, <1>3 DEF Sound, Drafted, Found, Replayable, Match, committedRows, Asked
  <2>5. draft[t].receipt.identity \in {None, request[t].identity}
    BY <1>1 DEF Sound, Drafted
  <2>6. Drafted(t)'
    <3>1. CASE Found(t) = None
      <4>1. Drafting(t, Asked(t, "processing"), None, FALSE)
        BY <1>1, <3>1 DEF Sound, Drafted
      <4>2. Drafting(t, Asked(t, "processing"), t, FALSE)'
        BY <2>2, <2>3, <2>4, <3>1, <4>1 DEF Drafting
      <4> QED BY <2>2, <2>3, <2>4, <2>5, <3>1, <4>2 DEF Drafted
    <3>2. CASE Found(t) # None
      <4>1. draft[t] = NoDraft
        BY <1>1, <3>2 DEF Sound, Drafted
      <4>2. draft[t].receipt = NoReceipt /\ ~draft[t].effect
        BY <4>1 DEF NoDraft
      <4>3. Drafting(t, NoReceipt, Found(t), FALSE)'
        BY <2>2, <2>3, <2>4, <3>2, <4>2 DEF Drafting
      <4> QED BY <2>2, <2>3, <2>4, <2>5, <3>2, <4>3 DEF Drafted
    <3> QED BY <3>1, <3>2
  <2> QED BY <1>1, <1>3, <2>2, <2>3, <2>6, WriteInv
<1> QED BY <1>2, <1>3 DEF Bind

(* The effect runs once the receipt and the binding are drafted. *)
LEMMA EffectInv ==
  ASSUME Inv, NEW t \in Attempts, Effect(t)
  PROVE  Inv'
<1>1. /\ Sound(t) /\ pc[t] = "effect" /\ TypeOK /\ draft[t] \in Drafts
      /\ draft' = [draft EXCEPT ![t].effect = TRUE]
  BY DEF Inv, Effect, TypeOK, Drafts
<1>2. CASE Fails(t)
  BY <1>1, <1>2, FailsInv DEF Waiting
<1>3. CASE GoTo(t, "complete") /\ UNCHANGED <<request, committedRows, lock, seen, poisoned>>
  <2> DEFINE d == [draft[t] EXCEPT !.effect = TRUE]
  <2>1. /\ Drafting(t, Asked(t, "processing"), t, FALSE)
        /\ draft[t].receipt.identity \in {None, request[t].identity}
        /\ Found(t) = None /\ Found(t)' = Found(t)
        /\ Asked(t, "processing")' = Asked(t, "processing") /\ request' = request
    BY <1>1, <1>3 DEF Sound, Drafted, Found, Asked
  <2>2. /\ draft' = [draft EXCEPT ![t] = d] /\ d \in Drafts
        /\ d.receipt = draft[t].receipt /\ d.bound = draft[t].bound /\ d.effect
    BY <1>1, Redrafted
  <2> HIDE DEF d
  <2>3. draft'[t] = d /\ pc'[t] = "complete"
    BY <1>1, <1>3, <2>2 DEF TypeOK, GoTo
  <2>4. Drafted(t)'
    BY <2>1, <2>2, <2>3 DEF Drafted, Drafting
  <2> QED BY <1>1, <1>3, <2>2, <2>4, WriteInv
<1> QED BY <1>2, <1>3 DEF Effect

(* The receipt ends with the effect. *)
LEMMA CompleteInv ==
  ASSUME Inv, NEW t \in Attempts, Complete(t)
  PROVE  Inv'
<1>1. /\ Sound(t) /\ pc[t] = "complete" /\ TypeOK /\ GoTo(t, "end") /\ draft[t] \in Drafts
      /\ draft' = [draft EXCEPT ![t].receipt.status = "succeeded"]
      /\ UNCHANGED <<request, committedRows, lock, seen, poisoned>>
  BY DEF Inv, Complete, TypeOK, Drafts
<1>2. /\ Drafting(t, Asked(t, "processing"), t, TRUE)
      /\ Found(t) = None /\ Found(t)' = Found(t)
      /\ Asked(t, "succeeded")' = Asked(t, "succeeded") /\ request' = request
  BY <1>1 DEF Sound, Drafted, Found, Asked
<1> DEFINE d == [draft[t] EXCEPT !.receipt = Asked(t, "succeeded")]
<1>3. /\ draft' = [draft EXCEPT ![t] = d] /\ d \in Drafts
      /\ d.receipt = Asked(t, "succeeded") /\ d.bound = draft[t].bound
      /\ d.effect = draft[t].effect
  <2>1. [draft[t].receipt EXCEPT !.status = "succeeded"] = Asked(t, "succeeded")
    BY <1>2 DEF Asked, Drafting
  <2>2. draft' = [draft EXCEPT ![t] = [draft[t] EXCEPT
                    !.receipt = [draft[t].receipt EXCEPT !.status = "succeeded"]]]
    BY <1>1
  <2>3. draft' = [draft EXCEPT ![t] = d]
    BY <2>1, <2>2
  <2>4. Asked(t, "succeeded") \in Receipts
    BY DraftTypes
  <2>5. PICK n : n = d OBVIOUS
  <2>6. n \in Drafts /\ n.receipt = Asked(t, "succeeded") /\ n.bound = draft[t].bound
        /\ n.effect = draft[t].effect
    BY <1>1, <2>4, <2>5, ReceiptRedrafted
  <2> HIDE DEF d
  <2> QED BY <2>3, <2>5, <2>6
<1> HIDE DEF d
<1>4. draft'[t] = d /\ pc'[t] = "end" /\ d.receipt.identity = request'[t].identity
  BY <1>1, <1>2, <1>3 DEF TypeOK, GoTo, Asked
<1>5. Drafted(t)'
  BY <1>2, <1>3, <1>4 DEF Drafted, Drafting
<1> QED BY <1>1, <1>3, <1>5, WriteInv

-------------------------------------------------------------------------------
(* The end of the root gives back the locks of t, and no other. *)
LEMMA EndTypes ==
  ASSUME Inv, NEW t \in Attempts, NEW last \in {"committed", "rolledBack"}, GoTo(t, last),
         lock' = Released(t), draft' = [draft EXCEPT ![t] = NoDraft],
         UNCHANGED <<request, seen, poisoned>>
  PROVE  /\ pc' \in [Attempts -> {"idle", "end", "committed", "rolledBack"} \cup Waiting]
         /\ lock' \in [Keys \cup Identities -> Attempts \cup {None}]
         /\ \A l \in Keys \cup Identities : lock'[l] # None => pc'[lock'[l]] \in Waiting \cup {"end"}
         /\ draft' \in [Attempts -> Drafts]
         /\ pc'[t] = last /\ draft'[t] = NoDraft
         /\ \A u \in Attempts \ {t} : pc'[u] = pc[u] /\ draft'[u] = draft[u]
         /\ \A u \in Attempts \ {t}, l \in Keys \cup Identities : lock[l] = u => lock'[l] = u
<1>1. TypeOK /\ draft \in [Attempts -> Drafts] /\ NoDraft \in Drafts
  BY DraftTypes DEF Inv, TypeOK, Drafts
<1>2. /\ pc' \in [Attempts -> {"idle", "end", "committed", "rolledBack"} \cup Waiting]
      /\ pc'[t] = last /\ \A u \in Attempts \ {t} : pc'[u] = pc[u]
  BY <1>1 DEF TypeOK, GoTo
<1>3. /\ lock' \in [Keys \cup Identities -> Attempts \cup {None}]
      /\ \A l \in Keys \cup Identities : lock'[l] # None => lock'[l] = lock[l] /\ lock[l] # t
      /\ \A u \in Attempts \ {t}, l \in Keys \cup Identities : lock[l] = u => lock'[l] = u
  BY <1>1 DEF TypeOK, Released
<1>4. \A l \in Keys \cup Identities : lock'[l] # None => pc'[lock'[l]] \in Waiting \cup {"end"}
  BY <1>1, <1>2, <1>3 DEF TypeOK
<1>5. /\ draft' \in [Attempts -> Drafts] /\ draft'[t] = NoDraft
      /\ \A u \in Attempts \ {t} : draft'[u] = draft[u]
  BY <1>1
<1> QED BY <1>2, <1>3, <1>4, <1>5

(* A transaction that is rolled back leaves nothing. *)
LEMMA RollbackInv ==
  ASSUME Inv, NEW t \in Attempts, Rollback(t)
  PROVE  Inv'
<1>1. /\ Sound(t) /\ TypeOK /\ pc[t] \in Waiting \cup {"end"} /\ GoTo(t, "rolledBack")
      /\ draft' = [draft EXCEPT ![t] = NoDraft] /\ lock' = Released(t)
      /\ UNCHANGED <<request, receipt, binding, effects, answer, seen, poisoned>>
  BY DEF Inv, Rollback, committedRows
<1>2. /\ pc' \in [Attempts -> {"idle", "end", "committed", "rolledBack"} \cup Waiting]
      /\ lock' \in [Keys \cup Identities -> Attempts \cup {None}]
      /\ \A l \in Keys \cup Identities : lock'[l] # None => pc'[lock'[l]] \in Waiting \cup {"end"}
      /\ draft' \in [Attempts -> Drafts]
      /\ pc'[t] = "rolledBack" /\ draft'[t] = NoDraft
      /\ \A u \in Attempts \ {t} : pc'[u] = pc[u] /\ draft'[u] = draft[u]
      /\ \A u \in Attempts \ {t}, l \in Keys \cup Identities : lock[l] = u => lock'[l] = u
  BY <1>1, EndTypes
<1>3. TypeOK'
  BY <1>1, <1>2 DEF TypeOK, Drafts
<1>4. NoDraft.receipt.identity = None
  BY DEF NoDraft, NoReceipt
<1>5. Locked(t)'
  BY <1>2 DEF Locked, AtWork, Inside, Waiting
<1>6. Informed(t)'
  BY <1>2 DEF Informed, AtWork, Inside, Waiting
<1>7. Drafted(t)'
  BY <1>2, <1>4 DEF Drafted
<1>8. Written(t)'
  BY <1>1, <1>2 DEF Sound, Written, Asked, Waiting
<1> QED BY <1>1, <1>2, <1>3, <1>5, <1>6, <1>7, <1>8, OneAttempt DEF Sound, committedRows

(***************************************************************************)
(* What a commit does to the committed rows: a command that nobody had     *)
(* answered for is performed, or the receipt that was found answers.       *)
(***************************************************************************)
Performs(t) ==
  /\ binding[request[t].key] = None /\ Identified(t) = {}
  /\ receipt' = [receipt EXCEPT ![t] = Asked(t, "succeeded")]
  /\ binding' = [binding EXCEPT ![request[t].key] = t]
  /\ effects' = effects \cup {t}
  /\ answer' = [answer EXCEPT ![t] = t]

Replays(t, r) ==
  /\ \/ binding[request[t].key] = r
     \/ binding[request[t].key] = None /\ r \in Identified(t)
  /\ Match(t, r) /\ receipt[r].status = "succeeded"
  /\ binding' = [binding EXCEPT ![request[t].key] = r]
  /\ answer' = [answer EXCEPT ![t] = r]
  /\ UNCHANGED <<receipt, effects>>

(* A commit performs or replays, and nothing else. *)
LEMMA CommitMeans ==
  ASSUME Inv, NEW t \in Attempts, Commit(t)
  PROVE  Performs(t) \/ \E r \in Attempts : Replays(t, r)
<1>1. /\ Sound(t) /\ TypeOK /\ pc[t] = "end" /\ ~poisoned[t] /\ AtWork(t)
      /\ request[t].key \in Keys
  BY DEF Inv, Commit, Commits, AtWork, TypeOK, Requests
<1>2. /\ seen[t].key = binding[request[t].key]
      /\ IF seen[t].identity = None THEN Identified(t) = {} ELSE seen[t].identity \in Identified(t)
  BY <1>1 DEF Sound, Informed
<1>3. CASE Found(t) = None
  <2>1. binding[request[t].key] = None /\ Identified(t) = {}
    BY <1>2, <1>3, NoneAssumption DEF Found
  <2>2. Drafting(t, Asked(t, "succeeded"), t, TRUE)
    BY <1>1, <1>3 DEF Sound, Drafted
  <2>3. draft[t].receipt.status = "succeeded" /\ draft[t].bound # None /\ draft[t].effect
    BY <2>2, NoneAssumption DEF Drafting, Asked
  <2>4. Performs(t)
    BY <1>3, <2>1, <2>2, <2>3 DEF Performs, Commit, Drafting
  <2> QED BY <2>4
<1>4. CASE Found(t) # None
  <2>1. /\ Found(t) \in Attempts /\ Replayable(t)
        /\ Drafting(t, NoReceipt, IF seen[t].key = None THEN Found(t) ELSE None, FALSE)
    BY <1>1, <1>4 DEF Sound, Drafted, Found, TypeOK
  <2>2. draft[t].receipt.status = "absent" /\ ~draft[t].effect
    BY <2>1 DEF Drafting, NoReceipt
  <2>3. UNCHANGED <<receipt, effects>> /\ answer' = [answer EXCEPT ![t] = Found(t)]
    BY <1>4, <2>2 DEF Commit
  <2>4. binding' = [binding EXCEPT ![request[t].key] = Found(t)]
    <3>1. CASE seen[t].key = None
      BY <1>4, <2>1, <3>1 DEF Commit, Drafting
    <3>2. CASE seen[t].key # None
      <4>1. binding' = binding /\ binding[request[t].key] = Found(t)
        BY <1>2, <2>1, <3>2 DEF Commit, Drafting, Found
      <4> QED BY <1>1, <4>1 DEF TypeOK
    <3> QED BY <3>1, <3>2
  <2>5. \/ binding[request[t].key] = Found(t)
        \/ binding[request[t].key] = None /\ Found(t) \in Identified(t)
    BY <1>2, <1>4 DEF Found
  <2> QED BY <2>1, <2>3, <2>4, <2>5 DEF Replays, Replayable
<1> QED BY <1>3, <1>4

(* The locks keep what others know true, and what they replay is final. *)
LEMMA CommitInv ==
  ASSUME Inv, NEW t \in Attempts, Commit(t)
  PROVE  Inv'
<1>1. /\ Sound(t) /\ TypeOK /\ pc[t] = "end" /\ ~poisoned[t] /\ Holds(t) /\ GoTo(t, "committed")
      /\ draft' = [draft EXCEPT ![t] = NoDraft] /\ lock' = Released(t)
      /\ UNCHANGED <<request, seen, poisoned>> /\ request[t] \in Requests
  BY DEF Inv, Commit, Commits, TypeOK, Sound, Locked, AtWork
<1>2. /\ pc' \in [Attempts -> {"idle", "end", "committed", "rolledBack"} \cup Waiting]
      /\ lock' \in [Keys \cup Identities -> Attempts \cup {None}]
      /\ \A l \in Keys \cup Identities : lock'[l] # None => pc'[lock'[l]] \in Waiting \cup {"end"}
      /\ draft' \in [Attempts -> Drafts]
      /\ pc'[t] = "committed" /\ draft'[t] = NoDraft
      /\ \A u \in Attempts \ {t} : pc'[u] = pc[u] /\ draft'[u] = draft[u]
      /\ \A u \in Attempts \ {t}, l \in Keys \cup Identities : lock[l] = u => lock'[l] = u
  BY <1>1, EndTypes
<1>3. receipt[t] = NoReceipt /\ receipt[t].status = "absent" /\ t \notin effects
  BY <1>1 DEF Sound, Written, NoReceipt
<1>4. Asked(t, "succeeded") \in Receipts /\ Asked(t, "succeeded").status = "succeeded"
      /\ Asked(t, "succeeded").identity = request[t].identity
  BY DraftTypes DEF Asked
<1>5. /\ receipt' \in [Attempts -> Receipts] /\ effects' \subseteq Attempts
      /\ binding' \in [Keys -> Attempts \cup {None}] /\ answer' \in [Attempts -> Attempts \cup {None}]
      /\ receipt'[t] \in {NoReceipt, Asked(t, "succeeded")}
      /\ t \in effects' <=> receipt'[t].status = "succeeded"
      /\ \A u \in Attempts \ {t} : /\ receipt'[u] = receipt[u] /\ answer'[u] = answer[u]
                                   /\ u \in effects' <=> u \in effects
      /\ \A k \in Keys \ {request[t].key} : binding'[k] = binding[k]
      /\ \E r \in Attempts : binding'[request[t].key] = r /\ receipt'[r].status = "succeeded"
  <2>1. request[t].key \in Keys BY <1>1 DEF Requests
  <2>2. CASE Performs(t)
    <3>1. /\ receipt' \in [Attempts -> Receipts] /\ receipt'[t] = Asked(t, "succeeded")
          /\ \A u \in Attempts \ {t} : receipt'[u] = receipt[u]
      BY <1>1, <1>4, <2>2 DEF Performs, TypeOK
    <3> QED BY <1>1, <1>4, <2>1, <2>2, <3>1 DEF Performs, TypeOK
  <2>3. CASE \E r \in Attempts : Replays(t, r)
    <3>1. PICK r \in Attempts : Replays(t, r) BY <2>3
    <3>2. receipt' = receipt /\ effects' = effects BY <3>1 DEF Replays
    <3>3. /\ binding' = [binding EXCEPT ![request[t].key] = r]
          /\ answer' = [answer EXCEPT ![t] = r] /\ receipt[r].status = "succeeded"
      BY <3>1 DEF Replays
    <3>4. /\ binding' \in [Keys -> Attempts \cup {None}] /\ binding'[request[t].key] = r
          /\ \A k \in Keys \ {request[t].key} : binding'[k] = binding[k]
          /\ answer' \in [Attempts -> Attempts \cup {None}]
          /\ \A u \in Attempts \ {t} : answer'[u] = answer[u]
      BY <1>1, <2>1, <3>3 DEF TypeOK
    <3> QED BY <1>1, <1>3, <3>2, <3>3, <3>4 DEF TypeOK
  <2> QED BY <2>2, <2>3, CommitMeans
<1>6. TypeOK'
  BY <1>1, <1>2, <1>5 DEF TypeOK, Drafts
<1>7. BoundToReceipts'
  <2>1. ASSUME NEW k \in Keys, binding'[k] # None
        PROVE  receipt'[binding'[k]].status = "succeeded"
    <3>1. CASE k = request[t].key BY <1>5, <3>1
    <3>2. CASE k # request[t].key
      <4>1. binding'[k] = binding[k] /\ binding[k] \in Attempts
        BY <1>1, <1>5, <2>1, <3>2 DEF TypeOK
      <4>2. receipt[binding[k]].status = "succeeded"
        BY <2>1, <4>1 DEF Inv, BoundToReceipts
      <4> QED BY <1>3, <1>5, <4>1, <4>2
    <3> QED BY <3>1, <3>2
  <2> QED BY <2>1 DEF BoundToReceipts
<1>8. Sound(t)'
  <2>1. Locked(t)'
    BY <1>2 DEF Locked, AtWork, Inside, Waiting
  <2>2. Informed(t)'
    BY <1>2 DEF Informed, AtWork, Inside, Waiting
  <2>3. Drafted(t)'
    BY <1>2 DEF Drafted, NoDraft, NoReceipt
  <2>4. Asked(t, "succeeded")' = Asked(t, "succeeded")
    BY <1>1 DEF Asked
  <2>5. Written(t)'
    BY <1>1, <1>2, <1>5, <2>4 DEF Written
  <2> QED BY <2>1, <2>2, <2>3, <2>5 DEF Sound
<1>9. ASSUME NEW u \in Attempts \ {t}
      PROVE  Sound(u)'
  <2>1. /\ Sound(u) /\ pc'[u] = pc[u] /\ draft'[u] = draft[u] /\ seen'[u] = seen[u]
        /\ poisoned'[u] = poisoned[u] /\ request'[u] = request[u] /\ request[u] \in Requests
        /\ Found(u)' = Found(u)
    BY <1>1, <1>2 DEF Inv, TypeOK, Found
  <2>2. Locked(u)'
    BY <1>2, <2>1 DEF Sound, Locked, Holds, AtWork, Requests
  <2>3. Informed(u)'
    <3>1. ASSUME Holds(u)
          PROVE  /\ binding'[request[u].key] = binding[request[u].key]
                 /\ Identified(u)' = Identified(u)
      <4>1. request[u].key # request[t].key /\ request[u].key \in Keys
        BY <1>1, <2>1, <3>1 DEF Holds, Requests
      <4>2. request[u].identity # None => request[u].identity # request[t].identity
        BY <1>1, <3>1 DEF Holds
      <4>3. t \notin Identified(u)
        BY <1>3 DEF Identified
      <4>4. request[u].identity # None => ~(receipt'[t].status # "absent"
                                            /\ receipt'[t].identity = request[u].identity)
        BY <1>4, <1>5, <4>2 DEF NoReceipt
      <4>5. ASSUME NEW r \in Attempts
            PROVE  r \in Identified(u)' <=> r \in Identified(u)
        <5>1. CASE r = t BY <2>1, <4>3, <4>4, <5>1 DEF Identified
        <5>2. CASE r # t BY <1>5, <2>1, <5>2 DEF Identified
        <5> QED BY <5>1, <5>2
      <4>6. Identified(u) \subseteq Attempts /\ Identified(u)' \subseteq Attempts
        BY DEF Identified
      <4> QED BY <1>5, <4>1, <4>5, <4>6
    <3>2. AtWork(u)' = AtWork(u) /\ (AtWork(u) => Holds(u))
      BY <2>1 DEF AtWork, Sound, Locked
    <3> QED BY <2>1, <3>1, <3>2 DEF Sound, Informed
  <2>4. Drafted(u)'
    <3>1. Found(u) \in Attempts \cup {None} BY DEF Found, Inv, TypeOK
    <3>2. Found(u) # None /\ Replayable(u) => Replayable(u)'
      BY <1>3, <1>5, <2>1, <3>1 DEF Replayable, Match
    <3>3. \A status : Asked(u, status)' = Asked(u, status)
      BY <2>1 DEF Asked
    <3> QED BY <2>1, <3>2, <3>3 DEF Sound, Drafted, Drafting
  <2>5. Written(u)'
    BY <1>5, <2>1 DEF Sound, Written, Asked
  <2> QED BY <2>2, <2>3, <2>4, <2>5 DEF Sound
<1> QED BY <1>6, <1>7, <1>8, <1>9 DEF Inv

(* Every step preserves the invariant. *)
LEMMA NextInv == Inv /\ [Next]_vars => Inv'
<1> SUFFICES ASSUME Inv, [Next]_vars PROVE Inv'
  OBVIOUS
<1>1. CASE UNCHANGED vars
  <2>1. TypeOK' /\ BoundToReceipts'
    BY <1>1 DEF Inv, TypeOK, vars, BoundToReceipts
  <2>2. ASSUME NEW t \in Attempts PROVE Sound(t)'
    <3>1. Sound(t) BY DEF Inv
    <3>2. Locked(t)'
      BY <1>1, <3>1, Zenon DEF vars, Sound, Locked, Holds, AtWork
    <3>3. Informed(t)'
      BY <1>1, <3>1, Zenon DEF vars, Sound, Informed, AtWork, Identified
    <3>4. Drafted(t)'
      <4>1. Drafted(t)' = Drafted(t)
        BY <1>1, Zenon DEF vars, Drafted, Drafting, Asked, Found, Replayable, Match
      <4> QED BY <3>1, <4>1, Zenon DEF Sound
    <3>5. Written(t)'
      BY <1>1, <3>1, Zenon DEF vars, Sound, Written, Asked
    <3> QED BY <3>2, <3>3, <3>4, <3>5, Zenon DEF Sound
  <2> QED BY <2>1, <2>2 DEF Inv
<1>2. CASE Next
  <2>1. PICK t \in Attempts :
          \/ Begin(t) \/ LockIdentity(t) \/ LockKey(t) \/ ReadKey(t) \/ ReadIdentity(t)
          \/ Decide(t) \/ Create(t) \/ Bind(t) \/ Effect(t) \/ Complete(t)
          \/ QueryFails(t) \/ Commit(t) \/ Rollback(t)
    BY <1>2 DEF Next
  <2> QED BY <2>1, BeginInv, LockIdentityInv, LockKeyInv, ReadKeyInv, ReadIdentityInv, DecideInv,
             CreateInv, BindInv, EffectInv, CompleteInv, QueryFailsInv, CommitInv, RollbackInv
<1> QED BY <1>1, <1>2

(***************************************************************************)
(* Every reachable state has the invariant, whatever the attempts, the     *)
(* keys, the identities and the payloads.                                  *)
(***************************************************************************)
THEOREM Invariant == Spec => []Inv
<1>1. Init => Inv BY InitInv
<1>2. Inv /\ [Next]_vars => Inv' BY NextInv
<1> QED BY <1>1, <1>2, PTL DEF Spec

(* The types of the model. *)
THEOREM TypeCorrect == Spec => []TypeOK
<1>1. Inv => TypeOK BY DEF Inv
<1> QED BY <1>1, Invariant, PTL

(* Whoever has drafted something for a key or an identity has its lock. *)
LEMMA InvLocksSuffice == Inv => LocksSuffice
<1> SUFFICES ASSUME Inv, NEW t \in Attempts
             PROVE  /\ pc[t] = "create" => ~IdentityDrafted(t) /\ Identified(t) = {}
                    /\ pc[t] = "bind" => ~KeyDrafted(t) /\ binding[request[t].key] = None
  BY DEF LocksSuffice
<1>1. Sound(t) /\ (pc[t] \in {"create", "bind"} => AtWork(t) /\ Holds(t))
  BY DEF Inv, Sound, Locked, AtWork, Inside, Waiting
<1>2. ASSUME NEW u \in Attempts \ {t}, Holds(t), draft[u] # NoDraft
      PROVE  /\ request[u].key # request[t].key
             /\ request[t].identity # None => request[u].identity # request[t].identity
  <2>1. Holds(u) BY <1>2 DEF Inv, Sound, Locked
  <2> QED BY <1>2, <2>1 DEF Holds
<1>3. ASSUME pc[t] = "create"
      PROVE  ~IdentityDrafted(t) /\ Identified(t) = {}
  <2>1. Found(t) = None BY <1>1, <1>3 DEF Sound, Drafted
  <2>2. Identified(t) = {}
    BY <1>1, <1>3, <2>1, NoneAssumption DEF Found, Sound, Informed
  <2>3. ASSUME NEW u \in Attempts \ {t}, request[t].identity # None,
               draft[u].receipt.identity = request[t].identity
        PROVE  FALSE
    <3>1. request[u].identity = request[t].identity
      BY <2>3 DEF Inv, Sound, Drafted
    <3>2. draft[u] # NoDraft
      BY <2>3 DEF NoDraft, NoReceipt
    <3> QED BY <1>1, <1>2, <1>3, <2>3, <3>1, <3>2
  <2> QED BY <2>2, <2>3 DEF IdentityDrafted
<1>4. ASSUME pc[t] = "bind"
      PROVE  ~KeyDrafted(t) /\ binding[request[t].key] = None
  <2>1. binding[request[t].key] = None
    BY <1>1, <1>4 DEF Sound, Informed, Drafted
  <2>2. ASSUME NEW u \in Attempts \ {t}, draft[u].bound # None, request[u].key = request[t].key
        PROVE  FALSE
    <3>1. draft[u] # NoDraft BY <2>2 DEF NoDraft
    <3> QED BY <1>1, <1>2, <1>4, <2>2, <3>1
  <2> QED BY <2>1, <2>2 DEF KeyDrafted
<1> QED BY <1>3, <1>4

(***************************************************************************)
(* The advisory locks suffice: what execute read is still so when it       *)
(* writes, and no insert ever meets a unique index.                        *)
(***************************************************************************)
THEOREM LocksAlwaysSuffice == Spec => []LocksSuffice
<1>1. Inv => LocksSuffice BY InvLocksSuffice
<1> QED BY <1>1, Invariant, PTL

(* What has been committed: an effect for each succeeded receipt, and no other. *)
EffectsAreAnsweredFor ==
  \A t \in Attempts :
    /\ t \in effects <=> receipt[t].status = "succeeded"
    /\ receipt[t].status # "processing"
    /\ t \in effects => pc[t] = "committed"

(***************************************************************************)
(* An effect and the receipt that answers for it are committed together:   *)
(* no receipt is ever seen processing, none without its effect, and no     *)
(* effect without the receipt that keeps the command from running again.   *)
(***************************************************************************)
THEOREM EffectsAreAlwaysAnsweredFor == Spec => []EffectsAreAnsweredFor
<1>1. Inv => EffectsAreAnsweredFor
  BY DEF Inv, Sound, Written, NoReceipt, Asked, EffectsAreAnsweredFor
<1> QED BY <1>1, Invariant, PTL

-------------------------------------------------------------------------------
(* A command is not the absence of one. *)
LEMMA CommandsAreNotNone ==
  \A i \in Identities \cup {None}, p \in Payloads : [identity |-> i, payload |-> p] # None
BY NoneAssumption

(* A committed receipt answers with its own request. *)
LEMMA PerformedIs ==
  ASSUME Inv, NEW t \in Attempts
  PROVE  /\ receipt[t].status = "succeeded" =>
              /\ Performed[t] = [identity |-> receipt[t].identity, payload |-> receipt[t].payload]
              /\ Performed[t] # None
         /\ receipt[t].status # "succeeded" => Performed[t] = None
         /\ receipt[t].status # "absent" => receipt[t].status = "succeeded"
<1>1. receipt[t] \in {NoReceipt, Asked(t, "succeeded")} /\ request[t] \in Requests
  BY DEF Inv, Sound, Written, TypeOK
<1>2. receipt[t].status = "succeeded" =>
        /\ receipt[t].identity \in Identities \cup {None} /\ receipt[t].payload \in Payloads
  BY <1>1 DEF NoReceipt, Asked, Requests
<1>3. receipt[t].status # "absent" => receipt[t].status = "succeeded"
  BY <1>1 DEF NoReceipt, Asked
<1> QED BY <1>2, <1>3, CommandsAreNotNone DEF Performed

(* The identities of the receipts are those of the commands performed. *)
LEMMA SameIdentityIs ==
  ASSUME Inv, NEW t \in Attempts
  PROVE  Atomic!SameIdentity(t) = Identified(t)
<1>1. ASSUME NEW r \in Attempts
      PROVE  (Performed[r] # None /\ Performed[r].identity = request[t].identity)
               <=> (receipt[r].status # "absent" /\ receipt[r].identity = request[t].identity)
  <2>1. CASE receipt[r].status = "succeeded"
    <3>1. /\ Performed[r] = [identity |-> receipt[r].identity, payload |-> receipt[r].payload]
          /\ Performed[r] # None
      BY <2>1, PerformedIs
    <3>2. Performed[r].identity = receipt[r].identity
      BY <3>1
    <3> QED BY <2>1, <3>1, <3>2
  <2>2. CASE receipt[r].status # "succeeded"
    BY <2>2, PerformedIs
  <2> QED BY <2>1, <2>2
<1> QED BY <1>1 DEF Atomic!SameIdentity, Identified

(* At the start no command has been performed. *)
LEMMA RefineInit == Init => Atomic!Init
BY DEF Init, Atomic!Init, Atomic!Requests, Requests, Performed, NoReceipt

(* A commit is one step of the abstract specification. *)
LEMMA RefineCommit ==
  ASSUME Inv, NEW t \in Attempts, Commit(t)
  PROVE  Atomic!Next
<1>1. /\ answer[t] = None /\ receipt[t].status = "absent" /\ request[t] \in Requests
      /\ receipt \in [Attempts -> Receipts]
  BY DEF Inv, Sound, Written, Commit, NoReceipt, TypeOK
<1>2. UNCHANGED request BY DEF Commit
<1>3. CASE Performs(t)
  <2>1. Performed' = [Performed EXCEPT ![t] = Atomic!Command(request[t])]
    <3>1. ASSUME NEW r \in Attempts
          PROVE  Performed'[r] = [Performed EXCEPT ![t] = Atomic!Command(request[t])][r]
      <4>1. CASE r = t
        <5>1. receipt'[t] = Asked(t, "succeeded")
          BY <1>1, <1>3 DEF Performs
        <5> QED BY <4>1, <5>1 DEF Performed, Asked, Atomic!Command
      <4>2. CASE r # t
        <5>1. receipt'[r] = receipt[r]
          BY <1>1, <1>3, <4>2 DEF Performs
        <5> QED BY <4>2, <5>1 DEF Performed
      <4> QED BY <4>1, <4>2
    <3> QED BY <3>1 DEF Performed
  <2>2. Atomic!Perform(t)
    BY <1>3, <2>1, SameIdentityIs DEF Performs, Atomic!Perform
  <2> QED BY <1>1, <1>2, <2>2 DEF Atomic!Next
<1>4. ASSUME NEW r \in Attempts, Replays(t, r)
      PROVE  Atomic!Next
  <2>1. receipt[r].status = "succeeded" /\ Match(t, r) /\ receipt' = receipt
    BY <1>4 DEF Replays
  <2>2. Performed[r] = Atomic!Command(request[t])
    BY <2>1, PerformedIs DEF Match, Atomic!Command
  <2>3. Performed' = Performed
    BY <2>1 DEF Performed
  <2>4. Atomic!Replay(t, r)
    BY <1>4, <2>2, <2>3, SameIdentityIs DEF Replays, Atomic!Replay
  <2> QED BY <1>1, <1>2, <2>4 DEF Atomic!Next
<1> QED BY <1>3, <1>4, CommitMeans

(* Everything but a commit is nothing, seen from the committed rows. *)
LEMMA RefineNext == Inv /\ [Next]_vars => [Atomic!Next]_Atomic!vars
<1> SUFFICES ASSUME Inv, [Next]_vars PROVE [Atomic!Next]_Atomic!vars
  OBVIOUS
<1>1. CASE UNCHANGED <<request, committedRows>>
  <2>1. Performed' = Performed BY <1>1 DEF committedRows, Performed
  <2> QED BY <1>1, <2>1 DEF committedRows, Atomic!vars
<1>2. CASE UNCHANGED vars
  BY <1>1, <1>2 DEF vars, committedRows
<1>3. CASE Next
  <2>1. PICK t \in Attempts :
          \/ Begin(t) \/ LockIdentity(t) \/ LockKey(t) \/ ReadKey(t) \/ ReadIdentity(t)
          \/ Decide(t) \/ Create(t) \/ Bind(t) \/ Effect(t) \/ Complete(t)
          \/ QueryFails(t) \/ Commit(t) \/ Rollback(t)
    BY <1>3 DEF Next
  <2>2. Commit(t) \/ UNCHANGED <<request, committedRows>>
    BY <2>1 DEF Begin, LockIdentity, LockKey, Acquire, ReadKey, ReadIdentity, Decide, Create, Bind,
         Effect, Complete, QueryFails, Fails, Rollback
  <2> QED BY <1>1, <2>2, RefineCommit
<1> QED BY <1>2, <1>3

(***************************************************************************)
(* execute implements its abstract specification: seen from the committed  *)
(* rows, a command is performed once for its key and once for its          *)
(* identity, in one step, however the transactions interleave and fail.    *)
(***************************************************************************)
THEOREM ExecuteIsAtomic == Spec => ExecutesAtomically
<1>1. Init => Atomic!Init BY RefineInit
<1>2. Inv /\ [Next]_vars => [Atomic!Next]_Atomic!vars BY RefineNext
<1> QED BY <1>1, <1>2, Invariant, PTL DEF Spec, ExecutesAtomically, Atomic!Spec

-------------------------------------------------------------------------------
(***************************************************************************)
(* Nested transactions on the sessions of the pool: a context holds its    *)
(* session alone, what the server has open of a transaction that can still *)
(* be committed is, level by level, what its calls wrote, and every write  *)
(* is in one place.                                                        *)
(***************************************************************************)
Frames == [wrote : SUBSET Writes, throws : BOOLEAN]

Servers == [alive : BOOLEAN, levels : Seq(SUBSET Writes), aborted : BOOLEAN]

\* A context holds a session as long as it is in calls of withTransaction.
HeldOK(h, q) ==
  /\ h \in [session : Sessions \cup {NoSession}, depth : Nat, poisoned : BOOLEAN]
  /\ q \in Seq(Frames)
  /\ h.depth = Len(q)
  /\ q = <<>> => h = Free
  /\ q # <<>> => h.session \in Sessions

\* What the server has open of a transaction that can still be committed is what its
\* calls wrote; an aborted one is left by throwing, as far as nothing is around it.
Mirrors(h, q, t) ==
  q # <<>> /\ ~h.poisoned /\ t.alive =>
    /\ Len(t.levels) = Len(q)
    /\ \A i \in 1 .. Len(q) : t.levels[i] = q[i].wrote
    /\ t.aborted /\ Len(q) = 1 => q[1].throws

Clean(t) == t.levels = <<>> /\ ~t.aborted

ConnectionTypeOK ==
  /\ DOMAIN held = Contexts /\ DOMAIN frames = Contexts /\ DOMAIN server = Sessions
  /\ held = [c \in Contexts |-> held[c]]
  /\ frames = [c \in Contexts |-> frames[c]]
  /\ server = [s \in Sessions |-> server[s]]
  /\ \A c \in Contexts : HeldOK(held[c], frames[c])
  /\ \A s \in Sessions : server[s] \in Servers

SessionsApart ==
  \A c, d \in Contexts :
    c # d /\ held[c].session = held[d].session => held[c].session = NoSession

AllMirrored == \A c \in Contexts : Mirrors(held[c], frames[c], Session(c))

\* Every write is in one place: it is committed, or rolled back, or one call's.
WritesApart ==
  /\ \A c, d \in Contexts : \A i \in 1 .. Len(frames[c]), j \in 1 .. Len(frames[d]) :
       c # d \/ i # j => frames[c][i].wrote \cap frames[d][j].wrote = {}
  /\ \A c \in Contexts : \A i \in 1 .. Len(frames[c]) :
       /\ frames[c][i].wrote \subseteq issued
       /\ frames[c][i].wrote \cap (durable \cup discarded) = {}
  /\ durable \subseteq issued /\ discarded \subseteq issued

ConnectionInv ==
  /\ ConnectionTypeOK /\ SessionsApart /\ AllMirrored /\ WritesApart /\ TransactionsAreHonest

Wrote(q) == UNION {q[i].wrote : i \in 1 .. Len(q)}

-------------------------------------------------------------------------------
(* The calls around the innermost one. *)
LEMMA FrontIs ==
  ASSUME NEW S, NEW q \in Seq(S), Len(q) # 0
  PROVE  /\ Front(q) \in Seq(S)
         /\ Len(Front(q)) = Len(q) - 1
         /\ \A i \in 1 .. Len(q) - 1 : Front(q)[i] = q[i]
<1> DEFINE n == Len(q) - 1
<1>1. n = Len(q) - 1 OBVIOUS
<1> HIDE DEF n
<1>2. n \in Nat /\ SubSeq(q, 1, n) \in Seq(S) /\ Len(SubSeq(q, 1, n)) = n
  BY <1>1
<1>3. \A i \in 1 .. n : SubSeq(q, 1, n)[i] = q[i]
  BY <1>1
<1> QED BY <1>2, <1>3 DEF Front, n

(* The innermost call in another state. *)
LEMMA InnermostIs ==
  ASSUME NEW S, NEW q \in Seq(S), Len(q) # 0, NEW x \in S
  PROVE  LET r == Append(Front(q), x)
         IN  /\ r \in Seq(S)
             /\ Len(r) = Len(q)
             /\ r[Len(q)] = x
             /\ \A i \in 1 .. Len(q) - 1 : r[i] = q[i]
<1>1. /\ Front(q) \in Seq(S)
      /\ Len(Front(q)) = Len(q) - 1
      /\ \A i \in 1 .. Len(q) - 1 : Front(q)[i] = q[i]
  BY FrontIs
<1> DEFINE f == Front(q)
<1>2. f \in Seq(S) /\ Len(f) = Len(q) - 1 /\ \A i \in 1 .. Len(q) - 1 : f[i] = q[i]
  BY <1>1
<1> HIDE DEF f
<1>3. /\ Append(f, x) \in Seq(S)
      /\ Len(Append(f, x)) = Len(q)
      /\ Append(f, x)[Len(q)] = x
      /\ \A i \in 1 .. Len(q) - 1 : Append(f, x)[i] = q[i]
  BY <1>2
<1> QED BY <1>3 DEF f

(* A sequence with another element in one place. *)
LEMMA ExceptIs ==
  ASSUME NEW S, NEW q \in Seq(S), NEW n \in 1 .. Len(q), NEW x \in S
  PROVE  /\ [q EXCEPT ![n] = x] \in Seq(S)
         /\ Len([q EXCEPT ![n] = x]) = Len(q)
         /\ \A i \in 1 .. Len(q) : [q EXCEPT ![n] = x][i] = IF i = n THEN x ELSE q[i]
OBVIOUS

(* A sequence without elements is the empty one. *)
LEMMA EmptyIs == \A q \in Seq(Frames) : Len(q) = 0 => q = <<>>
OBVIOUS

(* One context goes on, to the transaction h in the calls q; the session s is as t. *)
LEMMA ContextGoes ==
  ASSUME ConnectionInv, NEW c \in Contexts, NEW h, NEW q, NEW s \in Sessions, NEW t \in Servers,
         NEW New,
         held' = [held EXCEPT ![c] = h],
         frames' = [frames EXCEPT ![c] = q],
         server' = [server EXCEPT ![s] = t],
         held[c].session = s \/ (s \in Idle /\ held[c].session = NoSession),
         h.session \in {s, NoSession},
         h.session = NoSession => Clean(t),
         HeldOK(h, q), Mirrors(h, q, t),
         issued' = issued \cup New, New \cap issued = {},
         \A i \in 1 .. Len(q) : /\ q[i].wrote \subseteq Wrote(frames[c]) \cup New
                                /\ q[i].wrote \cap (durable' \cup discarded') = {},
         \A i, j \in 1 .. Len(q) : i # j => q[i].wrote \cap q[j].wrote = {},
         durable' \subseteq durable \cup Wrote(frames[c]) \cup New,
         discarded' \subseteq discarded \cup Wrote(frames[c]),
         durable' \cap discarded' = {},
         promised' \subseteq durable'
  PROVE  ConnectionInv'
<1>1. held'[c] = h /\ frames'[c] = q /\ server'[s] = t
  BY DEF ConnectionInv, ConnectionTypeOK
<1>2. \A d \in Contexts : d # c => held'[d] = held[d] /\ frames'[d] = frames[d]
  BY DEF ConnectionInv, ConnectionTypeOK
<1>3. \A r \in Sessions : r # s => server'[r] = server[r]
  BY DEF ConnectionInv, ConnectionTypeOK
<1>4. \A d \in Contexts : d # c => held[d].session # s
  <2> SUFFICES ASSUME NEW d \in Contexts, d # c, held[d].session = s PROVE FALSE
    OBVIOUS
  <2>1. s # NoSession BY ConnectionAssumption
  <2> QED BY <2>1 DEF ConnectionInv, SessionsApart, Idle
<1>5. ConnectionTypeOK'
  <2>1. DOMAIN held' = Contexts /\ DOMAIN frames' = Contexts /\ DOMAIN server' = Sessions
        /\ held' = [d \in Contexts |-> held'[d]]
        /\ frames' = [d \in Contexts |-> frames'[d]]
        /\ server' = [r \in Sessions |-> server'[r]]
    BY DEF ConnectionInv, ConnectionTypeOK
  <2>2. \A d \in Contexts : HeldOK(held'[d], frames'[d])
    BY <1>1, <1>2 DEF ConnectionInv, ConnectionTypeOK
  <2>3. \A r \in Sessions : server'[r] \in Servers
    BY <1>1, <1>3 DEF ConnectionInv, ConnectionTypeOK
  <2> QED BY <2>1, <2>2, <2>3 DEF ConnectionTypeOK, HeldOK
<1>6. SessionsApart'
  BY <1>1, <1>2, <1>4 DEF ConnectionInv, SessionsApart
<1>7. AllMirrored'
  <2> SUFFICES ASSUME NEW d \in Contexts
               PROVE  Mirrors(held'[d], frames'[d], server'[held'[d].session])
    BY DEF AllMirrored, Session
  <2>1. CASE d = c
    <3>1. CASE q = <<>> BY <1>1, <2>1, <3>1 DEF Mirrors
    <3>2. CASE q # <<>>
      <4>1. h.session = s BY <3>2, ConnectionAssumption DEF HeldOK
      <4> QED BY <1>1, <2>1, <4>1
    <3> QED BY <3>1, <3>2
  <2>2. CASE d # c
    <3>1. CASE frames[d] = <<>> BY <1>2, <2>2, <3>1 DEF Mirrors
    <3>2. CASE frames[d] # <<>>
      <4>1. held[d].session \in Sessions
        BY <3>2 DEF ConnectionInv, ConnectionTypeOK, HeldOK
      <4>2. server'[held[d].session] = server[held[d].session]
        BY <1>3, <1>4, <2>2, <4>1
      <4>3. Mirrors(held[d], frames[d], server[held[d].session])
        BY DEF ConnectionInv, AllMirrored, Session
      <4> QED BY <1>2, <2>2, <4>2, <4>3
    <3> QED BY <3>1, <3>2
  <2> QED BY <2>1, <2>2
<1>8. \A r \in Sessions : r \in Idle' => server'[r].levels = <<>> /\ ~server'[r].aborted
  <2> SUFFICES ASSUME NEW r \in Sessions, r \in Idle'
               PROVE  server'[r].levels = <<>> /\ ~server'[r].aborted
    OBVIOUS
  <2>1. \A d \in Contexts : held'[d].session # r BY DEF Idle
  <2>2. CASE r = s
    <3>1. h.session = NoSession BY <1>1, <2>1, <2>2
    <3> QED BY <1>1, <2>2, <3>1 DEF Clean
  <2>3. CASE r # s
    <3>1. r \in Idle
      BY <1>2, <2>1, <2>3, ConnectionAssumption DEF Idle
    <3> QED BY <1>3, <2>3, <3>1 DEF ConnectionInv, TransactionsAreHonest
  <2> QED BY <2>2, <2>3
<1>9. Wrote(frames[c]) \subseteq issued /\ Wrote(frames[c]) \cap (durable \cup discarded) = {}
  BY DEF ConnectionInv, WritesApart, Wrote
<1>10. \A d \in Contexts : d # c =>
         \A j \in 1 .. Len(frames[d]) : frames[d][j].wrote \cap Wrote(frames[c]) = {}
  BY DEF ConnectionInv, WritesApart, Wrote
<1>11. WritesApart'
  <2>1. \A d \in Contexts : d # c =>
          \A j \in 1 .. Len(frames[d]) :
            /\ frames[d][j].wrote \subseteq issued
            /\ frames[d][j].wrote \cap (Wrote(frames[c]) \cup New) = {}
            /\ frames[d][j].wrote \cap (durable \cup discarded) = {}
    BY <1>10 DEF ConnectionInv, WritesApart
  <2>2. \A d \in Contexts : \A i \in 1 .. Len(frames'[d]) :
          /\ frames'[d][i].wrote \subseteq issued'
          /\ frames'[d][i].wrote \cap (durable' \cup discarded') = {}
    <3> SUFFICES ASSUME NEW d \in Contexts, NEW i \in 1 .. Len(frames'[d])
                 PROVE  /\ frames'[d][i].wrote \subseteq issued'
                        /\ frames'[d][i].wrote \cap (durable' \cup discarded') = {}
      OBVIOUS
    <3>1. CASE d = c BY <1>1, <1>9, <3>1
    <3>2. CASE d # c
      <4>1. frames'[d] = frames[d] BY <1>2, <3>2
      <4>2. /\ frames[d][i].wrote \subseteq issued
            /\ frames[d][i].wrote \cap (Wrote(frames[c]) \cup New) = {}
            /\ frames[d][i].wrote \cap (durable \cup discarded) = {}
        BY <2>1, <3>2, <4>1
      <4> QED BY <4>1, <4>2
    <3> QED BY <3>1, <3>2
  <2>3. \A d, e \in Contexts : \A i \in 1 .. Len(frames'[d]), j \in 1 .. Len(frames'[e]) :
          d # e \/ i # j => frames'[d][i].wrote \cap frames'[e][j].wrote = {}
    <3> SUFFICES ASSUME NEW d \in Contexts, NEW e \in Contexts,
                        NEW i \in 1 .. Len(frames'[d]), NEW j \in 1 .. Len(frames'[e]),
                        d # e \/ i # j
                 PROVE  frames'[d][i].wrote \cap frames'[e][j].wrote = {}
      OBVIOUS
    <3>1. CASE d = c /\ e = c BY <1>1, <3>1
    <3>2. CASE d = c /\ e # c
      <4>1. frames'[e] = frames[e] BY <1>2, <3>2
      <4>2. frames[e][j].wrote \cap (Wrote(frames[c]) \cup New) = {} BY <2>1, <3>2, <4>1
      <4>3. frames'[d][i].wrote \subseteq Wrote(frames[c]) \cup New BY <1>1, <3>2
      <4> QED BY <4>1, <4>2, <4>3
    <3>3. CASE d # c /\ e = c
      <4>1. frames'[d] = frames[d] BY <1>2, <3>3
      <4>2. frames[d][i].wrote \cap (Wrote(frames[c]) \cup New) = {} BY <2>1, <3>3, <4>1
      <4>3. frames'[e][j].wrote \subseteq Wrote(frames[c]) \cup New BY <1>1, <3>3
      <4> QED BY <4>1, <4>2, <4>3
    <3>4. CASE d # c /\ e # c
      <4>1. frames'[d] = frames[d] /\ frames'[e] = frames[e] BY <1>2, <3>4
      <4> QED BY <4>1 DEF ConnectionInv, WritesApart
    <3> QED BY <3>1, <3>2, <3>3, <3>4
  <2>4. durable' \subseteq issued' /\ discarded' \subseteq issued'
    BY <1>9 DEF ConnectionInv, WritesApart
  <2> QED BY <2>2, <2>3, <2>4 DEF WritesApart
<1>12. TransactionsAreHonest'
  <2>1. Idle' \subseteq Sessions BY DEF Idle
  <2> QED BY <1>8, <2>1 DEF TransactionsAreHonest
<1> QED BY <1>5, <1>6, <1>7, <1>11, <1>12 DEF ConnectionInv

(* What a context has while it is in a call of withTransaction. *)
LEMMA InCall ==
  ASSUME ConnectionInv, NEW c \in Contexts, frames[c] # <<>>
  PROVE  /\ held[c].session \in Sessions
         /\ held[c] \in [session : Sessions \cup {NoSession}, depth : Nat, poisoned : BOOLEAN]
         /\ held[c].depth = Len(frames[c])
         /\ frames[c] \in Seq(Frames)
         /\ Len(frames[c]) \in Nat /\ Len(frames[c]) # 0
         /\ Inner(c) = frames[c][Len(frames[c])] /\ Inner(c) \in Frames
         /\ Session(c) = server[held[c].session] /\ Session(c) \in Servers
         /\ Mirrors(held[c], frames[c], Session(c))
<1>1. HeldOK(held[c], frames[c]) BY DEF ConnectionInv, ConnectionTypeOK
<1>2. frames[c] \in Seq(Frames) /\ Len(frames[c]) \in Nat BY <1>1 DEF HeldOK
<1>3. Len(frames[c]) # 0 BY <1>2, EmptyIs
<1>4. frames[c][Len(frames[c])] \in Frames BY <1>2, <1>3
<1>5. Mirrors(held[c], frames[c], Session(c)) BY DEF ConnectionInv, AllMirrored
<1>6. held[c].session \in Sessions BY <1>1 DEF HeldOK
<1>7. server[held[c].session] \in Servers BY <1>6 DEF ConnectionInv, ConnectionTypeOK
<1> QED BY <1>1, <1>2, <1>3, <1>4, <1>5, <1>6, <1>7 DEF HeldOK, Inner, Session

(* What a context is while it is in none. *)
LEMMA OutOfCalls ==
  ASSUME ConnectionInv, NEW c \in Contexts, frames[c] = <<>>
  PROVE  /\ held[c] = Free /\ held[c].session = NoSession
         /\ HeldOK(held[c], frames[c])
         /\ Wrote(frames[c]) = {}
<1>1. HeldOK(held[c], frames[c]) BY DEF ConnectionInv, ConnectionTypeOK
<1>2. held[c] = Free BY <1>1 DEF HeldOK
<1>3. Wrote(<<>>) = {}
  <2>1. \A x : x \notin Wrote(<<>>)
    <3> SUFFICES ASSUME NEW x, x \in Wrote(<<>>) PROVE FALSE OBVIOUS
    <3>1. PICK i \in 1 .. Len(<<>>) : TRUE BY DEF Wrote
    <3> QED BY <3>1
  <2> QED BY <2>1
<1> QED BY <1>1, <1>2, <1>3 DEF Free

(* The writes of the calls a context is in: all apart, and nowhere else yet. *)
LEMMA CallsWrites ==
  ASSUME ConnectionInv, NEW c \in Contexts
  PROVE  /\ \A i \in 1 .. Len(frames[c]) :
              /\ frames[c][i].wrote \subseteq Wrote(frames[c])
              /\ frames[c][i].wrote \cap (durable \cup discarded) = {}
         /\ \A i, j \in 1 .. Len(frames[c]) :
              i # j => frames[c][i].wrote \cap frames[c][j].wrote = {}
         /\ Wrote(frames[c]) \subseteq issued
         /\ durable \subseteq issued /\ discarded \subseteq issued
         /\ promised \subseteq durable /\ durable \cap discarded = {}
BY DEF ConnectionInv, WritesApart, TransactionsAreHonest, Wrote

(* Nothing is as it was not: a context that stays and a session that stays. *)
LEMMA Stays ==
  ASSUME ConnectionInv
  PROVE  /\ \A c \in Contexts : /\ held = [held EXCEPT ![c] = held[c]]
                                /\ frames = [frames EXCEPT ![c] = frames[c]]
         /\ \A s \in Sessions : server = [server EXCEPT ![s] = server[s]]
BY DEF ConnectionInv, ConnectionTypeOK

(* The sessions of the pool have no transaction. *)
LEMMA IdleIs ==
  ASSUME ConnectionInv, NEW s \in Idle
  PROVE  s \in Sessions /\ server[s] \in Servers /\ Clean(server[s])
BY DEF ConnectionInv, ConnectionTypeOK, TransactionsAreHonest, Idle, Clean

(* A step of a context that moves no write, within calls that wrote what calls did. *)
LEMMA NoWriteMoves ==
  ASSUME ConnectionInv, NEW c \in Contexts, NEW h, NEW q, NEW s \in Sessions, NEW t \in Servers,
         held' = [held EXCEPT ![c] = h],
         frames' = [frames EXCEPT ![c] = q],
         server' = [server EXCEPT ![s] = t],
         held[c].session = s \/ (s \in Idle /\ held[c].session = NoSession),
         h.session \in {s, NoSession},
         h.session = NoSession => Clean(t),
         HeldOK(h, q), Mirrors(h, q, t),
         UNCHANGED <<durable, promised, discarded, issued>>,
         \A i \in 1 .. Len(q) :
           q[i].wrote = {} \/ (i \in 1 .. Len(frames[c]) /\ q[i].wrote = frames[c][i].wrote)
  PROVE  ConnectionInv'
<1>1. \A i \in 1 .. Len(q) : /\ q[i].wrote \subseteq Wrote(frames[c]) \cup {}
                             /\ q[i].wrote \cap (durable' \cup discarded') = {}
  BY CallsWrites
<1>2. \A i, j \in 1 .. Len(q) : i # j => q[i].wrote \cap q[j].wrote = {}
  BY CallsWrites
<1>3. durable' \subseteq durable \cup Wrote(frames[c]) \cup {}
      /\ discarded' \subseteq discarded \cup Wrote(frames[c])
      /\ durable' \cap discarded' = {} /\ promised' \subseteq durable'
      /\ issued' = issued \cup {} /\ {} \cap issued = {}
  BY CallsWrites
<1> QED BY <1>1, <1>2, <1>3, ContextGoes

-------------------------------------------------------------------------------
(* A context notices that its session died. *)
LEMMA NoticeKeeps ==
  ASSUME ConnectionInv, NEW c \in Contexts, Notice(c)
  PROVE  ConnectionInv'
<1> DEFINE h == [held[c] EXCEPT !.poisoned = TRUE]
<1> DEFINE q == frames[c]
<1> DEFINE s == held[c].session
<1>1. frames[c] # <<>> BY OutOfCalls DEF Notice
<1>2. h \in [session : Sessions \cup {NoSession}, depth : Nat, poisoned : BOOLEAN]
      /\ h.session = s /\ h.depth = held[c].depth /\ h.poisoned
  BY <1>1, InCall
<1>3. s \in Sessions /\ server[s] \in Servers /\ s # NoSession
  BY <1>1, InCall, ConnectionAssumption
<1>4. held' = [held EXCEPT ![c] = h]
  BY DEF Notice, Poisoned, ConnectionInv, ConnectionTypeOK
<1>5. frames' = [frames EXCEPT ![c] = q] /\ server' = [server EXCEPT ![s] = server[s]]
  BY <1>3, Stays DEF Notice
<1>6. HeldOK(h, q) BY <1>1, <1>2, <1>3, InCall DEF HeldOK
<1>7. Mirrors(h, q, server[s]) BY <1>2 DEF Mirrors
<1>8. UNCHANGED <<durable, promised, discarded, issued>> BY DEF Notice
<1> HIDE DEF h
<1> QED BY <1>2, <1>3, <1>4, <1>5, <1>6, <1>7, <1>8, NoWriteMoves

(* An outermost transaction begins, or the session it would have is not there any more. *)
LEMMA BeginOutermostKeeps ==
  ASSUME ConnectionInv, NEW c \in Contexts, BeginOutermost(c)
  PROVE  ConnectionInv'
<1>1. frames[c] = <<>> /\ held[c] = Free /\ held[c].session = NoSession
  BY OutOfCalls DEF BeginOutermost
<1>2. UNCHANGED <<durable, promised, discarded, issued>> BY DEF BeginOutermost
<1>3. CASE \E s \in Idle :
             /\ server[s].alive
             /\ server' = [server EXCEPT ![s].levels = Append(@, {})]
             /\ held' = [held EXCEPT ![c] = [session |-> s, depth |-> 1, poisoned |-> FALSE]]
             /\ frames' = [frames EXCEPT ![c] = <<Called>>]
  <2>1. PICK s \in Idle :
             /\ server[s].alive
             /\ server' = [server EXCEPT ![s].levels = Append(@, {})]
             /\ held' = [held EXCEPT ![c] = [session |-> s, depth |-> 1, poisoned |-> FALSE]]
             /\ frames' = [frames EXCEPT ![c] = <<Called>>]
    BY <1>3
  <2>2. s \in Sessions /\ server[s] \in Servers /\ server[s].levels = <<>> /\ ~server[s].aborted
    BY IdleIs DEF Clean
  <2> DEFINE h == [session |-> s, depth |-> 1, poisoned |-> FALSE]
  <2> DEFINE q == <<Called>>
  <2> DEFINE t == [server[s] EXCEPT !.levels = Append(@, {})]
  <2>3. h \in [session : Sessions \cup {NoSession}, depth : Nat, poisoned : BOOLEAN]
        /\ h.session = s /\ h.depth = 1 /\ ~h.poisoned
    BY <2>2
  <2>4. q \in Seq(Frames) /\ Len(q) = 1 /\ q[1].wrote = {} /\ q # <<>>
    BY DEF Called, Frames
  <2>5. t \in Servers /\ t.levels = Append(<<>>, {}) /\ t.aborted = FALSE
    <3>1. Append(server[s].levels, {}) \in Seq(SUBSET Writes) BY <2>2 DEF Servers
    <3> QED BY <2>2, <3>1 DEF Servers
  <2>6. Len(t.levels) = 1 /\ t.levels[1] = {} BY <2>5
  <2>7. server' = [server EXCEPT ![s] = t]
    BY <2>1, <2>2 DEF ConnectionInv, ConnectionTypeOK
  <2>8. held' = [held EXCEPT ![c] = h] /\ frames' = [frames EXCEPT ![c] = q] BY <2>1
  <2> HIDE DEF h, q, t
  <2>9. HeldOK(h, q) BY <2>2, <2>3, <2>4 DEF HeldOK
  <2>10. Mirrors(h, q, t) BY <2>4, <2>5, <2>6 DEF Mirrors
  <2>11. \A i \in 1 .. Len(q) : q[i].wrote = {} BY <2>4
  <2>12. h.session # NoSession BY <2>2, <2>3, ConnectionAssumption
  <2> QED
    BY <1>1, <1>2, <2>2, <2>3, <2>5, <2>7, <2>8, <2>9, <2>10, <2>11, <2>12, NoWriteMoves
<1>4. CASE \E s \in Idle :
             /\ ~server[s].alive
             /\ server' = [server EXCEPT ![s] = Returned(TRUE, server[s])]
             /\ UNCHANGED <<held, frames>>
  <2>1. PICK s \in Idle :
             /\ server' = [server EXCEPT ![s] = Returned(TRUE, server[s])]
             /\ UNCHANGED <<held, frames>>
    BY <1>4
  <2>2. s \in Sessions BY IdleIs
  <2>3. Returned(TRUE, server[s]) = Fresh /\ Fresh \in Servers /\ Clean(Fresh)
    BY DEF Returned, Fresh, Servers, Clean
  <2>4. held' = [held EXCEPT ![c] = held[c]] /\ frames' = [frames EXCEPT ![c] = frames[c]]
    BY <2>1, Stays
  <2>5. HeldOK(held[c], frames[c]) /\ Mirrors(held[c], frames[c], Fresh)
    BY <1>1, OutOfCalls DEF Mirrors
  <2>6. \A i \in 1 .. Len(frames[c]) : i \in 1 .. Len(frames[c]) /\ frames[c][i].wrote = frames[c][i].wrote
    OBVIOUS
  <2> QED BY <1>1, <1>2, <2>1, <2>2, <2>3, <2>4, <2>5, <2>6, NoWriteMoves
<1> QED BY <1>3, <1>4 DEF BeginOutermost

(* A savepoint begins, or it fails and the transaction is poisoned. *)
LEMMA BeginNestedKeeps ==
  ASSUME ConnectionInv, NEW c \in Contexts, BeginNested(c)
  PROVE  ConnectionInv'
<1> DEFINE s == held[c].session
<1> DEFINE n == Len(frames[c])
<1>1. frames[c] # <<>> BY DEF BeginNested
<1>2. /\ s \in Sessions /\ s # NoSession /\ held[c].depth = n /\ n \in Nat
      /\ frames[c] \in Seq(Frames)
      /\ Session(c) = server[s] /\ server[s] \in Servers
      /\ Mirrors(held[c], frames[c], server[s])
  BY <1>1, InCall, ConnectionAssumption
<1>3. UNCHANGED <<durable, promised, discarded, issued>> BY DEF BeginNested
<1>4. held[c] \in [session : Sessions \cup {NoSession}, depth : Nat, poisoned : BOOLEAN]
  BY <1>1, InCall
<1>5. CASE /\ Accepts(c)
           /\ Levels(c, Append(Session(c).levels, {}))
           /\ held' = [held EXCEPT ![c].depth = @ + 1]
           /\ frames' = [frames EXCEPT ![c] = Append(@, Called)]
  <2> DEFINE h == [held[c] EXCEPT !.depth = @ + 1]
  <2> DEFINE q == Append(frames[c], Called)
  <2> DEFINE t == [server[s] EXCEPT !.levels = Append(server[s].levels, {})]
  <2>1. ~held[c].poisoned /\ server[s].alive /\ ~server[s].aborted
    BY <1>2, <1>5 DEF Accepts, Answers
  <2>2. h \in [session : Sessions \cup {NoSession}, depth : Nat, poisoned : BOOLEAN]
        /\ h.session = s /\ h.depth = n + 1
    BY <1>2, <1>4
  <2>3. Called \in Frames /\ Called.wrote = {} BY DEF Called, Frames
  <2>4. q \in Seq(Frames) /\ Len(q) = n + 1 /\ q[n + 1] = Called
        /\ \A i \in 1 .. n : q[i] = frames[c][i]
    BY <1>2, <2>3
  <2>5. Len(server[s].levels) = n /\ \A i \in 1 .. n : server[s].levels[i] = frames[c][i].wrote
    BY <1>1, <1>2, <2>1 DEF Mirrors
  <2>6. server[s].levels \in Seq(SUBSET Writes) BY <1>2 DEF Servers
  <2>7. t \in Servers /\ t.levels = Append(server[s].levels, {}) /\ t.aborted = FALSE
    <3>1. Append(server[s].levels, {}) \in Seq(SUBSET Writes) BY <2>6
    <3> QED BY <1>2, <2>1, <3>1 DEF Servers
  <2>8. Len(t.levels) = n + 1 /\ t.levels[n + 1] = {}
        /\ \A i \in 1 .. n : t.levels[i] = frames[c][i].wrote
    <3> DEFINE l == server[s].levels
    <3> DEFINE m == n
    <3>1. l \in Seq(SUBSET Writes) /\ Len(l) = m /\ m \in Nat BY <1>2, <2>5, <2>6
    <3>2. t.levels = Append(l, {}) /\ m = n BY <2>7
    <3>3. \A i \in 1 .. n : l[i] = frames[c][i].wrote BY <2>5
    <3> HIDE DEF l, m, n, t
    <3>4. /\ Len(Append(l, {})) = m + 1 /\ Append(l, {})[m + 1] = {}
          /\ \A i \in 1 .. m : Append(l, {})[i] = l[i]
      BY <3>1
    <3> QED BY <3>2, <3>3, <3>4
  <2>9. server' = [server EXCEPT ![s] = t]
    BY <1>2, <1>5 DEF ConnectionInv, ConnectionTypeOK, Levels, Session
  <2>10. held' = [held EXCEPT ![c] = h] BY <1>5 DEF ConnectionInv, ConnectionTypeOK
  <2>11. frames' = [frames EXCEPT ![c] = q] BY <1>5
  <2> HIDE DEF h, q, t
  <2>12. \A i \in 1 .. Len(q) : i \in 1 .. n \/ i = n + 1 BY <1>2, <2>4
  <2>13. q # <<>> BY <1>2, <2>4
  <2>14. HeldOK(h, q) BY <1>2, <2>2, <2>4, <2>13 DEF HeldOK
  <2>15. Mirrors(h, q, t)
    <3>1. \A i \in 1 .. Len(q) : t.levels[i] = q[i].wrote BY <2>3, <2>4, <2>8, <2>12
    <3> QED BY <2>4, <2>7, <2>8, <3>1 DEF Mirrors
  <2>16. \A i \in 1 .. Len(q) :
           q[i].wrote = {} \/ (i \in 1 .. Len(frames[c]) /\ q[i].wrote = frames[c][i].wrote)
    BY <2>3, <2>4, <2>12
  <2> QED
    BY <1>2, <1>3, <2>2, <2>7, <2>9, <2>10, <2>11, <2>14, <2>15, <2>16, NoWriteMoves
<1>6. CASE ~Accepts(c) /\ Poisoned(c) /\ UNCHANGED <<server, frames>>
  <2> DEFINE h == [held[c] EXCEPT !.poisoned = TRUE]
  <2>1. h \in [session : Sessions \cup {NoSession}, depth : Nat, poisoned : BOOLEAN]
        /\ h.session = s /\ h.depth = n /\ h.poisoned
    BY <1>2, <1>4
  <2>2. held' = [held EXCEPT ![c] = h]
    BY <1>6 DEF Poisoned, ConnectionInv, ConnectionTypeOK
  <2>3. frames' = [frames EXCEPT ![c] = frames[c]] /\ server' = [server EXCEPT ![s] = server[s]]
    BY <1>2, <1>6, Stays
  <2> HIDE DEF h
  <2>4. HeldOK(h, frames[c]) BY <1>1, <1>2, <2>1 DEF HeldOK
  <2>5. Mirrors(h, frames[c], server[s]) BY <2>1 DEF Mirrors
  <2> QED BY <1>2, <1>3, <2>1, <2>2, <2>3, <2>4, <2>5, NoWriteMoves
<1> QED BY <1>5, <1>6 DEF BeginNested

(* The innermost work throws. *)
LEMMA WorkThrowsKeeps ==
  ASSUME ConnectionInv, NEW c \in Contexts, WorkThrows(c)
  PROVE  ConnectionInv'
<1> DEFINE s == held[c].session
<1> DEFINE n == Len(frames[c])
<1>1. frames[c] # <<>> BY DEF WorkThrows
<1>2. /\ s \in Sessions /\ s # NoSession /\ held[c].depth = n /\ n \in Nat /\ n # 0
      /\ frames[c] \in Seq(Frames)
      /\ Session(c) = server[s] /\ server[s] \in Servers
      /\ Mirrors(held[c], frames[c], server[s])
      /\ Inner(c) = frames[c][n] /\ Inner(c) \in Frames
  BY <1>1, InCall, ConnectionAssumption
<1>3. held[c] \in [session : Sessions \cup {NoSession}, depth : Nat, poisoned : BOOLEAN]
  BY <1>1, InCall
<1> DEFINE x == [Inner(c) EXCEPT !.throws = TRUE]
<1> DEFINE q == Append(Front(frames[c]), x)
<1>4. x \in Frames /\ x.wrote = frames[c][n].wrote /\ x.throws
  BY <1>2 DEF Frames
<1>5. q \in Seq(Frames) /\ Len(q) = n /\ q[n] = x /\ \A i \in 1 .. n - 1 : q[i] = frames[c][i]
  BY <1>2, <1>4, InnermostIs
<1>6. frames' = [frames EXCEPT ![c] = q]
  BY DEF WorkThrows, Throws, InnerIs
<1>7. held' = [held EXCEPT ![c] = held[c]] /\ server' = [server EXCEPT ![s] = server[s]]
  BY <1>2, Stays DEF WorkThrows
<1> HIDE DEF x, q
<1>8. \A i \in 1 .. n : q[i].wrote = frames[c][i].wrote
  BY <1>2, <1>4, <1>5
<1>9. q # <<>> BY <1>2, <1>5
<1>10. HeldOK(held[c], q) BY <1>2, <1>3, <1>5, <1>9 DEF HeldOK
<1>11. Mirrors(held[c], q, server[s])
  BY <1>1, <1>2, <1>4, <1>5, <1>8 DEF Mirrors
<1>12. UNCHANGED <<durable, promised, discarded, issued>> BY DEF WorkThrows
<1> QED BY <1>2, <1>5, <1>6, <1>7, <1>8, <1>10, <1>11, <1>12, NoWriteMoves

(* Inner work issues a write: it reaches the innermost level, or fails. *)
LEMMA QueryKeeps ==
  ASSUME ConnectionInv, NEW c \in Contexts, NEW k \in Writes, Query(c, k)
  PROVE  ConnectionInv'
<1> DEFINE s == held[c].session
<1> DEFINE n == Len(frames[c])
<1>1. frames[c] # <<>> BY DEF Query
<1>2. /\ s \in Sessions /\ s # NoSession /\ held[c].depth = n /\ n \in Nat /\ n # 0
      /\ frames[c] \in Seq(Frames)
      /\ Session(c) = server[s] /\ server[s] \in Servers
      /\ Mirrors(held[c], frames[c], server[s])
      /\ Inner(c) = frames[c][n] /\ Inner(c) \in Frames
  BY <1>1, InCall, ConnectionAssumption
<1>3. held[c] \in [session : Sessions \cup {NoSession}, depth : Nat, poisoned : BOOLEAN]
  BY <1>1, InCall
<1>4. /\ k \notin issued /\ issued' = issued \cup {k} /\ UNCHANGED <<held, promised, discarded>>
  BY DEF Query
<1>5. held' = [held EXCEPT ![c] = held[c]] BY <1>4, Stays
<1>6. /\ \A i \in 1 .. n : /\ frames[c][i].wrote \subseteq Wrote(frames[c])
                           /\ frames[c][i].wrote \cap (durable \cup discarded) = {}
      /\ \A i, j \in 1 .. n : i # j => frames[c][i].wrote \cap frames[c][j].wrote = {}
      /\ Wrote(frames[c]) \subseteq issued
      /\ durable \subseteq issued /\ discarded \subseteq issued
      /\ promised \subseteq durable /\ durable \cap discarded = {}
  BY CallsWrites
<1>7. \A i \in 1 .. n : i \in 1 .. n - 1 \/ i = n BY <1>2
<1>8. CASE /\ ~held[c].poisoned
           /\ Reaches(held[c].session, k)
           /\ InnerIs(c, [Inner(c) EXCEPT !.wrote = @ \cup {k}])
  <2> DEFINE x == [Inner(c) EXCEPT !.wrote = @ \cup {k}]
  <2> DEFINE q == Append(Front(frames[c]), x)
  <2> DEFINE l == [server[s].levels EXCEPT ![n] = @ \cup {k}]
  <2> DEFINE t == [server[s] EXCEPT !.levels = l]
  <2>1. server[s].alive /\ ~server[s].aborted BY <1>8 DEF Reaches
  <2>2. Len(server[s].levels) = n /\ \A i \in 1 .. n : server[s].levels[i] = frames[c][i].wrote
    BY <1>1, <1>2, <1>8, <2>1 DEF Mirrors
  <2>3. server[s].levels \in Seq(SUBSET Writes) BY <1>2 DEF Servers
  <2>4. x \in Frames /\ x.wrote = frames[c][n].wrote \cup {k}
    BY <1>2 DEF Frames
  <2>5. q \in Seq(Frames) /\ Len(q) = n /\ q[n] = x /\ \A i \in 1 .. n - 1 : q[i] = frames[c][i]
    BY <1>2, <2>4, InnermostIs
  <2>6. /\ l \in Seq(SUBSET Writes) /\ Len(l) = n
        /\ \A i \in 1 .. n : l[i] = IF i = n THEN frames[c][n].wrote \cup {k} ELSE frames[c][i].wrote
    <3>1. server[s].levels[n] \cup {k} \in SUBSET Writes /\ n \in 1 .. Len(server[s].levels)
      BY <1>2, <2>2, <2>3
    <3> DEFINE L == server[s].levels
    <3> DEFINE w == server[s].levels[n] \cup {k}
    <3>2. /\ [L EXCEPT ![n] = w] \in Seq(SUBSET Writes)
          /\ Len([L EXCEPT ![n] = w]) = Len(L)
          /\ \A i \in 1 .. Len(L) : [L EXCEPT ![n] = w][i] = IF i = n THEN w ELSE L[i]
      <4>1. L \in Seq(SUBSET Writes) /\ n \in 1 .. Len(L) /\ w \in SUBSET Writes
        BY <2>3, <3>1
      <4> HIDE DEF L, w, n
      <4> QED BY <4>1, ExceptIs
    <3>3. w = frames[c][n].wrote \cup {k} /\ Len(L) = n
          /\ \A i \in 1 .. n : L[i] = frames[c][i].wrote
      BY <1>2, <2>2
    <3>4. l = [L EXCEPT ![n] = w] OBVIOUS
    <3> HIDE DEF L, w, l, n
    <3> QED BY <3>2, <3>3, <3>4
  <2>7. t \in Servers /\ t.levels = l /\ ~t.aborted /\ t.aborted = FALSE
    <3> HIDE DEF l
    <3> QED BY <1>2, <2>1, <2>6 DEF Servers
  <2>8. server' = [server EXCEPT ![s] = t] /\ durable' = durable
    BY <1>2, <1>8, <2>2 DEF Reaches, ConnectionInv, ConnectionTypeOK
  <2>9. frames' = [frames EXCEPT ![c] = q] BY <1>8 DEF InnerIs
  <2> HIDE DEF x, q, l, t
  <2>10. q # <<>> BY <1>2, <2>5
  <2>11. HeldOK(held[c], q) BY <1>2, <1>3, <2>5, <2>10 DEF HeldOK
  <2>12. \A i \in 1 .. n : q[i].wrote = IF i = n THEN frames[c][n].wrote \cup {k} ELSE frames[c][i].wrote
    BY <1>7, <2>4, <2>5
  <2>13. Mirrors(held[c], q, t)
    BY <2>5, <2>6, <2>7, <2>12 DEF Mirrors
  <2>14. \A i \in 1 .. n : q[i].wrote \subseteq frames[c][i].wrote \cup {k}
                           /\ (i # n => k \notin q[i].wrote)
    <3>1. \A i \in 1 .. n : k \notin frames[c][i].wrote BY <1>4, <1>6
    <3> QED BY <2>12, <3>1
  <2>15. \A i \in 1 .. Len(q) : /\ q[i].wrote \subseteq Wrote(frames[c]) \cup {k}
                                /\ q[i].wrote \cap (durable' \cup discarded') = {}
    BY <1>4, <1>6, <2>5, <2>8, <2>14
  <2>16. \A i, j \in 1 .. Len(q) : i # j => q[i].wrote \cap q[j].wrote = {}
    BY <1>6, <2>5, <2>14
  <2>17. {k} \cap issued = {} BY <1>4
  <2>18. /\ durable' \subseteq durable \cup Wrote(frames[c]) \cup {k}
         /\ discarded' \subseteq discarded \cup Wrote(frames[c])
         /\ durable' \cap discarded' = {} /\ promised' \subseteq durable'
    BY <1>4, <1>6, <2>8
  <2> QED
    BY <1>2, <1>4, <1>5, <2>7, <2>8, <2>9, <2>11, <2>13, <2>15, <2>16, <2>17, <2>18, ContextGoes
<1>9. CASE /\ IF Accepts(c) THEN server' = [server EXCEPT ![held[c].session].aborted = TRUE]
              ELSE UNCHANGED server
           /\ Throws(c) \/ (Len(frames[c]) > 1 /\ UNCHANGED frames)
           /\ UNCHANGED durable
  <2> DEFINE t == IF Accepts(c) THEN [server[s] EXCEPT !.aborted = TRUE] ELSE server[s]
  <2> DEFINE x == [Inner(c) EXCEPT !.throws = TRUE]
  <2> DEFINE q == IF Throws(c) THEN Append(Front(frames[c]), x) ELSE frames[c]
  <2>1. t \in Servers /\ t.levels = server[s].levels /\ t.alive = server[s].alive
        /\ (t.aborted => server[s].aborted \/ Accepts(c))
    BY <1>2 DEF Servers
  <2>2. server' = [server EXCEPT ![s] = t]
    <3>1. CASE Accepts(c)
      BY <1>2, <1>9, <3>1 DEF ConnectionInv, ConnectionTypeOK
    <3>2. CASE ~Accepts(c) BY <1>2, <1>9, <3>2, Stays
    <3> QED BY <3>1, <3>2
  <2>3. x \in Frames /\ x.wrote = frames[c][n].wrote /\ x.throws
    BY <1>2 DEF Frames
  <2>4. q \in Seq(Frames) /\ Len(q) = n /\ (Throws(c) => q[n] = x)
        /\ \A i \in 1 .. n - 1 : q[i] = frames[c][i]
    <3>1. CASE Throws(c) BY <1>2, <2>3, <3>1, InnermostIs
    <3>2. CASE ~Throws(c) BY <1>2, <3>2
    <3> QED BY <3>1, <3>2
  <2>5. \A i \in 1 .. n : q[i].wrote = frames[c][i].wrote
    <3>1. CASE Throws(c)
      <4> HIDE DEF q, x
      <4> QED BY <1>7, <2>3, <2>4, <3>1
    <3>2. CASE ~Throws(c) BY <3>2
    <3> QED BY <3>1, <3>2
  <2>6. frames' = [frames EXCEPT ![c] = q]
    <3>1. CASE Throws(c) BY <3>1 DEF Throws, InnerIs
    <3>2. CASE ~Throws(c) BY <1>9, <3>2, Stays
    <3> QED BY <3>1, <3>2
  <2>7. n # 1 \/ Throws(c) BY <1>2, <1>9
  <2> HIDE DEF t, x, q
  <2>8. q # <<>> BY <1>2, <2>4
  <2>9. HeldOK(held[c], q) BY <1>2, <1>3, <2>4, <2>8 DEF HeldOK
  <2>10. Mirrors(held[c], q, t)
    <3> SUFFICES ASSUME ~held[c].poisoned, t.alive PROVE Mirrors(held[c], q, t)
      BY DEF Mirrors
    <3>1. /\ Len(server[s].levels) = n
          /\ \A i \in 1 .. n : server[s].levels[i] = frames[c][i].wrote
      BY <1>1, <1>2, <2>1 DEF Mirrors
    <3>2. n = 1 => q[1].throws BY <2>3, <2>4, <2>7
    <3> QED BY <2>1, <2>4, <2>5, <3>1, <3>2 DEF Mirrors
  <2>11. \A i \in 1 .. Len(q) : /\ q[i].wrote \subseteq Wrote(frames[c]) \cup {k}
                                /\ q[i].wrote \cap (durable' \cup discarded') = {}
    BY <1>4, <1>6, <1>9, <2>4, <2>5
  <2>12. \A i, j \in 1 .. Len(q) : i # j => q[i].wrote \cap q[j].wrote = {}
    BY <1>6, <2>4, <2>5
  <2>13. {k} \cap issued = {} BY <1>4
  <2>14. /\ durable' \subseteq durable \cup Wrote(frames[c]) \cup {k}
         /\ discarded' \subseteq discarded \cup Wrote(frames[c])
         /\ durable' \cap discarded' = {} /\ promised' \subseteq durable'
    BY <1>4, <1>6, <1>9
  <2> QED
    BY <1>2, <1>4, <1>5, <2>1, <2>2, <2>6, <2>9, <2>10, <2>11, <2>12, <2>13, <2>14, ContextGoes
<1> QED BY <1>8, <1>9 DEF Query

(* A query outside a transaction is committed at once. *)
LEMMA QueryAloneKeeps ==
  ASSUME ConnectionInv, NEW c \in Contexts, NEW k \in Writes, QueryAlone(c, k)
  PROVE  ConnectionInv'
<1>1. frames[c] = <<>> /\ k \notin issued /\ issued' = issued \cup {k}
      /\ promised' = promised \cup {k} /\ UNCHANGED <<held, frames, discarded>>
  BY DEF QueryAlone
<1>2. held[c].session = NoSession /\ HeldOK(held[c], frames[c])
  BY <1>1, OutOfCalls
<1>3. PICK s \in Idle : Reaches(s, k) BY DEF QueryAlone
<1>4. s \in Sessions /\ server[s] \in Servers /\ Clean(server[s]) BY IdleIs
<1>5. Len(server[s].levels) = 0 BY <1>4 DEF Clean
<1>6. durable' = durable \cup {k} /\ UNCHANGED server BY <1>3, <1>5 DEF Reaches
<1>7. /\ held' = [held EXCEPT ![c] = held[c]]
      /\ frames' = [frames EXCEPT ![c] = frames[c]]
      /\ server' = [server EXCEPT ![s] = server[s]]
  BY <1>1, <1>4, <1>6, Stays
<1>8. Mirrors(held[c], frames[c], server[s]) BY <1>1 DEF Mirrors
<1>9. \A i \in 1 .. Len(frames[c]) : FALSE BY <1>1
<1>10. /\ durable' \subseteq durable \cup Wrote(frames[c]) \cup {k}
       /\ discarded' \subseteq discarded \cup Wrote(frames[c])
       /\ durable' \cap discarded' = {} /\ promised' \subseteq durable'
       /\ {k} \cap issued = {}
  BY <1>1, <1>6, CallsWrites
<1> QED BY <1>1, <1>2, <1>3, <1>4, <1>7, <1>8, <1>9, <1>10, ContextGoes

(* A savepoint is released: what was written since is the transaction's around it. *)
LEMMA CommitNestedKeeps ==
  ASSUME ConnectionInv, NEW c \in Contexts, CommitNested(c)
  PROVE  ConnectionInv'
<1> DEFINE s == held[c].session
<1> DEFINE n == Len(frames[c])
<1> DEFINE f == Front(frames[c])
<1>1. frames[c] # <<>> /\ n > 1 BY DEF CommitNested
<1>2. /\ s \in Sessions /\ s # NoSession /\ held[c].depth = n /\ n \in Nat /\ n # 0
      /\ frames[c] \in Seq(Frames)
      /\ Session(c) = server[s] /\ server[s] \in Servers
      /\ Mirrors(held[c], frames[c], server[s])
      /\ Inner(c) = frames[c][n] /\ Inner(c) \in Frames
  BY <1>1, InCall, ConnectionAssumption
<1>3. held[c] \in [session : Sessions \cup {NoSession}, depth : Nat, poisoned : BOOLEAN]
  BY <1>1, InCall
<1>4. UNCHANGED <<durable, promised, discarded, issued>> BY DEF CommitNested
<1>5. f \in Seq(Frames) /\ Len(f) = n - 1 /\ \A i \in 1 .. n - 1 : f[i] = frames[c][i]
  BY <1>2, FrontIs
<1>6. n - 1 \in 1 .. n - 1 /\ n - 1 \in Nat /\ n - 1 # 0
  <2>1. \A m \in Nat : m > 1 => m - 1 \in 1 .. m - 1 /\ m - 1 \in Nat /\ m - 1 # 0 OBVIOUS
  <2> QED BY <1>1, <1>2, <2>1
<1>7. CASE /\ Accepts(c)
           /\ LET m == held[c].depth
                  levels == Session(c).levels
              IN  Levels(c, [Front(levels) EXCEPT ![m - 1] = @ \cup levels[m]])
           /\ held' = [held EXCEPT ![c].depth = @ - 1]
           /\ Surfaces(c, CallersWith(c))
  <2> DEFINE L == server[s].levels
  <2> DEFINE F == Front(L)
  <2> DEFINE w == frames[c][n - 1].wrote \cup frames[c][n].wrote
  <2> DEFINE x == [f[n - 1] EXCEPT !.wrote = w]
  <2> DEFINE l == [F EXCEPT ![n - 1] = F[n - 1] \cup L[n]]
  <2> DEFINE q == [f EXCEPT ![n - 1] = x]
  <2> DEFINE t == [server[s] EXCEPT !.levels = l]
  <2> DEFINE h == [held[c] EXCEPT !.depth = @ - 1]
  <2>1. ~held[c].poisoned /\ server[s].alive /\ ~server[s].aborted
    BY <1>2, <1>7 DEF Accepts, Answers
  <2>2. Len(L) = n /\ \A i \in 1 .. n : L[i] = frames[c][i].wrote
    BY <1>1, <1>2, <2>1 DEF Mirrors
  <2>3. L \in Seq(SUBSET Writes) BY <1>2 DEF Servers
  <2>4. F \in Seq(SUBSET Writes) /\ Len(F) = n - 1 /\ \A i \in 1 .. n - 1 : F[i] = L[i]
    <3>1. Len(L) # 0 /\ Len(L) = n BY <1>2, <2>2
    <3> HIDE DEF L
    <3> QED BY <2>3, <3>1, FrontIs
  <2>5. \A i \in 1 .. n - 1 : i \in 1 .. n BY <1>2
  <2>6. n \in 1 .. n BY <1>2
  <2>7. F[n - 1] \cup L[n] = w BY <1>6, <2>2, <2>4, <2>5, <2>6
  <2>8. w \in SUBSET Writes
    <3>1. frames[c][n - 1] \in Frames /\ frames[c][n] \in Frames BY <1>2, <1>6, <2>5
    <3> QED BY <3>1 DEF Frames
  <2>9. /\ l \in Seq(SUBSET Writes) /\ Len(l) = n - 1
        /\ \A i \in 1 .. n - 1 : l[i] = IF i = n - 1 THEN w ELSE frames[c][i].wrote
    <3>1. /\ [F EXCEPT ![n - 1] = w] \in Seq(SUBSET Writes)
          /\ Len([F EXCEPT ![n - 1] = w]) = Len(F)
          /\ \A i \in 1 .. Len(F) : [F EXCEPT ![n - 1] = w][i] = IF i = n - 1 THEN w ELSE F[i]
      <4> DEFINE m == n - 1
      <4>1. F \in Seq(SUBSET Writes) /\ m \in 1 .. Len(F) /\ w \in SUBSET Writes
        BY <1>6, <2>4, <2>8
      <4> HIDE DEF F, w, m
      <4>2. /\ [F EXCEPT ![m] = w] \in Seq(SUBSET Writes)
            /\ Len([F EXCEPT ![m] = w]) = Len(F)
            /\ \A i \in 1 .. Len(F) : [F EXCEPT ![m] = w][i] = IF i = m THEN w ELSE F[i]
        BY <4>1, ExceptIs
      <4> QED BY <4>2 DEF m
    <3>2. l = [F EXCEPT ![n - 1] = w] BY <2>7
    <3>3. \A i \in 1 .. n - 1 : F[i] = frames[c][i].wrote BY <2>2, <2>4, <2>5
    <3> HIDE DEF L, F, w, l
    <3> QED BY <2>4, <3>1, <3>2, <3>3
  <2>10. x \in Frames /\ x.wrote = w
    <3>1. f[n - 1] \in Frames BY <1>5, <1>6
    <3> HIDE DEF f, w
    <3> QED BY <2>8, <3>1 DEF Frames
  <2>11. /\ q \in Seq(Frames) /\ Len(q) = n - 1
         /\ \A i \in 1 .. n - 1 : q[i] = IF i = n - 1 THEN x ELSE f[i]
    <3> DEFINE m == n - 1
    <3>1. f \in Seq(Frames) /\ m \in 1 .. Len(f) /\ x \in Frames /\ Len(f) = m
      BY <1>5, <1>6, <2>10
    <3> HIDE DEF f, x, m
    <3>2. /\ [f EXCEPT ![m] = x] \in Seq(Frames)
          /\ Len([f EXCEPT ![m] = x]) = Len(f)
          /\ \A i \in 1 .. Len(f) : [f EXCEPT ![m] = x][i] = IF i = m THEN x ELSE f[i]
      BY <3>1, ExceptIs
    <3> QED BY <3>1, <3>2 DEF m
  <2>12. frames' = [frames EXCEPT ![c] = q]
    <3>1. CallersWith(c) = q
      <4>1. f[n - 1] = frames[c][n - 1] BY <1>5, <1>6
      <4> QED BY <1>2, <4>1 DEF CallersWith, Callers
    <3> QED BY <1>7, <3>1 DEF Surfaces
  <2>13. server' = [server EXCEPT ![s] = t]
    BY <1>2, <1>7 DEF Levels, ConnectionInv, ConnectionTypeOK
  <2>14. held' = [held EXCEPT ![c] = h] BY <1>7 DEF ConnectionInv, ConnectionTypeOK
  <2>15. h \in [session : Sessions \cup {NoSession}, depth : Nat, poisoned : BOOLEAN]
         /\ h.session = s /\ h.depth = n - 1
    BY <1>2, <1>3, <1>6
  <2>16. t \in Servers /\ t.levels = l /\ t.aborted = FALSE
    <3> HIDE DEF l
    <3> QED BY <1>2, <2>1, <2>9 DEF Servers
  <2>17. \A i \in 1 .. n - 1 : q[i].wrote = IF i = n - 1 THEN w ELSE frames[c][i].wrote
    <3> HIDE DEF q, x, f, w
    <3> QED BY <1>5, <2>10, <2>11
  <2>18. q # <<>>
    <3> HIDE DEF q
    <3> QED BY <1>6, <2>11
  <2>19. \A i \in 1 .. n : /\ frames[c][i].wrote \subseteq Wrote(frames[c])
                           /\ frames[c][i].wrote \cap (durable \cup discarded) = {}
    BY CallsWrites
  <2>20. \A i, j \in 1 .. n : i # j => frames[c][i].wrote \cap frames[c][j].wrote = {}
    BY CallsWrites
  <2>21. w \subseteq Wrote(frames[c]) /\ w \cap (durable \cup discarded) = {}
    BY <1>6, <2>5, <2>6, <2>19
  <2>22. \A i \in 1 .. n - 1 : i # n - 1 => w \cap frames[c][i].wrote = {}
    <3> SUFFICES ASSUME NEW i \in 1 .. n - 1, i # n - 1 PROVE w \cap frames[c][i].wrote = {}
      OBVIOUS
    <3>1. i # n BY <1>2
    <3> QED BY <1>6, <2>5, <2>6, <2>20, <3>1
  <2>23. \A i, j \in 1 .. n - 1 : i # j => frames[c][i].wrote \cap frames[c][j].wrote = {}
    BY <2>5, <2>20
  <2> HIDE DEF q, x, w, l, t, h, L, F, f
  <2>24. HeldOK(h, q) BY <1>2, <2>11, <2>15, <2>18 DEF HeldOK
  <2>25. Mirrors(h, q, t) BY <2>9, <2>11, <2>16, <2>17 DEF Mirrors
  <2>26. \A i \in 1 .. Len(q) : /\ q[i].wrote \subseteq Wrote(frames[c]) \cup {}
                                /\ q[i].wrote \cap (durable' \cup discarded') = {}
    BY <1>4, <2>5, <2>11, <2>17, <2>19, <2>21
  <2>27. \A i, j \in 1 .. Len(q) : i # j => q[i].wrote \cap q[j].wrote = {}
    <3> SUFFICES ASSUME NEW i \in 1 .. n - 1, NEW j \in 1 .. n - 1, i # j
                 PROVE  q[i].wrote \cap q[j].wrote = {}
      BY <2>11
    <3>1. CASE i = n - 1
      <4>1. q[i].wrote = w /\ q[j].wrote = frames[c][j].wrote BY <2>17, <3>1
      <4> QED BY <2>22, <3>1, <4>1
    <3>2. CASE j = n - 1
      <4>1. q[j].wrote = w /\ q[i].wrote = frames[c][i].wrote BY <2>17, <3>2
      <4> QED BY <2>22, <3>2, <4>1
    <3>3. CASE i # n - 1 /\ j # n - 1 BY <2>17, <2>23, <3>3
    <3> QED BY <3>1, <3>2, <3>3
  <2>28. /\ durable' \subseteq durable \cup Wrote(frames[c]) \cup {}
         /\ discarded' \subseteq discarded \cup Wrote(frames[c])
         /\ durable' \cap discarded' = {} /\ promised' \subseteq durable'
         /\ issued' = issued \cup {} /\ {} \cap issued = {}
    BY <1>4, CallsWrites
  <2> QED
    BY <1>2, <2>12, <2>13, <2>14, <2>15, <2>16, <2>24, <2>25, <2>26, <2>27, <2>28, ContextGoes
<1>8. CASE ~Accepts(c) /\ Poisoned(c) /\ Throws(c) /\ UNCHANGED server
  <2> DEFINE h == [held[c] EXCEPT !.poisoned = TRUE]
  <2> DEFINE x == [Inner(c) EXCEPT !.throws = TRUE]
  <2> DEFINE q == Append(f, x)
  <2>1. h \in [session : Sessions \cup {NoSession}, depth : Nat, poisoned : BOOLEAN]
        /\ h.session = s /\ h.depth = n /\ h.poisoned
    BY <1>2, <1>3
  <2>2. x \in Frames /\ x.wrote = frames[c][n].wrote BY <1>2 DEF Frames
  <2>3. q \in Seq(Frames) /\ Len(q) = n /\ q[n] = x /\ \A i \in 1 .. n - 1 : q[i] = frames[c][i]
    BY <1>2, <2>2, InnermostIs
  <2>4. held' = [held EXCEPT ![c] = h]
    BY <1>8 DEF Poisoned, ConnectionInv, ConnectionTypeOK
  <2>5. frames' = [frames EXCEPT ![c] = q] BY <1>8 DEF Throws, InnerIs
  <2>6. server' = [server EXCEPT ![s] = server[s]] BY <1>2, <1>8, Stays
  <2> HIDE DEF h, x, q, f
  <2>7. \A i \in 1 .. n : i \in 1 .. n - 1 \/ i = n BY <1>2
  <2>8. \A i \in 1 .. n : q[i].wrote = frames[c][i].wrote BY <2>2, <2>3, <2>7
  <2>9. q # <<>> BY <1>2, <2>3
  <2>10. HeldOK(h, q) BY <1>2, <2>1, <2>3, <2>9 DEF HeldOK
  <2>11. Mirrors(h, q, server[s]) BY <2>1 DEF Mirrors
  <2> QED
    BY <1>2, <1>4, <2>1, <2>3, <2>4, <2>5, <2>6, <2>8, <2>10, <2>11, NoWriteMoves
<1> QED BY <1>7, <1>8 DEF CommitNested

(* A session that is new, one that has died, and one whose transaction has ended. *)
LEMMA CleanSessions ==
  /\ Fresh \in Servers /\ Clean(Fresh)
  /\ [Fresh EXCEPT !.alive = FALSE] \in Servers /\ Clean([Fresh EXCEPT !.alive = FALSE])
  /\ [Fresh EXCEPT !.alive = FALSE].alive = FALSE
  /\ \A t \in Servers : /\ [t EXCEPT !.levels = <<>>, !.aborted = FALSE] \in Servers
                        /\ Clean([t EXCEPT !.levels = <<>>, !.aborted = FALSE])
<1> DEFINE e == <<>>
<1>1. e \in Seq(SUBSET Writes) OBVIOUS
<1>2. Fresh = [alive |-> TRUE, levels |-> e, aborted |-> FALSE] BY DEF Fresh
<1>3. Clean(Fresh) /\ Clean([Fresh EXCEPT !.alive = FALSE])
      /\ \A t \in Servers : Clean([t EXCEPT !.levels = e, !.aborted = FALSE])
  <2>1. Fresh.levels = <<>> /\ ~Fresh.aborted BY DEF Fresh
  <2>2. [Fresh EXCEPT !.alive = FALSE].levels = <<>> /\ ~[Fresh EXCEPT !.alive = FALSE].aborted
    BY DEF Fresh
  <2>3. \A t \in Servers : [t EXCEPT !.levels = e, !.aborted = FALSE].levels = e
                           /\ ~[t EXCEPT !.levels = e, !.aborted = FALSE].aborted
    BY DEF Servers
  <2> QED BY <2>1, <2>2, <2>3 DEF Clean
<1> HIDE DEF e
<1>4. Fresh \in Servers /\ [Fresh EXCEPT !.alive = FALSE] \in Servers
      /\ [Fresh EXCEPT !.alive = FALSE].alive = FALSE
  BY <1>1, <1>2 DEF Servers
<1>5. \A t \in Servers : [t EXCEPT !.levels = e, !.aborted = FALSE] \in Servers
  BY <1>1 DEF Servers
<1> QED BY <1>3, <1>4, <1>5 DEF e

(* The outermost transaction ends by a commit, which may be lost or only its answer. *)
LEMMA CommitOutermostKeeps ==
  ASSUME ConnectionInv, NEW c \in Contexts, CommitOutermost(c)
  PROVE  ConnectionInv'
<1> DEFINE s == held[c].session
<1> DEFINE ended == [Session(c) EXCEPT !.levels = <<>>, !.aborted = FALSE]
<1> DEFINE written == IF Session(c).aborted THEN {} ELSE Session(c).levels[1]
<1>1. Len(frames[c]) = 1 /\ frames[c] # <<>> /\ ~Inner(c).throws
  BY DEF CommitOutermost, Working
<1>2. /\ s \in Sessions /\ s # NoSession
      /\ frames[c] \in Seq(Frames)
      /\ Session(c) = server[s] /\ server[s] \in Servers
      /\ Mirrors(held[c], frames[c], server[s])
      /\ Inner(c) = frames[c][1] /\ Inner(c) \in Frames
  BY <1>1, InCall, ConnectionAssumption
<1>3. /\ ended \in Servers /\ Clean(ended) /\ Fresh \in Servers /\ Clean(Fresh)
  BY <1>2, CleanSessions
<1>4. /\ frames[c][1].wrote \subseteq Wrote(frames[c])
      /\ frames[c][1].wrote \cap (durable \cup discarded) = {}
      /\ promised \subseteq durable /\ durable \cap discarded = {}
  BY <1>1, CallsWrites
<1>5. frames' = [frames EXCEPT ![c] = <<>>] /\ UNCHANGED <<discarded, issued>>
  BY DEF CommitOutermost, Surfaces
<1>6. HeldOK(Free, <<>>) /\ Free.session = NoSession
  <2>1. Free \in [session : Sessions \cup {NoSession}, depth : Nat, poisoned : BOOLEAN]
        /\ Free.depth = 0 /\ Free.session = NoSession
    BY DEF Free
  <2> QED BY <2>1 DEF HeldOK
<1>7. ASSUME NEW t \in Servers, Clean(t),
             server' = [server EXCEPT ![s] = t], held' = [held EXCEPT ![c] = Free],
             durable' = durable \/ durable' = durable \cup frames[c][1].wrote,
             promised' \subseteq durable'
      PROVE  ConnectionInv'
  <2> DEFINE h == Free
  <2> DEFINE q == <<>>
  <2>1. Mirrors(h, q, t) BY DEF Mirrors
  <2>2. \A i \in 1 .. Len(q) : FALSE OBVIOUS
  <2>3. /\ durable' \subseteq durable \cup Wrote(frames[c]) \cup {}
        /\ discarded' \subseteq discarded \cup Wrote(frames[c])
        /\ durable' \cap discarded' = {} /\ promised' \subseteq durable'
        /\ issued' = issued \cup {} /\ {} \cap issued = {}
    BY <1>4, <1>5, <1>7
  <2>4. HeldOK(h, q) /\ h.session = NoSession BY <1>6
  <2>5. held' = [held EXCEPT ![c] = h] /\ frames' = [frames EXCEPT ![c] = q] BY <1>5, <1>7
  <2> HIDE DEF h, q
  <2> QED BY <1>2, <1>7, <2>1, <2>2, <2>3, <2>4, <2>5, ContextGoes
<1>8. CASE /\ Answers(c)
           /\ durable' = durable \cup written
           /\ \/ Release(c, FALSE, ended) /\ promised' = promised \cup Inner(c).wrote
              \/ Release(c, TRUE, ended) /\ UNCHANGED promised
  <2>1. ~held[c].poisoned /\ server[s].alive BY <1>2, <1>8 DEF Answers
  <2>2. /\ Len(server[s].levels) = 1 /\ server[s].levels[1] = frames[c][1].wrote
        /\ ~server[s].aborted
    BY <1>1, <1>2, <2>1 DEF Mirrors
  <2>3. written = frames[c][1].wrote BY <1>2, <2>2
  <2>4. durable' = durable \cup frames[c][1].wrote /\ promised' \subseteq durable'
    BY <1>2, <1>4, <1>8, <2>3
  <2>5. CASE Release(c, FALSE, ended)
    <3>1. server' = [server EXCEPT ![s] = ended] /\ held' = [held EXCEPT ![c] = Free]
      BY <2>5 DEF Release, Returned
    <3> HIDE DEF ended, written
    <3> QED BY <1>3, <1>7, <2>4, <3>1
  <2>6. CASE Release(c, TRUE, ended)
    <3>1. server' = [server EXCEPT ![s] = Fresh] /\ held' = [held EXCEPT ![c] = Free]
      BY <2>6 DEF Release, Returned
    <3> QED BY <1>3, <1>7, <2>4, <3>1
  <2> QED BY <1>8, <2>5, <2>6
<1>9. CASE ~Answers(c) /\ Release(c, TRUE, Session(c)) /\ UNCHANGED <<durable, promised>>
  <2>1. server' = [server EXCEPT ![s] = Fresh] /\ held' = [held EXCEPT ![c] = Free]
    BY <1>9 DEF Release, Returned
  <2> QED BY <1>3, <1>4, <1>7, <1>9, <2>1
<1> QED BY <1>8, <1>9 DEF CommitOutermost

(* A nested call that threw is rolled back to its savepoint, or it poisons what is around it. *)
LEMMA RollbackNestedKeeps ==
  ASSUME ConnectionInv, NEW c \in Contexts, RollbackNested(c)
  PROVE  ConnectionInv'
<1> DEFINE s == held[c].session
<1> DEFINE n == Len(frames[c])
<1> DEFINE q == Front(frames[c])
<1>1. frames[c] # <<>> /\ n > 1 BY DEF RollbackNested
<1>2. /\ s \in Sessions /\ s # NoSession /\ held[c].depth = n /\ n \in Nat /\ n # 0
      /\ frames[c] \in Seq(Frames)
      /\ Session(c) = server[s] /\ server[s] \in Servers
      /\ Mirrors(held[c], frames[c], server[s])
      /\ Inner(c) = frames[c][n] /\ Inner(c) \in Frames
  BY <1>1, InCall, ConnectionAssumption
<1>3. held[c] \in [session : Sessions \cup {NoSession}, depth : Nat, poisoned : BOOLEAN]
  BY <1>1, InCall
<1>4. /\ UNCHANGED <<durable, promised, issued>>
      /\ discarded' = discarded \cup frames[c][n].wrote
      /\ frames' = [frames EXCEPT ![c] = q]
  BY <1>2 DEF RollbackNested, Surfaces, Callers
<1>5. q \in Seq(Frames) /\ Len(q) = n - 1 /\ \A i \in 1 .. n - 1 : q[i] = frames[c][i]
  BY <1>2, FrontIs
<1>6. n - 1 \in Nat /\ n - 1 # 0
  <2>1. \A m \in Nat : m > 1 => m - 1 \in Nat /\ m - 1 # 0 OBVIOUS
  <2> QED BY <1>1, <1>2, <2>1
<1>7. n \in 1 .. n /\ \A i \in 1 .. n - 1 : i \in 1 .. n /\ i # n BY <1>2
<1> HIDE DEF q
<1>8. q # <<>> BY <1>5, <1>6
<1>9. ASSUME NEW h \in [session : Sessions \cup {NoSession}, depth : Nat, poisoned : BOOLEAN],
             NEW t \in Servers,
             h.session = s, h.depth = n - 1, Mirrors(h, q, t),
             held' = [held EXCEPT ![c] = h], server' = [server EXCEPT ![s] = t]
      PROVE  ConnectionInv'
  <2>1. \A i \in 1 .. n : /\ frames[c][i].wrote \subseteq Wrote(frames[c])
                          /\ frames[c][i].wrote \cap (durable \cup discarded) = {}
    BY CallsWrites
  <2>2. \A i, j \in 1 .. n : i # j => frames[c][i].wrote \cap frames[c][j].wrote = {}
    BY CallsWrites
  <2>3. HeldOK(h, q) BY <1>2, <1>5, <1>8, <1>9 DEF HeldOK
  <2>4. \A i \in 1 .. Len(q) : /\ q[i].wrote \subseteq Wrote(frames[c]) \cup {}
                               /\ q[i].wrote \cap (durable' \cup discarded') = {}
    <3> SUFFICES ASSUME NEW i \in 1 .. Len(q)
                 PROVE  /\ q[i].wrote \subseteq Wrote(frames[c]) \cup {}
                        /\ q[i].wrote \cap (durable' \cup discarded') = {}
      OBVIOUS
    <3>1. i \in 1 .. n - 1 /\ i \in 1 .. n /\ n \in 1 .. n /\ i # n BY <1>5, <1>7
    <3>2. q[i] = frames[c][i] BY <1>5, <3>1
    <3>3. /\ frames[c][i].wrote \subseteq Wrote(frames[c])
          /\ frames[c][i].wrote \cap (durable \cup discarded) = {}
      BY <2>1, <3>1
    <3>4. frames[c][i].wrote \cap frames[c][n].wrote = {} BY <2>2, <3>1
    <3> QED BY <1>4, <3>2, <3>3, <3>4
  <2>5. \A i, j \in 1 .. Len(q) : i # j => q[i].wrote \cap q[j].wrote = {}
    BY <1>5, <1>7, <2>2
  <2>6. /\ durable' \subseteq durable \cup Wrote(frames[c]) \cup {}
        /\ discarded' \subseteq discarded \cup Wrote(frames[c])
        /\ durable' \cap discarded' = {} /\ promised' \subseteq durable'
        /\ issued' = issued \cup {} /\ {} \cap issued = {}
    BY <1>4, <1>7, <2>1, CallsWrites
  <2> QED BY <1>2, <1>4, <1>9, <2>3, <2>4, <2>5, <2>6, ContextGoes
<1>10. CASE /\ Answers(c)
            /\ server' = [server EXCEPT ![held[c].session].levels = RolledBackTo(@),
                                        ![held[c].session].aborted = FALSE]
            /\ held' = [held EXCEPT ![c].depth = @ - 1]
  <2> DEFINE h == [held[c] EXCEPT !.depth = @ - 1]
  <2> DEFINE l == Front(server[s].levels)
  <2> DEFINE t == [server[s] EXCEPT !.levels = l, !.aborted = FALSE]
  <2>1. ~held[c].poisoned /\ server[s].alive BY <1>2, <1>10 DEF Answers
  <2>2. Len(server[s].levels) = n /\ \A i \in 1 .. n : server[s].levels[i] = frames[c][i].wrote
    BY <1>1, <1>2, <2>1 DEF Mirrors
  <2>3. server[s].levels \in Seq(SUBSET Writes) BY <1>2 DEF Servers
  <2>4. l \in Seq(SUBSET Writes) /\ Len(l) = n - 1 /\ \A i \in 1 .. n - 1 : l[i] = server[s].levels[i]
    BY <1>2, <2>2, <2>3, FrontIs
  <2>5. h \in [session : Sessions \cup {NoSession}, depth : Nat, poisoned : BOOLEAN]
        /\ h.session = s /\ h.depth = n - 1
    BY <1>2, <1>3, <1>6
  <2>6. server' = [server EXCEPT ![s] = t]
    BY <1>2, <1>10 DEF RolledBackTo, ConnectionInv, ConnectionTypeOK
  <2>7. held' = [held EXCEPT ![c] = h] BY <1>10 DEF ConnectionInv, ConnectionTypeOK
  <2> HIDE DEF l
  <2>8. t \in Servers /\ t.levels = l /\ t.aborted = FALSE
    BY <1>2, <2>4 DEF Servers
  <2> HIDE DEF h, t
  <2>9. Mirrors(h, q, t)
    <3>1. \A i \in 1 .. n - 1 : l[i] = q[i].wrote BY <1>5, <1>7, <2>2, <2>4
    <3> QED BY <1>5, <2>4, <2>8, <3>1 DEF Mirrors
  <2> QED BY <1>9, <2>5, <2>6, <2>7, <2>8, <2>9
<1>11. CASE /\ ~Answers(c)
            /\ held' = [held EXCEPT ![c].depth = @ - 1, ![c].poisoned = TRUE]
            /\ UNCHANGED server
  <2> DEFINE h == [held[c] EXCEPT !.depth = @ - 1, !.poisoned = TRUE]
  <2>1. h \in [session : Sessions \cup {NoSession}, depth : Nat, poisoned : BOOLEAN]
        /\ h.session = s /\ h.depth = n - 1 /\ h.poisoned
    BY <1>2, <1>3, <1>6
  <2>2. held' = [held EXCEPT ![c] = h] BY <1>11 DEF ConnectionInv, ConnectionTypeOK
  <2>3. server' = [server EXCEPT ![s] = server[s]] BY <1>2, <1>11, Stays
  <2> HIDE DEF h
  <2>4. Mirrors(h, q, server[s]) BY <2>1 DEF Mirrors
  <2> QED BY <1>2, <1>9, <2>1, <2>2, <2>3, <2>4
<1> QED BY <1>10, <1>11 DEF RollbackNested

(* The outermost call threw: its transaction is rolled back, or goes with its session. *)
LEMMA RollbackOutermostKeeps ==
  ASSUME ConnectionInv, NEW c \in Contexts, RollbackOutermost(c)
  PROVE  ConnectionInv'
<1> DEFINE s == held[c].session
<1> DEFINE ended == [Session(c) EXCEPT !.levels = <<>>, !.aborted = FALSE]
<1> DEFINE t == Returned(~Answers(c), ended)
<1>1. Len(frames[c]) = 1 /\ frames[c] # <<>> BY DEF RollbackOutermost
<1>2. /\ s \in Sessions /\ s # NoSession
      /\ Session(c) = server[s] /\ server[s] \in Servers
      /\ Inner(c) = frames[c][1]
  BY <1>1, InCall, ConnectionAssumption
<1>3. t \in Servers /\ Clean(t)
  BY <1>2, CleanSessions DEF Returned
<1>4. /\ frames[c][1].wrote \subseteq Wrote(frames[c])
      /\ frames[c][1].wrote \cap (durable \cup discarded) = {}
      /\ promised \subseteq durable /\ durable \cap discarded = {}
  BY <1>1, CallsWrites
<1>5. /\ UNCHANGED <<durable, promised, issued>>
      /\ discarded' = discarded \cup frames[c][1].wrote
      /\ server' = [server EXCEPT ![s] = t] /\ held' = [held EXCEPT ![c] = Free]
  BY <1>2 DEF RollbackOutermost, Release
<1> DEFINE h == Free
<1> DEFINE q == <<>>
<1>6. frames' = [frames EXCEPT ![c] = q] /\ held' = [held EXCEPT ![c] = h]
  BY <1>5 DEF RollbackOutermost, Surfaces
<1>7. HeldOK(h, q) /\ h.session = NoSession
  <2>1. Free \in [session : Sessions \cup {NoSession}, depth : Nat, poisoned : BOOLEAN]
        /\ Free.depth = 0 /\ Free.session = NoSession
    BY DEF Free
  <2> QED BY <2>1 DEF HeldOK
<1>8. Mirrors(h, q, t) BY DEF Mirrors
<1>9. \A i \in 1 .. Len(q) : FALSE OBVIOUS
<1>10. /\ durable' \subseteq durable \cup Wrote(frames[c]) \cup {}
       /\ discarded' \subseteq discarded \cup Wrote(frames[c])
       /\ durable' \cap discarded' = {} /\ promised' \subseteq durable'
       /\ issued' = issued \cup {} /\ {} \cap issued = {}
  BY <1>4, <1>5
<1> HIDE DEF h, q, t
<1> QED BY <1>2, <1>3, <1>5, <1>6, <1>7, <1>8, <1>9, <1>10, ContextGoes

(* A session dies: what it had open is gone, and nobody can commit it any more. *)
LEMMA SessionDiesKeeps ==
  ASSUME ConnectionInv, NEW s \in Sessions, SessionDies(s)
  PROVE  ConnectionInv'
<1> DEFINE t == [Fresh EXCEPT !.alive = FALSE]
<1>1. t \in Servers /\ t.levels = <<>> /\ t.aborted = FALSE /\ t.alive = FALSE
  BY CleanSessions DEF Clean, Fresh
<1>2. UNCHANGED <<held, frames, durable, promised, discarded, issued>> BY DEF SessionDies
<1>3. server' = [server EXCEPT ![s] = t] BY DEF SessionDies
<1> HIDE DEF t
<1>4. server'[s] = t /\ \A r \in Sessions : r # s => server'[r] = server[r]
  BY <1>3 DEF ConnectionInv, ConnectionTypeOK
<1>5. ConnectionTypeOK'
  <2>1. \A r \in Sessions : server'[r] \in Servers
    BY <1>1, <1>4 DEF ConnectionInv, ConnectionTypeOK
  <2>2. DOMAIN server' = Sessions /\ server' = [r \in Sessions |-> server'[r]]
    BY <1>3 DEF ConnectionInv, ConnectionTypeOK
  <2> QED BY <1>2, <2>1, <2>2 DEF ConnectionInv, ConnectionTypeOK, HeldOK
<1>6. AllMirrored'
  <2> SUFFICES ASSUME NEW c \in Contexts
               PROVE  Mirrors(held[c], frames[c], server'[held[c].session])
    BY <1>2 DEF AllMirrored, Session
  <2>1. CASE held[c].session = s BY <1>1, <1>4, <2>1 DEF Mirrors
  <2>2. CASE held[c].session # s
    <3>1. CASE frames[c] = <<>> BY <3>1 DEF Mirrors
    <3>2. CASE frames[c] # <<>>
      <4>1. held[c].session \in Sessions BY <3>2, InCall
      <4>2. server'[held[c].session] = server[held[c].session] BY <1>4, <2>2, <4>1
      <4> QED BY <4>2 DEF ConnectionInv, AllMirrored, Session
    <3> QED BY <3>1, <3>2
  <2> QED BY <2>1, <2>2
<1>7. TransactionsAreHonest'
  <2>1. Idle' = Idle /\ Idle \subseteq Sessions BY <1>2 DEF Idle
  <2>2. \A r \in Idle : server'[r].levels = <<>> /\ ~server'[r].aborted
    BY <1>1, <1>4, <2>1 DEF ConnectionInv, TransactionsAreHonest
  <2> QED BY <1>2, <2>1, <2>2 DEF ConnectionInv, TransactionsAreHonest
<1>8. SessionsApart' /\ WritesApart'
  BY <1>2 DEF ConnectionInv, SessionsApart, WritesApart
<1> QED BY <1>5, <1>6, <1>7, <1>8 DEF ConnectionInv

-------------------------------------------------------------------------------
(* No context has a transaction, and nothing was written. *)
LEMMA ConnectionInitInv == ConnectionInit => ConnectionInv
<1> SUFFICES ASSUME ConnectionInit PROVE ConnectionInv
  OBVIOUS
<1>1. HeldOK(Free, <<>>)
  <2>1. Free \in [session : Sessions \cup {NoSession}, depth : Nat, poisoned : BOOLEAN]
        /\ Free.depth = 0 /\ Free.session = NoSession
    BY DEF Free
  <2> QED BY <2>1 DEF HeldOK
<1>2. Fresh \in Servers /\ Fresh.levels = <<>> /\ Fresh.aborted = FALSE
  BY DEF Fresh, Servers
<1>3. ConnectionTypeOK BY <1>1, <1>2 DEF ConnectionInit, ConnectionTypeOK
<1>4. SessionsApart BY DEF ConnectionInit, SessionsApart, Free
<1>5. AllMirrored BY DEF ConnectionInit, AllMirrored, Mirrors
<1>6. WritesApart BY DEF ConnectionInit, WritesApart
<1>7. TransactionsAreHonest BY <1>2 DEF ConnectionInit, TransactionsAreHonest, Idle
<1> QED BY <1>3, <1>4, <1>5, <1>6, <1>7 DEF ConnectionInv

(* Every step keeps the invariant. *)
LEMMA ConnectionKeeps == ConnectionInv /\ [ConnectionStep]_connectionVars => ConnectionInv'
<1> SUFFICES ASSUME ConnectionInv, [ConnectionStep]_connectionVars PROVE ConnectionInv'
  OBVIOUS
<1>1. CASE UNCHANGED connectionVars
  BY <1>1 DEF connectionVars, ConnectionInv, ConnectionTypeOK, SessionsApart, AllMirrored, WritesApart,
              TransactionsAreHonest, Session, Idle, HeldOK
<1>2. CASE \E s \in Sessions : SessionDies(s) BY <1>2, SessionDiesKeeps
<1>3. ASSUME NEW c \in Contexts,
             \/ Notice(c) \/ BeginOutermost(c) \/ BeginNested(c) \/ WorkThrows(c)
             \/ \E k \in Writes : Query(c, k) \/ QueryAlone(c, k)
             \/ CommitNested(c) \/ CommitOutermost(c) \/ RollbackNested(c) \/ RollbackOutermost(c)
      PROVE  ConnectionInv'
  BY <1>3, NoticeKeeps, BeginOutermostKeeps, BeginNestedKeeps, WorkThrowsKeeps, QueryKeeps,
     QueryAloneKeeps, CommitNestedKeeps, CommitOutermostKeeps, RollbackNestedKeeps,
     RollbackOutermostKeeps
<1> QED BY <1>1, <1>2, <1>3 DEF ConnectionStep

(***************************************************************************)
(* The transactions of connection.ts: a context holds its session alone,   *)
(* and what the server has open of a transaction that can still be         *)
(* committed is, level by level, what its calls wrote.                     *)
(***************************************************************************)
THEOREM ConnectionInvariant == ConnectionSpec => []ConnectionInv
BY ConnectionInitInv, ConnectionKeeps, PTL DEF ConnectionSpec

(***************************************************************************)
(* What withTransaction promises, for every number of contexts, sessions   *)
(* and levels: what a call returned is in the database, what it rolled     *)
(* back is not, and no session of the pool has a transaction left open.    *)
(***************************************************************************)
THEOREM TransactionsStayHonest == ConnectionSpec => []TransactionsAreHonest
<1>1. ConnectionInv => TransactionsAreHonest BY DEF ConnectionInv
<1> QED BY <1>1, ConnectionInvariant, PTL

===============================================================================
