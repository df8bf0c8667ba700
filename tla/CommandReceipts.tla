----------------------------- MODULE CommandReceipts -----------------------------
(***************************************************************************)
(* CommandReceiptRepository.execute as concurrent transactions run it,     *)
(* query by query, inside TransactionService.run.                          *)
(*                                                                         *)
(* The commands of one tenant, namespace and name. Each attempt is one     *)
(* root transaction at READ COMMITTED: its writes are a draft that others  *)
(* see only after the commit. Advisory locks are kept to the end of the    *)
(* transaction. Any query and the effect may fail; the caller of execute   *)
(* may swallow the error and return normally, and it is the rollback-only  *)
(* mark that then keeps the root from committing. A crash, the deadline or *)
(* a lost connection ends the transaction at any point. A retry is another *)
(* attempt, with the same request or another one.                          *)
(***************************************************************************)
EXTENDS FiniteSets

CONSTANTS Attempts, Keys, Identities, Payloads, None

ASSUME NoneAssumption ==
  /\ None \notin Attempts \cup Keys \cup Identities \cup Payloads
  /\ None \notin [identity : Identities \cup {None}, payload : Payloads]

VARIABLES
  request,     \* the request of each attempt
  receipt,     \* billing_command_receipt: an attempt names the receipt it inserts
  binding,     \* billing_command_key_binding: the receipt a key is bound to
  effects,     \* attempts whose effect is committed
  pc,          \* where in execute an attempt is
  lock,        \* owner of the advisory lock of each key and identity
  seen,        \* rows read: receipts of the key and of the identity, or None
  draft,       \* uncommitted writes of an attempt
  poisoned,    \* state.hasRollbackCause
  answer       \* the receipt execute returned, once committed

vars == <<request, receipt, binding, effects, pc, lock, seen, draft, poisoned, answer>>

Requests == [key : Keys, identity : Identities \cup {None}, payload : Payloads]

NoReceipt == [status |-> "absent", identity |-> None, payload |-> None]

Receipts == [status : {"absent", "processing", "succeeded"},
             identity : Identities \cup {None}, payload : Payloads \cup {None}]

NoDraft == [receipt |-> NoReceipt, bound |-> None, effect |-> FALSE]

NothingSeen == [key |-> None, identity |-> None]

Waiting == {"lockIdentity", "lockKey", "readKey", "readIdentity", "decide",
            "create", "bind", "effect", "complete"}

TypeOK ==
  /\ request \in [Attempts -> Requests]
  /\ receipt \in [Attempts -> Receipts]
  /\ binding \in [Keys -> Attempts \cup {None}]
  /\ effects \subseteq Attempts
  /\ pc \in [Attempts -> {"idle", "end", "committed", "rolledBack"} \cup Waiting]
  /\ lock \in [Keys \cup Identities -> Attempts \cup {None}]
  /\ \A l \in Keys \cup Identities :
       lock[l] # None => pc[lock[l]] \in Waiting \cup {"end"}
  /\ seen \in [Attempts -> [key : Attempts \cup {None}, identity : Attempts \cup {None}]]
  /\ draft \in [Attempts -> [receipt : Receipts, bound : Attempts \cup {None},
                             effect : BOOLEAN]]
  /\ poisoned \in [Attempts -> BOOLEAN]
  /\ answer \in [Attempts -> Attempts \cup {None}]

Init ==
  /\ request \in [Attempts -> Requests]
  /\ receipt = [t \in Attempts |-> NoReceipt]
  /\ binding = [k \in Keys |-> None]
  /\ effects = {}
  /\ pc = [t \in Attempts |-> "idle"]
  /\ lock = [l \in Keys \cup Identities |-> None]
  /\ seen = [t \in Attempts |-> NothingSeen]
  /\ draft = [t \in Attempts |-> NoDraft]
  /\ poisoned = [t \in Attempts |-> FALSE]
  /\ answer = [t \in Attempts |-> None]

committedRows == <<receipt, binding, effects, answer>>

GoTo(t, step) == pc' = [pc EXCEPT ![t] = step]

-------------------------------------------------------------------------------
(***************************************************************************)
(* The locks, sorted: "command:identity:..." comes before "command:key:...". *)
(***************************************************************************)
\* Mutant: only the key is locked.
FirstLockKey(t) == "lockKey"

FirstLock(t) == IF request[t].identity = None THEN "lockKey" ELSE "lockIdentity"

Begin(t) ==
  /\ pc[t] = "idle"
  /\ GoTo(t, FirstLock(t))
  /\ UNCHANGED <<request, committedRows, lock, seen, draft, poisoned>>

Acquire(t, name, next) ==
  /\ lock[name] = None
  /\ lock' = [lock EXCEPT ![name] = t]
  /\ GoTo(t, next)
  /\ UNCHANGED <<request, committedRows, seen, draft, poisoned>>

LockIdentity(t) ==
  /\ pc[t] = "lockIdentity"
  /\ Acquire(t, request[t].identity, "lockKey")

LockKey(t) ==
  /\ pc[t] = "lockKey"
  /\ Acquire(t, request[t].key, "readKey")

-------------------------------------------------------------------------------
(***************************************************************************)
(* The lookups, one query each, of committed rows.                         *)
(***************************************************************************)
Identified(t) ==
  {r \in Attempts : /\ request[t].identity # None
                    /\ receipt[r].status # "absent"
                    /\ receipt[r].identity = request[t].identity}

ReadKey(t) ==
  /\ pc[t] = "readKey"
  /\ seen' = [seen EXCEPT ![t].key = binding[request[t].key]]
  /\ GoTo(t, "readIdentity")
  /\ UNCHANGED <<request, committedRows, lock, draft, poisoned>>

ReadIdentity(t) ==
  /\ pc[t] = "readIdentity"
  /\ \/ \E r \in Identified(t) : seen' = [seen EXCEPT ![t].identity = r]
     \/ Identified(t) = {} /\ UNCHANGED seen
  /\ GoTo(t, "decide")
  /\ UNCHANGED <<request, committedRows, lock, draft, poisoned>>

-------------------------------------------------------------------------------
(***************************************************************************)
(* The decision: refuse, replay the receipt found, or execute.             *)
(***************************************************************************)
Found(t) == IF seen[t].key # None THEN seen[t].key ELSE seen[t].identity

Match(t, r) == /\ receipt[r].identity = request[t].identity
               /\ receipt[r].payload = request[t].payload

Replayable(t) ==
  /\ \/ seen[t].key = None
     \/ seen[t].identity = None
     \/ seen[t].key = seen[t].identity
  /\ Match(t, Found(t))
  /\ receipt[Found(t)].status = "succeeded"

\* Mutant: a replay under a new key does not bind that key.
BindsOnReplayNever(t) == FALSE

BindsOnReplay(t) == seen[t].key = None

\* An error of execute leaves through run, which marks the root rollback-only.
Fails(t) ==
  /\ poisoned' = [poisoned EXCEPT ![t] = TRUE]
  /\ GoTo(t, "end")
  /\ UNCHANGED <<request, committedRows, lock, seen>>

Decide(t) ==
  /\ pc[t] = "decide"
  /\ \/ /\ Found(t) = None
        /\ GoTo(t, "create")
        /\ UNCHANGED <<request, committedRows, lock, seen, draft, poisoned>>
     \/ /\ Found(t) # None /\ Replayable(t)
        /\ GoTo(t, IF BindsOnReplay(t) THEN "bind" ELSE "end")
        /\ UNCHANGED <<request, committedRows, lock, seen, draft, poisoned>>
     \/ Found(t) # None /\ ~Replayable(t) /\ Fails(t) /\ UNCHANGED draft

-------------------------------------------------------------------------------
(***************************************************************************)
(* The writes. A unique index lets an insert wait for the transaction that *)
(* drafted the same value, and refuses it once that one has committed.     *)
(***************************************************************************)
IdentityDrafted(t) ==
  \E k \in Attempts \ {t} : /\ request[t].identity # None
                            /\ draft[k].receipt.identity = request[t].identity

KeyDrafted(t) ==
  \E k \in Attempts \ {t} : draft[k].bound # None /\ request[k].key = request[t].key

Create(t) ==
  /\ pc[t] = "create"
  /\ ~IdentityDrafted(t)
  /\ \/ /\ Identified(t) = {}
        /\ draft' = [draft EXCEPT ![t].receipt =
                       [status |-> "processing", identity |-> request[t].identity,
                        payload |-> request[t].payload]]
        /\ GoTo(t, "bind")
        /\ UNCHANGED <<request, committedRows, lock, seen, poisoned>>
     \/ Identified(t) # {} /\ Fails(t) /\ UNCHANGED draft

Bind(t) ==
  /\ pc[t] = "bind"
  /\ ~KeyDrafted(t)
  /\ \/ /\ binding[request[t].key] = None
        /\ draft' = [draft EXCEPT ![t].bound = IF Found(t) = None THEN t ELSE Found(t)]
        /\ GoTo(t, IF Found(t) = None THEN "effect" ELSE "end")
        /\ UNCHANGED <<request, committedRows, lock, seen, poisoned>>
     \/ binding[request[t].key] # None /\ Fails(t) /\ UNCHANGED draft

\* The effect writes what it writes; it may fail after it has written.
Effect(t) ==
  /\ pc[t] = "effect"
  /\ draft' = [draft EXCEPT ![t].effect = TRUE]
  /\ \/ GoTo(t, "complete") /\ UNCHANGED <<request, committedRows, lock, seen, poisoned>>
     \/ Fails(t)

Complete(t) ==
  /\ pc[t] = "complete"
  /\ draft' = [draft EXCEPT ![t].receipt.status = "succeeded"]
  /\ GoTo(t, "end")
  /\ UNCHANGED <<request, committedRows, lock, seen, poisoned>>

\* A query is refused: a lock or statement timeout, a lost connection.
QueryFails(t) ==
  /\ pc[t] \in Waiting
  /\ Fails(t)
  /\ UNCHANGED draft

-------------------------------------------------------------------------------
(***************************************************************************)
(* The end of the root transaction.                                        *)
(***************************************************************************)
Released(t) == [l \in Keys \cup Identities |-> IF lock[l] = t THEN None ELSE lock[l]]

Commits(t) == ~poisoned[t]

Commit(t) ==
  /\ pc[t] = "end"
  /\ Commits(t)
  /\ receipt' = IF draft[t].receipt.status = "absent" THEN receipt
                ELSE [receipt EXCEPT ![t] = draft[t].receipt]
  /\ binding' = IF draft[t].bound = None THEN binding
                ELSE [binding EXCEPT ![request[t].key] = draft[t].bound]
  /\ effects' = IF draft[t].effect THEN effects \cup {t} ELSE effects
  /\ answer' = [answer EXCEPT ![t] = IF Found(t) = None THEN t ELSE Found(t)]
  /\ draft' = [draft EXCEPT ![t] = NoDraft]
  /\ lock' = Released(t)
  /\ GoTo(t, "committed")
  /\ UNCHANGED <<request, seen, poisoned>>

\* The root throws, or the process or the connection is lost.
Rollback(t) ==
  /\ pc[t] \in Waiting \cup {"end"}
  /\ draft' = [draft EXCEPT ![t] = NoDraft]
  /\ lock' = Released(t)
  /\ GoTo(t, "rolledBack")
  /\ UNCHANGED <<request, committedRows, seen, poisoned>>

Next ==
  \E t \in Attempts :
    \/ Begin(t) \/ LockIdentity(t) \/ LockKey(t) \/ ReadKey(t) \/ ReadIdentity(t)
    \/ Decide(t) \/ Create(t) \/ Bind(t) \/ Effect(t) \/ Complete(t)
    \/ QueryFails(t) \/ Commit(t) \/ Rollback(t)

Spec == Init /\ [][Next]_vars

-------------------------------------------------------------------------------
(***************************************************************************)
(* Seen from the committed rows, execute is atomic: every commit is one    *)
(* Perform or one Replay of IdempotentCommands, everything else is nothing. *)
(***************************************************************************)
Performed ==
  [t \in Attempts |->
     IF receipt[t].status = "succeeded"
     THEN [identity |-> receipt[t].identity, payload |-> receipt[t].payload] ELSE None]

Atomic == INSTANCE IdempotentCommands WITH performed <- Performed

ExecutesAtomically == Atomic!Spec

(***************************************************************************)
(* The advisory locks suffice: what an attempt read is still so when it    *)
(* writes, and no insert ever waits for, or is refused by, a unique index. *)
(***************************************************************************)
LocksSuffice ==
  \A t \in Attempts :
    /\ pc[t] = "create" => ~IdentityDrafted(t) /\ Identified(t) = {}
    /\ pc[t] = "bind" => ~KeyDrafted(t) /\ binding[request[t].key] = None
===============================================================================
