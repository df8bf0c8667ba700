--------------------------- MODULE IdempotentCommands ---------------------------
(***************************************************************************)
(* What the command receipts promise (database/command-receipt.repository): *)
(* a command is performed once for its key and once for its identity, in a *)
(* single step, and every later attempt that names the same key or         *)
(* identity gets the first answer, or is refused, or has no effect at all. *)
(***************************************************************************)
CONSTANTS
  Attempts,    \* calls of execute
  Keys,        \* idempotency keys
  Identities,  \* command identities
  Payloads,    \* payload digests
  None

VARIABLES
  request,     \* what each attempt asks for; never changes
  performed,   \* the command an attempt performed, or None
  binding,     \* the attempt whose command answers for a key, or None
  answer       \* the attempt whose command answered this one, or None

vars == <<request, performed, binding, answer>>

Requests == [key : Keys, identity : Identities \cup {None}, payload : Payloads]

Command(r) == [identity |-> r.identity, payload |-> r.payload]

Init ==
  /\ request \in [Attempts -> Requests]
  /\ performed = [t \in Attempts |-> None]
  /\ binding = [k \in Keys |-> None]
  /\ answer = [t \in Attempts |-> None]

\* The attempts whose command has the identity of t's request.
SameIdentity(t) ==
  {r \in Attempts : /\ request[t].identity # None
                    /\ performed[r] # None
                    /\ performed[r].identity = request[t].identity}

Perform(t) ==
  /\ binding[request[t].key] = None
  /\ SameIdentity(t) = {}
  /\ performed' = [performed EXCEPT ![t] = Command(request[t])]
  /\ binding' = [binding EXCEPT ![request[t].key] = t]
  /\ answer' = [answer EXCEPT ![t] = t]

Replay(t, r) ==
  /\ \/ binding[request[t].key] = r
     \/ binding[request[t].key] = None /\ r \in SameIdentity(t)
  /\ performed[r] = Command(request[t])
  /\ binding' = [binding EXCEPT ![request[t].key] = r]
  /\ answer' = [answer EXCEPT ![t] = r]
  /\ UNCHANGED performed

Next ==
  \E t \in Attempts :
    /\ answer[t] = None
    /\ Perform(t) \/ \E r \in Attempts : Replay(t, r)
    /\ UNCHANGED request

Spec == Init /\ [][Next]_vars
===============================================================================
