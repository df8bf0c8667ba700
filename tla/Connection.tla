------------------------------- MODULE Connection -------------------------------
(***************************************************************************)
(* The transactions of the PostgreSQL services (connection.ts): contexts,  *)
(* each one request or one pass of a worker, that share a pool of          *)
(* sessions. withTransaction begins a transaction, or a savepoint of the   *)
(* one the context is in, runs the caller's work and commits or rolls      *)
(* back. A statement of control that fails poisons the transaction: it is  *)
(* unwound without talking to the server, and its session is destroyed.    *)
(*                                                                         *)
(* Work issues writes, calls withTransaction again and may catch what that *)
(* throws. Outermost work whose own query fails throws, as all callers do: *)
(* PostgreSQL answers COMMIT of an aborted transaction by a rollback that  *)
(* looks like success. The server is external.                             *)
(***************************************************************************)
EXTENDS Naturals, Sequences, FiniteSets, SequencesExt

CONSTANTS
  Contexts,
  Sessions,   \* POSTGRES_POOL_SIZE of them
  Writes,     \* each issued once
  MaxDepth,   \* bound on transactions in one another
  MaxDeaths   \* bound on sessions that die

NoSession == 0

ASSUME ConnectionAssumption == NoSession \notin Sessions

VARIABLES
  held,       \* the transaction state of a context
  server,     \* the sessions as the server has them
  frames,     \* the calls of withTransaction a context is in, outermost first
  durable,    \* what is committed
  promised,   \* auxiliary: writes of calls that returned to the outside
  discarded,  \* auxiliary: writes of calls that were rolled back
  issued,     \* auxiliary: writes so far
  deaths

connectionVars == <<held, server, frames, durable, promised, discarded, issued, deaths>>

Free == [session |-> NoSession, depth |-> 0, poisoned |-> FALSE]

Fresh == [alive |-> TRUE, levels |-> <<>>, aborted |-> FALSE]

ConnectionInit ==
  /\ held = [c \in Contexts |-> Free]
  /\ server = [s \in Sessions |-> Fresh]
  /\ frames = [c \in Contexts |-> <<>>]
  /\ durable = {} /\ promised = {} /\ discarded = {} /\ issued = {}
  /\ deaths = 0

Session(c) == server[held[c].session]

\* The sessions in the pool: idle, or not connected yet.
Idle == Sessions \ {held[c].session : c \in Contexts}

-------------------------------------------------------------------------------
(***************************************************************************)
(* What the server does with a statement.                                  *)
(***************************************************************************)
Answers(c) == Session(c).alive /\ ~held[c].poisoned

\* What a live session accepts in an aborted transaction is to roll back.
Accepts(c) == Answers(c) /\ ~Session(c).aborted

Levels(c, levels) == server' = [server EXCEPT ![held[c].session].levels = levels]

\* A write goes to the innermost level, or is committed at once.
Reaches(s, k) ==
  /\ server[s].alive /\ ~server[s].aborted
  /\ LET n == Len(server[s].levels)
     IN  IF n = 0 THEN durable' = durable \cup {k} /\ UNCHANGED server
         ELSE /\ server' = [server EXCEPT ![s].levels[n] = @ \cup {k}]
              /\ UNCHANGED durable

\* The server or the network ends a session; what it had open is rolled back.
SessionDies(s) ==
  /\ server[s].alive /\ deaths < MaxDeaths
  /\ server' = [server EXCEPT ![s] = [Fresh EXCEPT !.alive = FALSE]]
  /\ deaths' = deaths + 1
  /\ UNCHANGED <<held, frames, durable, promised, discarded, issued>>

-------------------------------------------------------------------------------
(***************************************************************************)
(* The client.                                                             *)
(***************************************************************************)
Poisoned(c) == held' = [held EXCEPT ![c].poisoned = TRUE]

\* The "error" event of a client, or an answer of severity FATAL.
Notice(c) ==
  /\ held[c] # Free /\ ~Session(c).alive /\ ~held[c].poisoned
  /\ Poisoned(c)
  /\ UNCHANGED <<server, frames, durable, promised, discarded, issued, deaths>>

\* Mutant: the client goes back to the pool whatever became of it.
PutBack(failed, after) == after

\* What the pool has after release: the session as it is, or a new one.
Returned(failed, after) == IF failed THEN Fresh ELSE after

\* release: the session has the state "after", failed when the client is poisoned.
Release(c, failed, after) ==
  /\ server' = [server EXCEPT ![held[c].session] = Returned(failed, after)]
  /\ held' = [held EXCEPT ![c] = Free]

Inner(c) == frames[c][Len(frames[c])]

Called == [wrote |-> {}, throws |-> FALSE]

\* The state of the innermost call.
InnerIs(c, frame) == frames' = [frames EXCEPT ![c] = Append(Front(@), frame)]

Throws(c) == InnerIs(c, [Inner(c) EXCEPT !.throws = TRUE])

\* An error that surrounding work gets to see: it may catch it.
Surfaces(c, callers) == frames' = [frames EXCEPT ![c] = callers]

Working(c) == frames[c] # <<>> => ~Inner(c).throws

\* beginTransaction of a context that is in no transaction: connect and BEGIN.
BeginOutermost(c) ==
  /\ frames[c] = <<>>
  /\ \E s \in Idle :
       \/ /\ server[s].alive
          /\ server' = [server EXCEPT ![s].levels = Append(@, {})]
          /\ held' = [held EXCEPT ![c] = [session |-> s, depth |-> 1, poisoned |-> FALSE]]
          /\ frames' = [frames EXCEPT ![c] = <<Called>>]
       \/ /\ ~server[s].alive
          /\ server' = [server EXCEPT ![s] = Returned(TRUE, server[s])]
          /\ UNCHANGED <<held, frames>>
  /\ UNCHANGED <<durable, promised, discarded, issued, deaths>>

\* beginTransaction within a transaction: SAVEPOINT, and then only one level more.
BeginNested(c) ==
  /\ frames[c] # <<>> /\ Working(c) /\ held[c].depth < MaxDepth
  /\ \/ /\ Accepts(c)
        /\ Levels(c, Append(Session(c).levels, {}))
        /\ held' = [held EXCEPT ![c].depth = @ + 1]
        /\ frames' = [frames EXCEPT ![c] = Append(@, Called)]
     \/ ~Accepts(c) /\ Poisoned(c) /\ UNCHANGED <<server, frames>>
  /\ UNCHANGED <<durable, promised, discarded, issued, deaths>>

\* query and execute, in the transaction of the context.
Query(c, k) ==
  /\ frames[c] # <<>> /\ Working(c)
  /\ k \notin issued /\ issued' = issued \cup {k}
  /\ \/ /\ ~held[c].poisoned
        /\ Reaches(held[c].session, k)
        /\ InnerIs(c, [Inner(c) EXCEPT !.wrote = @ \cup {k}])
     \/ /\ IF Accepts(c) THEN server' = [server EXCEPT ![held[c].session].aborted = TRUE]
           ELSE UNCHANGED server
        /\ Throws(c) \/ (Len(frames[c]) > 1 /\ UNCHANGED frames)
        /\ UNCHANGED durable
  /\ UNCHANGED <<held, promised, discarded, deaths>>

\* A query outside a transaction: any session of the pool.
QueryAlone(c, k) ==
  /\ frames[c] = <<>>
  /\ k \notin issued /\ issued' = issued \cup {k}
  /\ \E s \in Idle : Reaches(s, k)
  /\ promised' = promised \cup {k}
  /\ UNCHANGED <<held, frames, discarded, deaths>>

WorkThrows(c) ==
  /\ frames[c] # <<>> /\ Working(c)
  /\ Throws(c)
  /\ UNCHANGED <<held, server, durable, promised, discarded, issued, deaths>>

-------------------------------------------------------------------------------
Callers(c) == Front(frames[c])

\* The calls around a nested one that returned have its writes as their own.
CallersWith(c) ==
  LET n == Len(frames[c]) - 1
  IN  [Callers(c) EXCEPT ![n].wrote = @ \cup Inner(c).wrote]

\* commit within a transaction: RELEASE SAVEPOINT. When it fails the call throws.
CommitNested(c) ==
  /\ Len(frames[c]) > 1 /\ Working(c)
  /\ \/ /\ Accepts(c)
        /\ LET n == held[c].depth
               levels == Session(c).levels
           IN  Levels(c, [Front(levels) EXCEPT ![n - 1] = @ \cup levels[n]])
        /\ held' = [held EXCEPT ![c].depth = @ - 1]
        /\ Surfaces(c, CallersWith(c))
     \/ ~Accepts(c) /\ Poisoned(c) /\ Throws(c) /\ UNCHANGED server
  /\ UNCHANGED <<durable, promised, discarded, issued, deaths>>

\* COMMIT, release, and the answer; the server may have committed although the answer is lost.
CommitOutermost(c) ==
  /\ Len(frames[c]) = 1 /\ Working(c)
  /\ LET ended == [Session(c) EXCEPT !.levels = <<>>, !.aborted = FALSE]
         written == IF Session(c).aborted THEN {} ELSE Session(c).levels[1]
     IN  \/ /\ Answers(c)
            /\ durable' = durable \cup written
            /\ \/ Release(c, FALSE, ended) /\ promised' = promised \cup Inner(c).wrote
               \/ Release(c, TRUE, ended) /\ UNCHANGED promised
         \/ ~Answers(c) /\ Release(c, TRUE, Session(c)) /\ UNCHANGED <<durable, promised>>
  /\ Surfaces(c, <<>>)
  /\ UNCHANGED <<discarded, issued, deaths>>

RolledBackTo(levels) == Front(levels)

\* rollback within a transaction: ROLLBACK TO and RELEASE SAVEPOINT, and one level less.
RollbackNested(c) ==
  /\ Len(frames[c]) > 1 /\ Inner(c).throws
  /\ \/ /\ Answers(c)
        /\ server' = [server EXCEPT ![held[c].session].levels = RolledBackTo(@),
                                    ![held[c].session].aborted = FALSE]
        /\ held' = [held EXCEPT ![c].depth = @ - 1]
     \/ /\ ~Answers(c)
        /\ held' = [held EXCEPT ![c].depth = @ - 1, ![c].poisoned = TRUE]
        /\ UNCHANGED server
  /\ discarded' = discarded \cup Inner(c).wrote
  /\ Surfaces(c, Callers(c))
  /\ UNCHANGED <<durable, promised, issued, deaths>>

RollbackOutermost(c) ==
  /\ Len(frames[c]) = 1 /\ Inner(c).throws
  /\ Release(c, ~Answers(c), [Session(c) EXCEPT !.levels = <<>>, !.aborted = FALSE])
  /\ discarded' = discarded \cup Inner(c).wrote
  /\ Surfaces(c, <<>>)
  /\ UNCHANGED <<durable, promised, issued, deaths>>

ConnectionStep ==
  \/ \E s \in Sessions : SessionDies(s)
  \/ \E c \in Contexts :
       \/ Notice(c) \/ BeginOutermost(c) \/ BeginNested(c) \/ WorkThrows(c)
       \/ \E k \in Writes : Query(c, k) \/ QueryAlone(c, k)
       \/ CommitNested(c) \/ CommitOutermost(c) \/ RollbackNested(c) \/ RollbackOutermost(c)

ConnectionSpec == ConnectionInit /\ [][ConnectionStep]_connectionVars

-------------------------------------------------------------------------------
(***************************************************************************)
(* Whatever sessions die, wherever in a nest of transactions something     *)
(* throws and whatever work catches of it: what a call returned is in the  *)
(* database, what a call rolled back is not, and the pool has no session   *)
(* with a transaction that somebody left open.                             *)
(***************************************************************************)
TransactionsAreHonest ==
  /\ promised \subseteq durable
  /\ discarded \cap durable = {}
  /\ \A s \in Idle : server[s].levels = <<>> /\ ~server[s].aborted
===============================================================================
