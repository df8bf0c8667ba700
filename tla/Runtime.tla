-------------------------------- MODULE Runtime --------------------------------
(***************************************************************************)
(* The process around the billing modules: main.ts (signals, the shutdown  *)
(* deadline), create-billing-runtime.ts (start, drain, close),             *)
(* prisma.service.ts (the connection pool) and transaction.service.ts (the *)
(* transaction a request runs in, its deadline and its rollback-only mark).*)
(*                                                                         *)
(* The clients of other services (IAM, agent evidence) also end with the   *)
(* providers, and abort the calls they still have.                         *)
(***************************************************************************)
EXTENDS Naturals

CONSTANTS Requests,  \* requests the server may be asked to handle
          Signals    \* SIGTERM, SIGINT

VARIABLES
  prisma,       \* #state of PrismaService
  connect,      \* the pending $connect and SELECT 1 of #initialize
  cleanup,      \* #close of PrismaService
  stage,        \* how far main and createBillingRuntime have come
  drain,        \* how far destroy has come
  drainFailed,  \* adapter.close rejected
  deadline,     \* the timer of main's shutdown is running
  signals,      \* signals received: "once", the next one kills
  process,      \* the process runs
  request,      \* none, running: in its handler, abandoned: there, its client gone, or done
  tx            \* the transaction of a request

prismaVars == <<prisma, connect, cleanup>>
mainVars == <<stage, drain, drainFailed, deadline, signals, process>>
runtimeVars == <<prismaVars, mainVars, request, tx>>

RuntimeTypeOK ==
  /\ prisma \in {"created", "initializing", "ready", "closing", "closed"}
  /\ connect \in {"none", "pending", "done", "failed"}
  /\ cleanup \in {"none", "pending", "done"}
  /\ stage \in {"init", "starting", "listening", "refused", "aborted"}
  /\ drain \in {"idle", "waiting", "http", "providers", "ending", "done"}
  /\ drainFailed \in BOOLEAN /\ deadline \in BOOLEAN
  /\ signals \subseteq Signals
  /\ process \in {"up", "exited"}
  /\ request \in [Requests -> {"none", "running", "abandoned", "done"}]
  /\ tx \in [Requests -> {"none", "active", "doomed", "closed", "committed", "rolled back"}]

RuntimeInit ==
  /\ prisma = "created" /\ connect = "none" /\ cleanup = "none"
  /\ stage = "init" /\ drain = "idle" /\ drainFailed = FALSE
  /\ deadline = FALSE /\ signals = {} /\ process = "up"
  /\ request = [r \in Requests |-> "none"]
  /\ tx = [r \in Requests |-> "none"]

Up == process = "up"

InHandler(r) == request[r] \in {"running", "abandoned"}

\* Locks and rows that are not committed belong to these.
InDatabase == {r \in Requests : Up /\ tx[r] \in {"active", "doomed"}}

-------------------------------------------------------------------------------
(***************************************************************************)
(* PrismaService.                                                          *)
(***************************************************************************)
OnModuleInit ==
  /\ Up /\ stage = "init" /\ prisma = "created"
  /\ prisma' = "initializing" /\ connect' = "pending"
  /\ UNCHANGED <<cleanup, mainVars, request, tx>>

\* Mutant: the state is not looked at again after the connection.
ReadyAfterConnect == "ready"

\* What a connection that succeeds makes of the service.
AfterConnect == IF prisma = "initializing" THEN "ready" ELSE prisma

Connected ==
  /\ Up /\ connect = "pending"
  /\ prisma' = AfterConnect
  /\ connect' = IF prisma = "initializing" THEN "done" ELSE "failed"
  /\ UNCHANGED <<cleanup, mainVars, request, tx>>

\* The catch of #initialize closes the service, unless someone else does.
ConnectFails ==
  /\ Up /\ connect = "pending"
  /\ connect' = "failed"
  /\ IF cleanup = "none" THEN prisma' = "closing" /\ cleanup' = "pending"
                         ELSE UNCHANGED <<prisma, cleanup>>
  /\ UNCHANGED <<mainVars, request, tx>>

OnModuleDestroy ==
  IF cleanup = "none" THEN prisma' = "closing" /\ cleanup' = "pending"
                      ELSE UNCHANGED <<prisma, cleanup>>

\* pool.end waits for the connections in use; $disconnect cancels their
\* transactions, DeadlineOf below.
CleanupEnds ==
  /\ Up /\ cleanup = "pending" /\ InDatabase = {}
  /\ cleanup' = "done" /\ prisma' = "closed"
  /\ UNCHANGED <<connect, mainVars, request, tx>>

-------------------------------------------------------------------------------
(***************************************************************************)
(* createBillingRuntime and main. Once the application is initialised the  *)
(* handlers of the signals are installed and listen is called in one turn. *)
(***************************************************************************)
Initialised ==
  /\ Up /\ stage = "init" /\ prisma = "ready"
  /\ stage' = "starting"
  /\ UNCHANGED <<prismaVars, drain, drainFailed, deadline, signals, process, request, tx>>

\* Another provider fails, connected or not; or the connection has, and is closed.
InitFails ==
  /\ Up /\ stage = "init" /\ prisma # "created"
  /\ connect = "failed" => cleanup = "done"
  /\ stage' = "aborted" /\ drain' = "http"
  /\ UNCHANGED <<prismaVars, drainFailed, deadline, signals, process, request, tx>>

ListenSucceeds ==
  /\ Up /\ stage = "starting"
  /\ stage' = "listening"
  /\ UNCHANGED <<prismaVars, drain, drainFailed, deadline, signals, process, request, tx>>

\* listen closes the runtime itself before it rejects.
ListenFails ==
  /\ Up /\ stage = "starting"
  /\ stage' = "refused"
  /\ drain' = IF drain = "idle" THEN "waiting" ELSE drain
  /\ UNCHANGED <<prismaVars, drainFailed, deadline, signals, process, request, tx>>

\* The first signal of a kind shuts down, once; before the handlers are there,
\* or the second time, a signal has its default effect.
Signal(s) ==
  /\ Up
  /\ IF stage \in {"init", "aborted"} \/ s \in signals
     THEN process' = "exited" /\ UNCHANGED <<drain, deadline, signals>>
     ELSE /\ signals' = signals \cup {s}
          /\ deadline' = TRUE
          /\ drain' = IF drain = "idle" THEN "waiting" ELSE drain
          /\ UNCHANGED process
  /\ UNCHANGED <<prismaVars, stage, drainFailed, request, tx>>

\* close waits until listen has settled, whichever way.
StartDestroy ==
  /\ Up /\ drain = "waiting" /\ stage # "starting"
  /\ drain' = "http"
  /\ UNCHANGED <<prismaVars, stage, drainFailed, deadline, signals, process, request, tx>>

\* adapter.close: new requests are refused, and the connections are waited for. One
\* with a request in its handler ends with the response, or when the client drops
\* it, which does not end the handler.
Drained == \A r \in Requests : request[r] # "running"

HttpDrained ==
  /\ Up /\ drain = "http" /\ Drained
  /\ drain' = "providers"
  /\ UNCHANGED <<prismaVars, stage, drainFailed, deadline, signals, process, request, tx>>

HttpFails ==
  /\ Up /\ drain = "http"
  /\ drain' = "providers" /\ drainFailed' = TRUE
  /\ UNCHANGED <<prismaVars, stage, deadline, signals, process, request, tx>>

CloseProviders ==
  /\ Up /\ drain = "providers"
  /\ drain' = "ending"
  /\ OnModuleDestroy
  /\ UNCHANGED <<connect, stage, drainFailed, deadline, signals, process, request, tx>>

Closed ==
  /\ Up /\ drain = "ending" /\ cleanup = "done"
  /\ drain' = "done" /\ deadline' = FALSE
  /\ UNCHANGED <<prismaVars, stage, drainFailed, signals, process, request, tx>>

\* Mutant: the timer of the deadline is armed when the server has drained.
DeadlineAfterDrain == deadline /\ drain # "http"

DeadlinePasses == deadline

\* exit(1) at the deadline, or nothing left to run.
Exit ==
  /\ Up
  /\ DeadlinePasses \/ drain = "done"
  /\ process' = "exited"
  /\ UNCHANGED <<prismaVars, stage, drain, drainFailed, deadline, signals, request, tx>>

-------------------------------------------------------------------------------
(***************************************************************************)
(* Requests and their transactions. A transaction is doomed by the first   *)
(* error its context sees, even one its caller swallows; at its deadline   *)
(* PostgreSQL has rolled it back and its context is closed, while the      *)
(* callback may still run. So does the handler of a client that is gone.   *)
(***************************************************************************)
Accepting == Up /\ stage = "listening" /\ drain = "idle"

Arrives(r) ==
  /\ Accepting /\ request[r] = "none"
  /\ request' = [request EXCEPT ![r] = "running"]
  /\ UNCHANGED <<prismaVars, mainVars, tx>>

Disconnects(r) ==
  /\ Up /\ request[r] = "running"
  /\ request' = [request EXCEPT ![r] = "abandoned"]
  /\ UNCHANGED <<prismaVars, mainVars, tx>>

\* run: assertReady, then BEGIN.
BeginTx(r) ==
  /\ Up /\ InHandler(r) /\ tx[r] = "none" /\ prisma = "ready"
  /\ tx' = [tx EXCEPT ![r] = "active"]
  /\ UNCHANGED <<prismaVars, mainVars, request>>

\* What the guard of every query of the callback asks for.
CanQuery(r) == Up /\ prisma = "ready" /\ tx[r] = "active"

Doomed(r) ==
  /\ CanQuery(r)
  /\ tx' = [tx EXCEPT ![r] = "doomed"]
  /\ UNCHANGED <<prismaVars, mainVars, request>>

\* Its timer; or $disconnect, which cancels what is open.
DeadlineOf(r) ==
  /\ r \in InDatabase
  /\ tx' = [tx EXCEPT ![r] = "closed"]
  /\ UNCHANGED <<prismaVars, mainVars, request>>

\* The callback has returned; COMMIT does not ask whether the pool is ready.
Commit(r) ==
  /\ Up /\ tx[r] = "active"
  /\ tx' = [tx EXCEPT ![r] = "committed"]
  /\ request' = [request EXCEPT ![r] = "done"]
  /\ UNCHANGED <<prismaVars, mainVars>>

\* The callback ends and run rejects; or run was refused to begin with.
Rollback(r) ==
  /\ Up /\ InHandler(r)
  /\ tx[r] \in {"doomed", "closed"} \/ prisma # "ready"
  /\ tx' = [tx EXCEPT ![r] = "rolled back"]
  /\ request' = [request EXCEPT ![r] = "done"]
  /\ UNCHANGED <<prismaVars, mainVars>>

LifecycleStep ==
  \/ OnModuleInit \/ Connected \/ ConnectFails \/ CleanupEnds
  \/ Initialised \/ InitFails \/ ListenSucceeds \/ ListenFails
  \/ \E s \in Signals : Signal(s)
  \/ StartDestroy \/ HttpDrained \/ HttpFails \/ CloseProviders \/ Closed \/ Exit

(***************************************************************************)
(* Timers fire and promises settle; a handler may hang for ever, and so    *)
(* may the connection.                                                     *)
(***************************************************************************)
LifecycleFairness ==
  /\ WF_runtimeVars(Exit) /\ WF_runtimeVars(StartDestroy) /\ WF_runtimeVars(HttpDrained)
  /\ WF_runtimeVars(CloseProviders) /\ WF_runtimeVars(CleanupEnds) /\ WF_runtimeVars(Closed)

RequestStep(r) ==
  \/ Arrives(r) \/ Disconnects(r) \/ BeginTx(r) \/ Doomed(r) \/ DeadlineOf(r) \/ Commit(r) \/ Rollback(r)

-------------------------------------------------------------------------------
(***************************************************************************)
(* The pool outlives the connections: a handler finds it gone only after   *)
(* the end of the drain, and one whose client still waits only when the    *)
(* drain failed. A pool that has been given up does not come back when a   *)
(* connection that was under way succeeds after all.                       *)
(***************************************************************************)
PoolOutlivesConnections ==
  /\ \A r \in Requests : Up /\ InHandler(r) /\ prisma # "ready" =>
       /\ drain \in {"ending", "done"}
       /\ request[r] = "running" => drainFailed
  /\ cleanup # "none" => prisma \in {"closing", "closed"}

(***************************************************************************)
(* A process that was told to stop, or could not start, ends, even when a  *)
(* handler or the connection hangs.                                        *)
(***************************************************************************)
ShutdownEnds == signals # {} \/ stage \in {"refused", "aborted"} ~> process = "exited"
===============================================================================
