----------------------------- MODULE MeteringProofs ----------------------------
(***************************************************************************)
(* The pool outlives the connections, revisions are numbered, selections are  *)
(* sound and settlements match their holds, for any number of requests     *)
(* about any jobs.                                                         *)
(*                                                                         *)
(* The invariant says what a transaction may rely on between two of its    *)
(* queries: what the lock it holds keeps others from committing, and what  *)
(* it has read and nobody takes back. It has a part for each of the        *)
(* process, publications, selections and settlements.                      *)
(*                                                                         *)
(* The evidence of usage stands alone: its invariant is about the chain of *)
(* revisions that was accepted, and about the reads that wait for one of   *)
(* them.                                                                   *)
(***************************************************************************)
EXTENDS Metering, UsageEvidence, FiniteSetTheorems, TLAPS

-------------------------------------------------------------------------------
(***************************************************************************)
(* The process. From the moment it is initialised until the drain has come *)
(* to the providers the pool is ready; only a server that listens gets     *)
(* requests, and no client waits by then, unless draining failed.          *)
(***************************************************************************)
RuntimeInv ==
  /\ RuntimeTypeOK
  /\ cleanup # "none" => prisma \in {"closing", "closed"}
  /\ prisma = "ready" => connect = "done"
  /\ stage \in {"starting", "listening", "refused"}
       /\ drain \in {"idle", "waiting", "http", "providers"} => prisma = "ready"
  /\ \A r \in Requests : InHandler(r) => stage = "listening"
  /\ drain \in {"providers", "ending", "done"} /\ ~drainFailed => Drained

-------------------------------------------------------------------------------
(***************************************************************************)
(* The rows of a transaction, and what a request that has none may have.   *)
(***************************************************************************)
IsWork(w) ==
  w = [at |-> w.at, clock |-> w.clock, known |-> w.known, locks |-> w.locks,
       number |-> w.number, selected |-> w.selected, ambiguous |-> w.ambiguous,
       revision |-> w.revision, hold |-> w.hold, usage |-> w.usage,
       settlement |-> w.settlement]

StatesOf(kind) ==
  CASE kind = "publish" -> {"receipt", "lock", "number", "insert", "verify", "end"}
    [] kind = "select" -> {"rate", "policy", "end"}
    [] kind = "settle" -> {"find", "create", "hold", "settlement", "end"}
    [] kind = "finish" -> {"hold", "end"}

WorkTyped ==
  /\ job \in [Requests -> Jobs]
  /\ DOMAIN work = Requests /\ work = [r \in Requests |-> work[r]]
  /\ \A r \in Requests : IsWork(work[r])
  /\ \A r \in Requests : tx[r] = "none" => work[r] = NoWork
  /\ \A r \in Requests : tx[r] # "none" /\ tx[r] # "rolled back" =>
       work[r].at \in StatesOf(job[r].kind) /\ Legal(r)

(* Two transactions never hold the same lock. *)
LocksExclude == \A q, r \in InDatabase : q # r => work[q].locks \cap work[r].locks = {}

-------------------------------------------------------------------------------
(***************************************************************************)
(* Publications. Between its receipt and its commit a new publication has  *)
(* the lock of its identity, and nobody has published under it; from the   *)
(* number on it has the lock of the table, and the number stays the next.  *)
(***************************************************************************)
TableOK(t) ==
  /\ IsFiniteSet(revision[t])
  /\ Numbers(revision[t]) = 1 .. Cardinality(revision[t])
  /\ \A v, w \in revision[t] : v.identity = w.identity => v = w

New(r) ==
  \/ work[r].at \in {"lock", "number", "insert"}
  \/ work[r].at \in {"verify", "end"} /\ work[r].number > 0

PublicationOK(r) ==
  LET t == job[r].table
      draft == [number |-> work[r].number, identity |-> job[r].identity,
                effective |-> job[r].effective, content |-> job[r].content]
  IN  /\ work[r].at \in {"receipt", "lock", "number"} => work[r].number = 0
      /\ work[r].at = "insert" => work[r].number > 0
      /\ New(r) => Identity(r) \in work[r].locks /\ Published(r) = {}
      /\ work[r].at = "number" => TableLock(r) \in work[r].locks
      /\ work[r].number > 0 =>
           /\ TableLock(r) \in work[r].locks
           /\ work[r].number = Cardinality(revision[t]) + 1
      /\ work[r].revision = IF work[r].at \in {"verify", "end"} /\ work[r].number > 0
                            THEN {draft} ELSE {}

NoPublication(r) == work[r].number = 0 /\ work[r].revision = {}

PublishInv ==
  /\ revision = [t \in Tables |-> revision[t]]
  /\ \A t \in Tables : TableOK(t)
  /\ \A r \in Requests : work[r].number \in Nat
  /\ \A r \in InDatabase :
       IF job[r].kind = "publish" THEN PublicationOK(r) ELSE NoPublication(r)

-------------------------------------------------------------------------------
(***************************************************************************)
(* Selections. Published rates never match one request twice, tables only  *)
(* grow, and what was committed when a transaction began is still there.   *)
(***************************************************************************)
IsRates(rates) ==
  /\ Publishable(rates)
  /\ \A rate \in rates : rate.lower \in Int /\ rate.upper \in Int

SelectInv ==
  /\ \A v \in revision["rate"] : IsRates(v.content.rates)
  /\ \A r \in Requests : tx[r] # "none" => \A t \in Tables : work[r].known[t] \subseteq revision[t]
  /\ \A r \in Requests : work[r].selected = [t \in Tables |-> work[r].selected[t]]
  /\ SelectionsAreSound

-------------------------------------------------------------------------------
(***************************************************************************)
(* Settlements. From the end of its hold on a transaction has the lock of  *)
(* the account: the hold it ends stays active until it commits, or has     *)
(* been ended by the same command and stays so. Its usage event is a draft *)
(* that no other event resembles, or is committed.                         *)
(***************************************************************************)
AccountLock == <<"account", "row">>

HoldDraft(r) ==
  [hold |-> job[r].hold,
   row |-> [status |-> job[r].status, ref |-> job[r].source, micros |-> job[r].micros]]

UsageDraft(r, settled) == [source |-> job[r].source, hold |-> job[r].hold, settled |-> settled]

SettlementDraft(r) ==
  [hold |-> job[r].hold, source |-> job[r].source, micros |-> job[r].micros]

UsageIsCommitted(r) == \E u \in usage : u.source = job[r].source /\ u.hold = job[r].hold

(* The hold of r has been ended by r, or by the same command before. *)
HoldHasEnded(r) ==
  /\ AccountLock \in work[r].locks
  /\ \/ work[r].hold = {} /\ EndedByMe(r)
     \/ work[r].hold = {HoldDraft(r)} /\ hold[job[r].hold].status = "active"

SettlingOK(r) ==
  /\ work[r].at \in {"find", "create"} => work[r].usage = {}
  /\ work[r].at \in {"hold", "settlement"} =>
       work[r].usage = {UsageDraft(r, FALSE)} \/ (work[r].usage = {} /\ UsageIsCommitted(r))
  /\ work[r].at = "end" =>
       \/ work[r].usage = {UsageDraft(r, TRUE)} /\ work[r].settlement = {SettlementDraft(r)}
       \/ work[r].usage = {} /\ work[r].settlement = {}
  /\ work[r].at # "end" => work[r].settlement = {}
  /\ work[r].at \in {"settlement", "end"} => HoldHasEnded(r)
  /\ work[r].at \notin {"settlement", "end"} => work[r].hold = {}

FinishingOK(r) ==
  /\ work[r].usage = {} /\ work[r].settlement = {}
  /\ work[r].at = "end" => HoldHasEnded(r)
  /\ work[r].at # "end" => work[r].hold = {}

NoSettling(r) == work[r].hold = {} /\ work[r].usage = {} /\ work[r].settlement = {}

(* An event resembles another when it has its source or its hold. *)
Alike(u, v) == u.source = v.source \/ u.hold = v.hold

SettleInv ==
  /\ hold = [h \in Holds |-> hold[h]]
  /\ \A s \in settlement : s.hold \in Holds
  /\ \A u, v \in usage : Alike(u, v) => u = v
  /\ \A r \in InDatabase :
       /\ job[r].kind = "settle" => SettlingOK(r)
       /\ job[r].kind = "finish" => FinishingOK(r)
       /\ job[r].kind \in {"publish", "select"} => NoSettling(r)
       /\ \A u \in work[r].usage, v \in usage : ~Alike(u, v)
       /\ \A q \in InDatabase \ {r} : \A u \in work[r].usage, v \in work[q].usage : ~Alike(u, v)
  /\ SettlementsMatchHolds

MeteringInv == WorkTyped /\ LocksExclude /\ PublishInv /\ SelectInv /\ SettleInv

Inv == RuntimeInv /\ MeteringInv

-------------------------------------------------------------------------------
(* A step that leaves alone the pool, the stage and which requests run, and at most asks to drain. *)
LEMMA RuntimeStays ==
  ASSUME RuntimeInv, deadline' \in BOOLEAN, signals' \subseteq Signals,
         process' \in {"up", "exited"}, tx' \in [Requests -> {"none", "active", "doomed", "closed", "committed", "rolled back"}],
         prisma' = prisma, connect' = connect, cleanup' = cleanup, stage' = stage,
         request' = request, drainFailed' = drainFailed,
         drain' = drain \/ (drain' = "waiting" /\ drain = "idle")
  PROVE  RuntimeInv'
<1>1. /\ cleanup' # "none" => prisma' \in {"closing", "closed"}
      /\ prisma' = "ready" => connect' = "done"
      /\ \A r \in Requests : InHandler(r)' => stage' = "listening"
  BY Zenon DEF RuntimeInv, InHandler
<1>a. prisma' \in {"created", "initializing", "ready", "closing", "closed"}
      /\ connect' \in {"none", "pending", "done", "failed"}
      /\ cleanup' \in {"none", "pending", "done"}
  BY Zenon DEF RuntimeInv, RuntimeTypeOK
<1>b. stage' \in {"init", "starting", "listening", "refused", "aborted"}
      /\ drainFailed' \in BOOLEAN
      /\ request' \in [Requests -> {"none", "running", "abandoned", "done"}]
  BY Zenon DEF RuntimeInv, RuntimeTypeOK
<1>c. drain' \in {"idle", "waiting", "http", "providers", "ending", "done"}
  BY Zenon DEF RuntimeInv, RuntimeTypeOK
<1>d. RuntimeTypeOK' BY <1>a, <1>b, <1>c, Zenon DEF RuntimeTypeOK
<1>2. CASE drain' = drain
  <2>1. /\ stage' \in {"starting", "listening", "refused"}
             /\ drain' \in {"idle", "waiting", "http", "providers"} => prisma' = "ready"
        /\ drain' \in {"providers", "ending", "done"} /\ ~drainFailed' => Drained'
    BY <1>2, Zenon DEF RuntimeInv, Drained
  <2> QED BY <1>1, <1>d, <2>1, Zenon DEF RuntimeInv
<1>3. CASE drain' = "waiting" /\ drain = "idle"
  <2>1. drain \in {"idle", "waiting", "http", "providers"} /\ "waiting" \notin {"providers", "ending", "done"}
    BY <1>3
  <2>2. stage' \in {"starting", "listening", "refused"} => prisma' = "ready"
    BY <2>1, Zenon DEF RuntimeInv
  <2> QED BY <1>1, <1>d, <1>3, <2>1, <2>2, Zenon DEF RuntimeInv
<1> QED BY <1>2, <1>3

(* A connection that does not make the pool ready, which it was not before. *)
LEMMA PoolStaysAway ==
  ASSUME RuntimeInv, prisma # "ready", prisma' # "ready",
         prisma' \in {"created", "initializing", "ready", "closing", "closed"},
         connect' \in {"none", "pending", "done", "failed"},
         cleanup' \in {"none", "pending", "done"},
         cleanup' # "none" => prisma' \in {"closing", "closed"},
         stage' = stage, drain' = drain, drainFailed' = drainFailed, deadline' = deadline,
         signals' = signals, process' = process, request' = request, tx' = tx
  PROVE  RuntimeInv'
<1>1. stage' \in {"init", "starting", "listening", "refused", "aborted"}
      /\ drain' \in {"idle", "waiting", "http", "providers", "ending", "done"}
      /\ drainFailed' \in BOOLEAN
  BY Zenon DEF RuntimeInv, RuntimeTypeOK
<1>2. deadline' \in BOOLEAN /\ signals' \subseteq Signals /\ process' \in {"up", "exited"}
  BY Zenon DEF RuntimeInv, RuntimeTypeOK
<1>3. request' \in [Requests -> {"none", "running", "abandoned", "done"}]
      /\ tx' \in [Requests -> {"none", "active", "doomed", "closed", "committed", "rolled back"}]
  BY Zenon DEF RuntimeInv, RuntimeTypeOK
<1>4. RuntimeTypeOK' BY <1>1, <1>2, <1>3, Zenon DEF RuntimeTypeOK
<1>5. ~(stage' \in {"starting", "listening", "refused"}
          /\ drain' \in {"idle", "waiting", "http", "providers"})
  BY Zenon DEF RuntimeInv
<1>6. /\ \A r \in Requests : InHandler(r)' => stage' = "listening"
      /\ drain' \in {"providers", "ending", "done"} /\ ~drainFailed' => Drained'
  BY Zenon DEF RuntimeInv, InHandler, Drained
<1> QED BY <1>4, <1>5, <1>6, Zenon DEF RuntimeInv

(* A step of the process, or of one request of it. *)
LEMMA LifecycleKeeps ==
  ASSUME RuntimeInv, LifecycleStep
  PROVE  RuntimeInv'
<1> USE DEF RuntimeInv, RuntimeTypeOK, Up, Drained, InHandler
<1>1. CASE OnModuleInit BY <1>1 DEF OnModuleInit, mainVars
<1>2. CASE Connected
  <2>1. /\ UNCHANGED <<cleanup, stage, drain, drainFailed, deadline, signals, process, request, tx>>
        /\ \/ prisma = "initializing" /\ prisma' = "ready" /\ connect' = "done"
           \/ prisma # "initializing" /\ prisma' = prisma /\ connect' = "failed"
              /\ connect = "pending"
    BY <1>2, Zenon DEF Connected, AfterConnect, mainVars
  <2>2. CASE prisma = "initializing" BY <2>1, <2>2
  <2>3. CASE prisma # "initializing"
    <3>1. prisma' = prisma /\ prisma # "ready" /\ connect' = "failed" BY <2>1, <2>3, Zenon
    <3>2. /\ prisma' \in {"created", "initializing", "ready", "closing", "closed"}
          /\ cleanup' \in {"none", "pending", "done"}
          /\ cleanup' # "none" => prisma' \in {"closing", "closed"}
      BY <2>1, <3>1, Zenon
    <3> HIDE DEF RuntimeInv, RuntimeTypeOK, Up, Drained
    <3> QED BY <2>1, <3>1, <3>2, PoolStaysAway, Zenon
  <2> QED BY <2>2, <2>3
<1>3. CASE ConnectFails
  <2>1. /\ UNCHANGED <<stage, drain, drainFailed, deadline, signals, process, request, tx>>
        /\ connect = "pending" /\ connect' = "failed"
        /\ \/ cleanup = "none" /\ prisma' = "closing" /\ cleanup' = "pending"
           \/ cleanup # "none" /\ UNCHANGED <<prisma, cleanup>>
    BY <1>3, Zenon DEF ConnectFails, mainVars
  <2>2. connect' = "failed" /\ prisma # "ready" BY <2>1, Zenon
  <2>3. /\ prisma' # "ready" /\ cleanup' \in {"none", "pending", "done"}
        /\ prisma' \in {"created", "initializing", "ready", "closing", "closed"}
        /\ cleanup' # "none" => prisma' \in {"closing", "closed"}
    BY <2>1, <2>2
  <2> HIDE DEF RuntimeInv, RuntimeTypeOK, Up, Drained
  <2> QED BY <2>1, <2>2, <2>3, PoolStaysAway, Zenon
<1>4. CASE CleanupEnds
  <2>1. /\ UNCHANGED <<connect, stage, drain, drainFailed, deadline, signals, process, request, tx>>
        /\ prisma \in {"closing", "closed"} /\ prisma' = "closed" /\ cleanup' = "done"
    BY <1>4, Zenon DEF CleanupEnds, mainVars
  <2>2. /\ prisma # "ready" /\ prisma' # "ready"
        /\ prisma' \in {"created", "initializing", "ready", "closing", "closed"}
        /\ cleanup' \in {"none", "pending", "done"} /\ prisma' \in {"closing", "closed"}
    BY <2>1
  <2>3. connect' \in {"none", "pending", "done", "failed"} BY <2>1, Zenon
  <2> HIDE DEF RuntimeInv, RuntimeTypeOK, Up, Drained
  <2> QED BY <2>1, <2>2, <2>3, PoolStaysAway, Zenon
<1>5. CASE Initialised BY <1>5 DEF Initialised, prismaVars
<1>6. CASE InitFails BY <1>6 DEF InitFails, prismaVars
<1>7. CASE ListenSucceeds BY <1>7 DEF ListenSucceeds, prismaVars
<1>8. CASE ListenFails BY <1>8 DEF ListenFails, prismaVars
<1>9. ASSUME NEW s \in Signals, Signal(s) PROVE RuntimeInv'
  <2>1. /\ UNCHANGED <<prisma, connect, cleanup, stage, drainFailed, request, tx>>
        /\ deadline' = deadline \/ deadline' = TRUE
    BY <1>9, Zenon DEF Signal, prismaVars
  <2>2. deadline' \in BOOLEAN
        /\ tx' \in [Requests -> {"none", "active", "doomed", "closed", "committed", "rolled back"}]
    BY <2>1, Zenon
  <2>3. /\ signals' \subseteq Signals /\ process' \in {"up", "exited"}
        /\ drain' = drain \/ (drain' = "waiting" /\ drain = "idle")
    BY <1>9 DEF Signal
  <2> HIDE DEF RuntimeInv, RuntimeTypeOK, Up, Drained
  <2> QED BY <2>1, <2>2, <2>3, RuntimeStays, Zenon
<1>10. CASE StartDestroy BY <1>10 DEF StartDestroy, prismaVars
<1>11. CASE HttpDrained BY <1>11 DEF HttpDrained, prismaVars
<1>12. CASE HttpFails BY <1>12 DEF HttpFails, prismaVars
<1>13. CASE CloseProviders BY <1>13 DEF CloseProviders, OnModuleDestroy
<1>14. CASE Closed BY <1>14 DEF Closed, prismaVars
<1>15. CASE Exit
  <2>1. /\ UNCHANGED <<prisma, connect, cleanup, stage, drain, drainFailed, deadline, signals,
                       request, tx>>
        /\ process' = "exited"
    BY <1>15 DEF Exit, prismaVars
  <2>2. /\ process' \in {"up", "exited"} /\ deadline' \in BOOLEAN /\ signals' \subseteq Signals
        /\ tx' \in [Requests -> {"none", "active", "doomed", "closed", "committed", "rolled back"}]
    BY <2>1, Zenon
  <2> HIDE DEF RuntimeInv, RuntimeTypeOK, Up, Drained
  <2> QED BY <2>1, <2>2, RuntimeStays, Zenon
<1> QED BY <1>1, <1>2, <1>3, <1>4, <1>5, <1>6, <1>7, <1>8, <1>9, <1>10, <1>11, <1>12, <1>13,
           <1>14, <1>15 DEF LifecycleStep

(* No request is in its handler, or waited for there, that was not before. *)
LEMMA HandlersMove ==
  ASSUME RuntimeInv, UNCHANGED prismaVars, UNCHANGED mainVars,
         request' \in [Requests -> {"none", "running", "abandoned", "done"}],
         tx' \in [Requests -> {"none", "active", "doomed", "closed", "committed", "rolled back"}],
         \A q \in Requests : InHandler(q)' => InHandler(q),
         \A q \in Requests : request'[q] = "running" => request[q] = "running"
  PROVE  RuntimeInv'
<1>1. UNCHANGED <<prisma, connect, cleanup, stage, drain, drainFailed, deadline, signals, process>>
  BY Zenon DEF prismaVars, mainVars
<1>2. RuntimeTypeOK'
  <2>1. /\ prisma' \in {"created", "initializing", "ready", "closing", "closed"}
        /\ connect' \in {"none", "pending", "done", "failed"}
        /\ cleanup' \in {"none", "pending", "done"}
        /\ stage' \in {"init", "starting", "listening", "refused", "aborted"}
    BY <1>1, Zenon DEF RuntimeInv, RuntimeTypeOK
  <2>2. /\ drain' \in {"idle", "waiting", "http", "providers", "ending", "done"}
        /\ drainFailed' \in BOOLEAN /\ deadline' \in BOOLEAN
        /\ signals' \subseteq Signals /\ process' \in {"up", "exited"}
    BY <1>1, Zenon DEF RuntimeInv, RuntimeTypeOK
  <2> QED BY <2>1, <2>2, Zenon DEF RuntimeTypeOK
<1>3. /\ cleanup' # "none" => prisma' \in {"closing", "closed"}
      /\ prisma' = "ready" => connect' = "done"
      /\ stage' \in {"starting", "listening", "refused"}
           /\ drain' \in {"idle", "waiting", "http", "providers"} => prisma' = "ready"
  BY <1>1, Zenon DEF RuntimeInv
<1>4. \A q \in Requests : InHandler(q)' => stage' = "listening" BY <1>1, Zenon DEF RuntimeInv
<1>5. drain' \in {"providers", "ending", "done"} /\ ~drainFailed' => Drained'
  BY <1>1, Zenon DEF RuntimeInv, Drained
<1> QED BY <1>2, <1>3, <1>4, <1>5, Zenon DEF RuntimeInv

(* A request that arrives, loses its client or leaves its handler. *)
LEMMA RequestMoves ==
  ASSUME RuntimeInv, NEW r \in Requests, UNCHANGED prismaVars, UNCHANGED mainVars,
         NEW to \in {"abandoned", "done"}, InHandler(r) \/ to = "done",
         request' = request \/ request' = [request EXCEPT ![r] = to],
         tx' = tx \/ \E status \in {"active", "doomed", "closed", "committed", "rolled back"} :
                       tx' = [tx EXCEPT ![r] = status]
  PROVE  RuntimeInv'
<1>1. /\ request \in [Requests -> {"none", "running", "abandoned", "done"}]
      /\ tx \in [Requests -> {"none", "active", "doomed", "closed", "committed", "rolled back"}]
  BY Zenon DEF RuntimeInv, RuntimeTypeOK
<1>2. request' \in [Requests -> {"none", "running", "abandoned", "done"}] BY <1>1
<1>3. tx' \in [Requests -> {"none", "active", "doomed", "closed", "committed", "rolled back"}]
  BY <1>1
<1>4. \A q \in Requests : request'[q] = request[q] \/ (q = r /\ request'[q] = to) BY <1>1
<1>5. \A q \in Requests : InHandler(q)' => InHandler(q) BY <1>4 DEF InHandler
<1>6. \A q \in Requests : request'[q] = "running" => request[q] = "running" BY <1>4
<1> QED BY <1>2, <1>3, <1>5, <1>6, HandlersMove, Zenon

(* A request opens, uses and leaves the pool. *)
LEMMA RequestKeeps ==
  ASSUME RuntimeInv, NEW r \in Requests, RequestStep(r)
  PROVE  RuntimeInv'
<1>1. CASE Arrives(r)
  BY <1>1 DEF RuntimeInv, RuntimeTypeOK, Up, Drained, InHandler, prismaVars, mainVars, Arrives,
              Accepting
<1>2. CASE Disconnects(r)
  <2>1. /\ UNCHANGED prismaVars /\ UNCHANGED mainVars /\ InHandler(r) /\ tx' = tx
        /\ request' = [request EXCEPT ![r] = "abandoned"]
    BY <1>2, Zenon DEF Disconnects, InHandler
  <2> QED BY <2>1, RequestMoves, Zenon
<1>3. CASE BeginTx(r)
  <2>1. /\ UNCHANGED prismaVars /\ UNCHANGED mainVars /\ request' = request
        /\ tx' = [tx EXCEPT ![r] = "active"]
    BY <1>3, Zenon DEF BeginTx
  <2> QED BY <2>1, RequestMoves, Zenon
<1>4. CASE Doomed(r)
  <2>1. /\ UNCHANGED prismaVars /\ UNCHANGED mainVars /\ request' = request
        /\ tx' = [tx EXCEPT ![r] = "doomed"]
    BY <1>4, Zenon DEF Doomed
  <2> QED BY <2>1, RequestMoves, Zenon
<1>5. CASE DeadlineOf(r)
  <2>1. /\ UNCHANGED prismaVars /\ UNCHANGED mainVars /\ request' = request
        /\ tx' = [tx EXCEPT ![r] = "closed"]
    BY <1>5, Zenon DEF DeadlineOf
  <2> QED BY <2>1, RequestMoves, Zenon
<1>6. CASE Commit(r)
  <2>1. /\ UNCHANGED prismaVars /\ UNCHANGED mainVars
        /\ request' = [request EXCEPT ![r] = "done"] /\ tx' = [tx EXCEPT ![r] = "committed"]
    BY <1>6, Zenon DEF Commit
  <2> QED BY <2>1, RequestMoves, Zenon
<1>7. CASE Rollback(r)
  <2>1. /\ UNCHANGED prismaVars /\ UNCHANGED mainVars
        /\ request' = [request EXCEPT ![r] = "done"] /\ tx' = [tx EXCEPT ![r] = "rolled back"]
    BY <1>7, Zenon DEF Rollback
  <2> QED BY <2>1, RequestMoves, Zenon
<1> QED BY <1>1, <1>2, <1>3, <1>4, <1>5, <1>6, <1>7, Zenon DEF RequestStep

(***************************************************************************)
(* What a step of the work of r does to the process: it is a step of r, or *)
(* nothing, or r is refused before it has a transaction.                   *)
(***************************************************************************)
LEMMA WorkIsRequestStep ==
  ASSUME NEW r \in Requests, Work(r)
  PROVE  RequestStep(r) \/ UNCHANGED runtimeVars \/ RefuseDraft(r)
BY DEF Work, RequestStep, Begin, CommitWork, QueryFails, Receipt, LockTable, ReadNumber, Insert,
       Verify, SelectRate, SelectPolicy, FindUsage, CreateUsage, FinishHold, Settle, Proceed, Refuse

(* Steps of others leave the process as it is. *)
LEMMA RuntimeKept == RuntimeInv /\ UNCHANGED runtimeVars => RuntimeInv'
<1> SUFFICES ASSUME RuntimeInv, UNCHANGED runtimeVars PROVE RuntimeInv'
  OBVIOUS
<1>1. UNCHANGED <<prisma, connect, cleanup, stage, drain, drainFailed, deadline, signals, process,
                  request, tx>>
  BY DEF runtimeVars, prismaVars, mainVars
<1>2. /\ process' \in {"up", "exited"} /\ deadline' \in BOOLEAN /\ signals' \subseteq Signals
      /\ tx' \in [Requests -> {"none", "active", "doomed", "closed", "committed", "rolled back"}]
  BY <1>1, Zenon DEF RuntimeInv, RuntimeTypeOK
<1> QED BY <1>1, <1>2, RuntimeStays, Zenon

(* Every step keeps what is said of the process. *)
LEMMA NextRuntimeInv == RuntimeInv /\ [Next]_vars => RuntimeInv'
<1> SUFFICES ASSUME RuntimeInv, [Next]_vars PROVE RuntimeInv'
  OBVIOUS
<1>1. CASE LifecycleStep BY <1>1, LifecycleKeeps
<1>2. ASSUME NEW r \in Requests, Work(r) PROVE RuntimeInv'
  <2>1. CASE RequestStep(r) BY <2>1, RequestKeeps
  <2>2. CASE RefuseDraft(r)
    <3>1. /\ UNCHANGED prismaVars /\ UNCHANGED mainVars /\ tx' = tx
          /\ request' = [request EXCEPT ![r] = "done"]
      BY <2>2, Zenon DEF RefuseDraft
    <3> QED BY <3>1, RequestMoves, Zenon
  <2> QED BY <1>2, <2>1, <2>2, WorkIsRequestStep, RuntimeKept
<1>3. CASE Tick BY <1>3, RuntimeKept DEF Tick
<1>4. CASE UNCHANGED vars BY <1>4, RuntimeKept DEF vars
<1> QED BY <1>1, <1>2, <1>3, <1>4 DEF Next

(* The process starts with its pool open. *)
LEMMA InitRuntimeInv == RuntimeInit => RuntimeInv
BY DEF RuntimeInit, RuntimeInv, RuntimeTypeOK, Drained, InHandler

(***************************************************************************)
(* The pool goes only when the drain has ended, and not under a handler    *)
(* whose client waits unless the drain failed; one that has been given up  *)
(* does not come back.                                                     *)
(***************************************************************************)
THEOREM PoolAlwaysOutlivesConnections == Spec => []PoolOutlivesConnections
<1>1. Init => RuntimeInv BY InitRuntimeInv DEF Init
<1>2. ASSUME RuntimeInv PROVE PoolOutlivesConnections
  <2>1. ASSUME NEW r \in Requests, InHandler(r), prisma # "ready"
        PROVE  /\ drain \in {"ending", "done"}
               /\ request[r] = "running" => drainFailed
    <3>1. stage = "listening" BY <1>2, <2>1, Zenon DEF RuntimeInv
    <3>2. drain \in {"idle", "waiting", "http", "providers", "ending", "done"}
      BY <1>2, Zenon DEF RuntimeInv, RuntimeTypeOK
    <3>3. drain \in {"ending", "done"}
      BY <1>2, <2>1, <3>1, <3>2, Zenon DEF RuntimeInv
    <3>4. ~drainFailed => Drained BY <1>2, <3>3, Zenon DEF RuntimeInv
    <3> QED BY <3>3, <3>4, Zenon DEF Drained
  <2>2. cleanup # "none" => prisma \in {"closing", "closed"}
    BY <1>2, Zenon DEF RuntimeInv
  <2> QED BY <2>1, <2>2, Zenon DEF PoolOutlivesConnections
<1> QED BY <1>1, <1>2, NextRuntimeInv, PTL DEF Spec

-------------------------------------------------------------------------------
(***************************************************************************)
(* What steps do to transactions. In a step that rests nothing is read or  *)
(* written; transactions may end, and who has none may be refused one.     *)
(***************************************************************************)
TxRests == \A r \in Requests :
  /\ tx'[r] = "none" => tx[r] = "none"
  /\ tx[r] = "none" => tx'[r] \in {"none", "rolled back"}
  /\ tx[r] = "rolled back" => tx'[r] = "rolled back"

Rests == TxRests /\ InDatabase' \subseteq InDatabase /\ UNCHANGED <<job, work, committedRows>>

(* A query of r, after which its transaction is w. *)
Continues(r, w) ==
  /\ CanQuery(r)
  /\ UNCHANGED <<runtimeVars, job, committedRows>>
  /\ work' = [work EXCEPT ![r] = w]

(* The life of the process puts no transaction on, and changes no table. *)
LEMMA LifecycleRests ==
  ASSUME RuntimeInv, LifecycleStep, UNCHANGED meteringVars
  PROVE  Rests
<1>1. tx' = tx /\ (process' = "up" => process = "up")
  BY DEF LifecycleStep, OnModuleInit, Connected, ConnectFails, CleanupEnds, Initialised, InitFails,
         ListenSucceeds, ListenFails, Signal, StartDestroy, HttpDrained, HttpFails, CloseProviders,
         Closed, Exit, prismaVars, mainVars
<1>2. UNCHANGED <<job, work, committedRows>> BY DEF meteringVars
<1> QED BY <1>1, <1>2 DEF Rests, TxRests, InDatabase, Up

(* A transaction that begins, is given up or rolls back changes no table. *)
LEMMA TxStepRests ==
  ASSUME RuntimeInv, NEW r \in Requests,
         Doomed(r) \/ Arrives(r) \/ Disconnects(r) \/ DeadlineOf(r) \/ Rollback(r),
         UNCHANGED <<job, work, committedRows>>
  PROVE  Rests
<1>1. tx \in [Requests -> {"none", "active", "doomed", "closed", "committed", "rolled back"}]
  BY DEF RuntimeInv, RuntimeTypeOK
<1>2. process' = process
  BY DEF Doomed, Arrives, Disconnects, DeadlineOf, Rollback, mainVars
<1>3. \/ tx' = tx
      \/ tx[r] = "active" /\ tx' = [tx EXCEPT ![r] = "doomed"]
      \/ tx[r] \in {"active", "doomed"} /\ tx' = [tx EXCEPT ![r] = "closed"]
      \/ tx' = [tx EXCEPT ![r] = "rolled back"]
  BY DEF Doomed, CanQuery, Arrives, Disconnects, DeadlineOf, Rollback, InDatabase
<1> QED BY <1>1, <1>2, <1>3 DEF Rests, TxRests, InDatabase, Up

(* A step that changes nothing rests. *)
LEMMA UnchangedRests ==
  ASSUME UNCHANGED <<runtimeVars, job, work, committedRows>>
  PROVE  Rests
<1>1. tx' = tx /\ process' = process BY DEF runtimeVars, mainVars
<1> QED BY <1>1 DEF Rests, TxRests, InDatabase, Up

(* A refused command changes no table. *)
LEMMA RefuseRests ==
  ASSUME RuntimeInv, NEW r \in Requests, Refuse(r), UNCHANGED <<now, job, committedRows>>
  PROVE  Rests
BY TxStepRests DEF Refuse

(* A refused draft changes no table. *)
LEMMA RefuseDraftRests ==
  ASSUME NEW r \in Requests, RefuseDraft(r)
  PROVE  Rests
<1>1. tx' = tx /\ process' = process /\ UNCHANGED <<job, work, committedRows>>
  BY DEF RefuseDraft, mainVars, meteringVars
<1> QED BY <1>1 DEF Rests, TxRests, InDatabase, Up

(* Steps that rest keep the invariant. *)
LEMMA RestsKeep ==
  ASSUME MeteringInv, Rests
  PROVE  MeteringInv'
<1>1. /\ InDatabase' \subseteq InDatabase
      /\ UNCHANGED <<job, work, revision, hold, usage, settlement>>
  BY DEF Rests, committedRows
<1>2. WorkTyped' BY <1>1 DEF MeteringInv, WorkTyped, Rests, TxRests, Legal
<1>3. LocksExclude' BY <1>1 DEF MeteringInv, LocksExclude
<1>4. PublishInv'
  BY <1>1 DEF MeteringInv, PublishInv, TableOK, PublicationOK, NoPublication, New, Identity,
              TableLock, Published, Numbers
<1>5. SelectInv'
  <2>1. SelectionsAreSound'
    BY <1>1 DEF MeteringInv, SelectInv, SelectionsAreSound, InForce, Outranks
  <2>2. \A r \in Requests : tx'[r] # "none" =>
          \A t \in Tables : work'[r].known[t] \subseteq revision'[t]
    <3> SUFFICES ASSUME NEW r \in Requests, tx'[r] # "none", NEW t \in Tables
                 PROVE  work[r].known[t] \subseteq revision[t]
      BY <1>1
    <3>1. CASE tx[r] # "none" BY <3>1 DEF MeteringInv, SelectInv
    <3>2. CASE tx[r] = "none"
      <4>1. work[r] = NoWork BY <3>2 DEF MeteringInv, WorkTyped
      <4>2. work[r].known = NoRows BY <4>1 DEF NoWork
      <4> QED BY <4>2 DEF NoRows
    <3> QED BY <3>1, <3>2
  <2>3. /\ \A v \in revision'["rate"] : IsRates(v.content.rates)
        /\ \A r \in Requests : work'[r].selected = [t \in Tables |-> work'[r].selected[t]]
    BY <1>1 DEF MeteringInv, SelectInv
  <2> QED BY <2>1, <2>2, <2>3 DEF SelectInv, IsRates, Publishable, Overlap
<1>6. SettleInv'
  <2>1. ASSUME NEW q \in InDatabase'
        PROVE  /\ SettlingOK(q)' = SettlingOK(q) /\ FinishingOK(q)' = FinishingOK(q)
               /\ NoSettling(q)' = NoSettling(q) /\ q \in InDatabase
    BY <1>1, <2>1 DEF SettlingOK, FinishingOK, NoSettling, HoldHasEnded, HoldDraft,
                      UsageDraft, SettlementDraft, UsageIsCommitted, EndedByMe
  <2>2. SettlementsMatchHolds' = SettlementsMatchHolds BY <1>1 DEF SettlementsMatchHolds
  <2> QED BY <1>1, <2>1, <2>2 DEF MeteringInv, SettleInv
<1> QED BY <1>2, <1>3, <1>4, <1>5, <1>6 DEF MeteringInv

-------------------------------------------------------------------------------
(* What a job is about. *)
LEMMA JobOf ==
  ASSUME WorkTyped, NEW r \in Requests
  PROVE  /\ job[r].kind \in {"publish", "select", "settle", "finish"}
         /\ job[r].kind = "publish" => job[r].table \in Tables
         /\ job[r].kind = "settle" => job[r].status = "captured"
         /\ job[r].kind \in {"settle", "finish"} => job[r].hold \in Holds
<1>1. job[r] \in Jobs BY DEF WorkTyped
<1> QED BY <1>1, JobsAssumption

(* Who is in the database has a transaction, and its state is one of its kind. *)
LEMMA InDatabaseIs ==
  ASSUME WorkTyped, NEW r \in InDatabase
  PROVE  /\ r \in Requests /\ tx[r] # "none" /\ tx[r] # "rolled back" /\ Legal(r)
         /\ work[r].at \in StatesOf(job[r].kind)
BY DEF WorkTyped, InDatabase

(* The rows of other transactions are not touched. *)
LEMMA RowChanges ==
  ASSUME WorkTyped, NEW r \in Requests, NEW w, IsWork(w), work' = [work EXCEPT ![r] = w]
  PROVE  /\ work'[r] = w /\ \A q \in Requests \ {r} : work'[q] = work[q]
         /\ work' = [q \in Requests |-> work'[q]] /\ DOMAIN work' = Requests
         /\ \A q \in Requests : IsWork(work'[q])
BY DEF WorkTyped

(* What is said of one transaction is kept by steps of others that write nothing. *)
LEMMA OthersKept ==
  ASSUME NEW q, work'[q] = work[q], UNCHANGED <<job, revision, hold, usage, settlement>>
  PROVE  /\ PublicationOK(q) => PublicationOK(q)'
         /\ NoPublication(q) => NoPublication(q)'
         /\ SettlingOK(q) => SettlingOK(q)'
         /\ FinishingOK(q) => FinishingOK(q)'
         /\ NoSettling(q) => NoSettling(q)'
<1>1. PublicationOK(q) => PublicationOK(q)'
  BY DEF PublicationOK, New, Identity, TableLock, Published
<1>2. SettlingOK(q) => SettlingOK(q)'
  BY DEF SettlingOK, HoldHasEnded, HoldDraft, UsageDraft, SettlementDraft, UsageIsCommitted, EndedByMe
<1>3. FinishingOK(q) => FinishingOK(q)'
  BY DEF FinishingOK, HoldHasEnded, HoldDraft, EndedByMe
<1> QED BY <1>1, <1>2, <1>3 DEF NoPublication, NoSettling

(***************************************************************************)
(* A step of one transaction that only changes its own row: the invariant  *)
(* is kept when what it says of this row is true afterwards.               *)
(***************************************************************************)
PartOK(r) ==
  /\ IF job[r].kind = "publish" THEN PublicationOK(r) ELSE NoPublication(r)
  /\ job[r].kind = "settle" => SettlingOK(r)
  /\ job[r].kind = "finish" => FinishingOK(r)
  /\ job[r].kind \in {"publish", "select"} => NoSettling(r)

(* One request works on, within what it may have; tables and others stay. *)
LEMMA RowKeeps ==
  ASSUME MeteringInv, NEW r \in Requests, NEW w, IsWork(w), work' = [work EXCEPT ![r] = w],
         InDatabase' \subseteq InDatabase \cup {r},
         \A q \in Requests \ {r} : tx'[q] = tx[q],
         UNCHANGED <<job, revision, hold, usage, settlement>>,
         w.at \in StatesOf(job[r].kind), Legal(r), w.number \in Nat, tx'[r] # "none",
         PartOK(r)',
         \A q \in InDatabase \ {r} : w.locks \cap work[q].locks = {},
         \A t \in Tables : w.known[t] \subseteq revision[t],
         w.selected = [t \in Tables |-> w.selected[t]], ~w.ambiguous,
         \A t \in Tables : \A v \in w.selected[t] :
           /\ v \in InForce(revision[t], w.clock)
           /\ \A u \in InForce(w.known[t], w.clock) : ~Outranks(u, v),
         \A u \in w.usage :
           /\ \A v \in usage : ~Alike(u, v)
           /\ \A q \in InDatabase \ {r} : \A v \in work[q].usage : ~Alike(u, v)
  PROVE  MeteringInv'
<1>1. /\ work'[r] = w /\ \A q \in Requests \ {r} : work'[q] = work[q]
      /\ work' = [q \in Requests |-> work'[q]] /\ DOMAIN work' = Requests
      /\ \A q \in Requests : IsWork(work'[q])
  BY RowChanges DEF MeteringInv
<1>2. \A q \in InDatabase' \ {r} : q \in InDatabase /\ q \in Requests /\ work'[q] = work[q]
  BY <1>1 DEF InDatabase
<1>3. WorkTyped'
  <2>1. \A q \in Requests : Legal(q)' = Legal(q) BY DEF Legal
  <2>2. \A q \in Requests : tx'[q] = "none" => work'[q] = NoWork
    BY <1>1 DEF MeteringInv, WorkTyped
  <2>3. \A q \in Requests : tx'[q] # "none" /\ tx'[q] # "rolled back" =>
          work'[q].at \in StatesOf(job'[q].kind) /\ Legal(q)
    BY <1>1 DEF MeteringInv, WorkTyped
  <2>4. job' \in [Requests -> Jobs] BY DEF MeteringInv, WorkTyped
  <2> QED BY <1>1, <2>1, <2>2, <2>3, <2>4 DEF WorkTyped
<1>4. LocksExclude'
  <2> SUFFICES ASSUME NEW p \in InDatabase', NEW q \in InDatabase', p # q
               PROVE  work'[p].locks \cap work'[q].locks = {}
    BY DEF LocksExclude
  <2>1. CASE p # r /\ q # r BY <1>2, <2>1 DEF MeteringInv, LocksExclude
  <2>2. CASE p = r BY <1>1, <1>2, <2>2
  <2>3. CASE q = r BY <1>1, <1>2, <2>3
  <2> QED BY <2>1, <2>2, <2>3
<1>5. \A q \in InDatabase' : PartOK(q)'
  <2>1. ASSUME NEW q \in InDatabase', q # r PROVE PartOK(q)'
    <3>1. PartOK(q) BY <1>2, <2>1 DEF MeteringInv, PublishInv, SettleInv, PartOK
    <3>2. job' = job /\ work'[q] = work[q] BY <1>2, <2>1
    <3> QED BY <3>1, <3>2, OthersKept DEF PartOK
  <2> QED BY <2>1
<1>6. PublishInv'
  <2>1. \A t \in Tables : TableOK(t)' BY DEF MeteringInv, PublishInv, TableOK, Numbers
  <2>2. \A q \in Requests : work'[q].number \in Nat BY <1>1 DEF MeteringInv, PublishInv
  <2>3. revision' = [t \in Tables |-> revision'[t]] BY DEF MeteringInv, PublishInv
  <2> QED BY <1>5, <2>1, <2>2, <2>3 DEF PublishInv, PartOK
<1>7. SelectInv'
  <2>1. \A v \in revision'["rate"] : IsRates(v.content.rates) BY DEF MeteringInv, SelectInv
  <2>2. ASSUME NEW q \in Requests
        PROVE  /\ tx'[q] # "none" => \A t \in Tables : work'[q].known[t] \subseteq revision'[t]
               /\ work'[q].selected = [t \in Tables |-> work'[q].selected[t]]
               /\ ~work'[q].ambiguous
               /\ \A t \in Tables : \A v \in work'[q].selected[t] :
                    /\ v \in InForce(revision'[t], work'[q].clock)
                    /\ \A u \in InForce(work'[q].known[t], work'[q].clock) : ~Outranks(u, v)
    <3>1. CASE q = r BY <1>1, <3>1
    <3>2. CASE q # r
      <4>1. work'[q] = work[q] /\ tx'[q] = tx[q] BY <1>1, <3>2
      <4> QED BY <4>1 DEF MeteringInv, SelectInv, SelectionsAreSound
    <3> QED BY <3>1, <3>2
  <2>3. SelectionsAreSound' BY <2>2 DEF SelectionsAreSound, InForce, Outranks
  <2> QED BY <2>1, <2>2, <2>3 DEF SelectInv, IsRates, Publishable, Overlap
<1>8. SettleInv'
  <2>1. /\ hold' = [h \in Holds |-> hold'[h]] /\ \A s \in settlement' : s.hold \in Holds
        /\ \A u, v \in usage' : Alike(u, v) => u = v
    BY DEF MeteringInv, SettleInv
  <2>2. SettlementsMatchHolds' BY DEF MeteringInv, SettleInv, SettlementsMatchHolds
  <2>3. ASSUME NEW q \in InDatabase'
        PROVE  \A u \in work'[q].usage, v \in usage' : ~Alike(u, v)
    <3>1. CASE q = r BY <1>1, <3>1
    <3>2. CASE q # r BY <1>2, <3>2 DEF MeteringInv, SettleInv
    <3> QED BY <3>1, <3>2
  <2>4. ASSUME NEW q \in InDatabase', NEW p \in InDatabase' \ {q},
               NEW u \in work'[q].usage, NEW v \in work'[p].usage
        PROVE  ~Alike(u, v)
    <3>1. CASE q = r BY <1>1, <1>2, <3>1
    <3>2. CASE p = r
      <4>1. ~Alike(v, u) BY <1>1, <1>2, <3>2
      <4> QED BY <4>1 DEF Alike
    <3>3. CASE q # r /\ p # r BY <1>2, <3>3 DEF MeteringInv, SettleInv
    <3> QED BY <3>1, <3>2, <3>3
  <2> QED BY <1>5, <2>1, <2>2, <2>3, <2>4 DEF SettleInv, PartOK, Alike
<1> QED BY <1>3, <1>4, <1>6, <1>7, <1>8 DEF MeteringInv

(* The row of a transaction that has done nothing. *)
LEMMA NoWorkIs ==
  /\ IsWork(NoWork) /\ NoWork.at = "begin" /\ NoWork.locks = {} /\ NoWork.number = 0
  /\ NoWork.known = NoRows /\ NoWork.selected = NoRows /\ NoWork.ambiguous = FALSE
  /\ NoWork.revision = {} /\ NoWork.hold = {} /\ NoWork.usage = {} /\ NoWork.settlement = {}
BY DEF NoWork, IsWork

(* A row of which some fields have changed is a row. *)
LEMMA ChangedRow ==
  ASSUME NEW n, IsWork(n), NEW w, DOMAIN w = DOMAIN n, w = [f \in DOMAIN w |-> w[f]]
  PROVE  IsWork(w)
<1>1. DOMAIN w = {"at", "clock", "known", "locks", "number", "selected", "ambiguous", "revision",
                  "hold", "usage", "settlement"}
  BY DEF IsWork
<1> QED BY <1>1 DEF IsWork

(* A transaction begins with nothing but what is committed. *)
LEMMA BeginKeeps ==
  ASSUME Inv, NEW r \in Requests, Begin(r)
  PROVE  MeteringInv'
<1> DEFINE first == FirstQuery[job[r].kind]
           w == [NoWork EXCEPT !.at = first, !.clock = now, !.known = revision]
<1>1. /\ tx \in [Requests -> {"none", "active", "doomed", "closed", "committed", "rolled back"}]
      /\ MeteringInv /\ WorkTyped
  BY DEF Inv, RuntimeInv, RuntimeTypeOK, MeteringInv
<1>2. /\ tx[r] = "none" /\ Legal(r) /\ work[r] = NoWork
      /\ tx' = [tx EXCEPT ![r] = "active"] /\ process' = process
      /\ work' = [work EXCEPT ![r] = w]
      /\ UNCHANGED <<job, revision, hold, usage, settlement>>
  <2>1. tx[r] = "none" /\ Legal(r) /\ tx' = [tx EXCEPT ![r] = "active"] /\ process' = process
    BY DEF Begin, BeginTx, mainVars
  <2>2. work[r] = NoWork BY <1>1, <2>1 DEF WorkTyped
  <2> HIDE DEF NoWork
  <2>3. work' = [work EXCEPT ![r] = [work[r] EXCEPT !.at = first, !.clock = now, !.known = revision]]
    BY <1>1 DEF Begin, WorkTyped
  <2>4. UNCHANGED <<job, revision, hold, usage, settlement>> BY DEF Begin, committedRows
  <2> QED BY <2>1, <2>2, <2>3, <2>4
<1>4. /\ job[r].kind = "publish" => first = "receipt"
      /\ job[r].kind = "select" => first = "rate"
      /\ job[r].kind = "settle" => first = "find"
      /\ job[r].kind = "finish" => first = "hold"
  BY DEF FirstQuery
<1> HIDE DEF first
<1> HIDE DEF w
<1>5. /\ IsWork(w) /\ w.at = first /\ w.clock = now /\ w.known = revision /\ w.locks = {}
      /\ w.number = 0 /\ w.selected = NoRows /\ w.ambiguous = FALSE
      /\ w.revision = {} /\ w.hold = {} /\ w.usage = {} /\ w.settlement = {}
  <2>1. PICK n : n = NoWork OBVIOUS
  <2>2. PICK x : x = w OBVIOUS
  <2>3. x = [n EXCEPT !.at = first, !.clock = now, !.known = revision] BY <2>1, <2>2 DEF w
  <2>4. /\ IsWork(x) /\ x.at = first /\ x.clock = now /\ x.known = revision /\ x.locks = {}
        /\ x.number = 0 /\ x.selected = NoRows /\ x.ambiguous = FALSE
        /\ x.revision = {} /\ x.hold = {} /\ x.usage = {} /\ x.settlement = {}
    <3>1. /\ IsWork(n) /\ n.locks = {} /\ n.number = 0 /\ n.selected = NoRows
          /\ n.ambiguous = FALSE /\ n.revision = {} /\ n.hold = {} /\ n.usage = {}
          /\ n.settlement = {}
      BY <2>1, NoWorkIs
    <3>2. /\ x.at = first /\ x.clock = now /\ x.known = revision /\ x.locks = n.locks
          /\ x.number = n.number /\ x.selected = n.selected /\ x.ambiguous = n.ambiguous
          /\ x.revision = n.revision /\ x.hold = n.hold /\ x.usage = n.usage
          /\ x.settlement = n.settlement
      BY <2>3, <3>1 DEF IsWork
    <3>3. DOMAIN x = DOMAIN n /\ x = [f \in DOMAIN x |-> x[f]] BY <2>3
    <3>4. IsWork(x) BY <3>1, <3>3, ChangedRow
    <3> QED BY <3>1, <3>2, <3>4
  <2> QED BY <2>2, <2>4
<1>6. w.at \in StatesOf(job[r].kind) BY <1>1, <1>4, <1>5, JobOf DEF StatesOf
<1>7. /\ \A q \in Requests \ {r} : tx'[q] = tx[q]
      /\ tx'[r] = "active" /\ InDatabase' \subseteq InDatabase \cup {r}
  BY <1>1, <1>2 DEF InDatabase, Up
<1>8. PartOK(r)'
  <2>1. work'[r] = w /\ job' = job BY <1>1, <1>2, <1>5, RowChanges
  <2>2. job[r].kind = "publish" => PublicationOK(r)'
    BY <1>4, <1>5, <2>1 DEF PublicationOK, New
  <2>3. NoPublication(r)' /\ NoSettling(r)'
    BY <1>5, <2>1 DEF NoPublication, NoSettling
  <2>4. job[r].kind = "settle" => SettlingOK(r)'
    BY <1>4, <1>5, <2>1 DEF SettlingOK
  <2>5. job[r].kind = "finish" => FinishingOK(r)'
    BY <1>4, <1>5, <2>1 DEF FinishingOK
  <2> QED BY <2>1, <2>2, <2>3, <2>4, <2>5 DEF PartOK
<1>9. /\ w.number \in Nat /\ tx'[r] # "none" /\ ~w.ambiguous
      /\ w.selected = [t \in Tables |-> w.selected[t]] /\ \A t \in Tables : w.selected[t] = {}
  BY <1>5, <1>7 DEF NoRows
<1> QED BY <1>1, <1>2, <1>5, <1>6, <1>7, <1>8, <1>9, RowKeeps

(***************************************************************************)
(* What a query has to show: what is said of its own row, that it takes    *)
(* only locks that are free, and that a usage event it drafts is new.      *)
(***************************************************************************)
LEMMA ContinuesKeeps ==
  ASSUME Inv, NEW r \in Requests, NEW w, Continues(r, w), IsWork(w),
         w.at \in StatesOf(job[r].kind), w.number \in Nat,
         PartOK(r)',
         \A name \in w.locks \ work[r].locks : Free(r, name),
         w.known = work[r].known, w.clock = work[r].clock,
         w.selected = [t \in Tables |-> w.selected[t]], ~w.ambiguous,
         \A t \in Tables : \A v \in w.selected[t] : v \in work[r].selected[t] \/
           /\ v \in InForce(revision[t], w.clock)
           /\ \A u \in InForce(w.known[t], w.clock) : ~Outranks(u, v),
         \A u \in w.usage :
           \/ \E x \in work[r].usage : u.source = x.source /\ u.hold = x.hold
           \/ /\ \A v \in usage : ~Alike(u, v)
              /\ \A q \in InDatabase \ {r} : \A v \in work[q].usage : ~Alike(u, v)
  PROVE  MeteringInv'
<1>1. MeteringInv /\ WorkTyped BY DEF Inv, MeteringInv
<1>2. /\ r \in InDatabase /\ tx[r] = "active" BY DEF Continues, CanQuery, InDatabase
<1>3. /\ work' = [work EXCEPT ![r] = w] /\ UNCHANGED <<job, revision, hold, usage, settlement>>
      /\ tx' = tx /\ InDatabase' = InDatabase
  BY DEF Continues, committedRows, runtimeVars, mainVars, InDatabase, Up
<1>4. Legal(r) BY <1>1, <1>2, InDatabaseIs
<1>5. \A q \in InDatabase \ {r} : w.locks \cap work[q].locks = {}
  BY <1>1, <1>2 DEF MeteringInv, LocksExclude, Free
<1>6. \A t \in Tables : w.known[t] \subseteq revision[t]
  BY <1>1, <1>2 DEF MeteringInv, SelectInv
<1>7. \A t \in Tables : \A v \in w.selected[t] :
        /\ v \in InForce(revision[t], w.clock)
        /\ \A u \in InForce(w.known[t], w.clock) : ~Outranks(u, v)
  BY <1>1 DEF MeteringInv, SelectInv, SelectionsAreSound
<1>8. ASSUME NEW u \in w.usage
      PROVE  /\ \A v \in usage : ~Alike(u, v)
             /\ \A q \in InDatabase \ {r} : \A v \in work[q].usage : ~Alike(u, v)
  <2>1. ASSUME NEW x \in work[r].usage, u.source = x.source /\ u.hold = x.hold
        PROVE  /\ \A v \in usage : ~Alike(u, v)
               /\ \A q \in InDatabase \ {r} : \A v \in work[q].usage : ~Alike(u, v)
    <3>1. /\ \A v \in usage : ~Alike(x, v)
          /\ \A q \in InDatabase \ {r} : \A v \in work[q].usage : ~Alike(x, v)
      BY <1>1, <1>2 DEF MeteringInv, SettleInv
    <3> QED BY <2>1, <3>1 DEF Alike
  <2> QED BY <2>1
<1> QED BY <1>1, <1>2, <1>3, <1>4, <1>5, <1>6, <1>7, <1>8, RowKeeps

-------------------------------------------------------------------------------
(* The kind of a job tells which queries its transaction makes. *)
LEMMA KindOf ==
  ASSUME NEW kind \in {"publish", "select", "settle", "finish"}, NEW at \in StatesOf(kind)
  PROVE  /\ at \in {"receipt", "lock", "number", "insert", "verify"} => kind = "publish"
         /\ at \in {"rate", "policy"} => kind = "select"
         /\ at \in {"find", "create", "settlement"} => kind = "settle"
         /\ at = "hold" => kind \in {"settle", "finish"}
BY DEF StatesOf

(* What the invariant says of an open transaction. *)
LEMMA InTransaction ==
  ASSUME Inv, NEW r \in InDatabase
  PROVE  /\ MeteringInv /\ WorkTyped /\ IsWork(work[r]) /\ PartOK(r)
         /\ Legal(r) /\ work[r].at \in StatesOf(job[r].kind) /\ job[r] \in Jobs
         /\ job[r].kind \in {"publish", "select", "settle", "finish"}
         /\ job[r].kind = "publish" => job[r].table \in Tables
         /\ job[r].kind = "settle" => job[r].status = "captured"
         /\ job[r].kind \in {"settle", "finish"} => job[r].hold \in Holds
         /\ work[r].number \in Nat /\ ~work[r].ambiguous
         /\ work[r].selected = [t \in Tables |-> work[r].selected[t]]
<1>1. MeteringInv /\ WorkTyped BY DEF Inv, MeteringInv
<1>2. r \in Requests BY DEF InDatabase
<1>3. PartOK(r) BY <1>1 DEF MeteringInv, PublishInv, SettleInv, PartOK
<1>4. /\ IsWork(work[r]) /\ work[r].number \in Nat /\ job[r] \in Jobs
      /\ ~work[r].ambiguous
      /\ work[r].selected = [t \in Tables |-> work[r].selected[t]]
  BY <1>1, <1>2 DEF MeteringInv, WorkTyped, PublishInv, SelectInv, SelectionsAreSound
<1> QED BY <1>1, <1>2, <1>3, <1>4, JobOf, InDatabaseIs

(* And of one that makes a query. *)
LEMMA AtQuery ==
  ASSUME Inv, NEW r \in Requests, CanQuery(r)
  PROVE  /\ MeteringInv /\ WorkTyped /\ r \in InDatabase /\ IsWork(work[r]) /\ PartOK(r)
         /\ Legal(r) /\ work[r].at \in StatesOf(job[r].kind) /\ job[r] \in Jobs
         /\ job[r].kind \in {"publish", "select", "settle", "finish"}
         /\ job[r].kind = "publish" => job[r].table \in Tables
         /\ job[r].kind = "settle" => job[r].status = "captured"
         /\ job[r].kind \in {"settle", "finish"} => job[r].hold \in Holds
         /\ work[r].number \in Nat /\ ~work[r].ambiguous
         /\ work[r].selected = [t \in Tables |-> work[r].selected[t]]
<1>1. r \in InDatabase BY DEF CanQuery, InDatabase
<1> QED BY <1>1, InTransaction

(* A query that refuses leaves the invariant as it is. *)
LEMMA RefuseKeeps ==
  ASSUME Inv, NEW r \in Requests, Refuse(r), UNCHANGED <<now, job, committedRows>>
  PROVE  MeteringInv'
<1>1. RuntimeInv /\ MeteringInv BY DEF Inv
<1>2. Rests BY <1>1, RefuseRests
<1> QED BY <1>1, <1>2, RestsKeep

(* A query that goes on with the row w. *)
LEMMA ProceedContinues ==
  ASSUME WorkTyped, NEW r \in Requests, CanQuery(r), NEW w, Proceed(r, w),
         UNCHANGED <<now, job, committedRows>>
  PROVE  /\ Continues(r, w) /\ work'[r] = w
         /\ UNCHANGED <<job, revision, hold, usage, settlement>>
BY DEF Proceed, Continues, committedRows, WorkTyped

(* A query that selects and drafts no usage event. *)
LEMMA QueryKeeps ==
  ASSUME Inv, NEW r \in Requests, NEW w, Continues(r, w), IsWork(w),
         w.at \in StatesOf(job[r].kind), w.number \in Nat,
         PartOK(r)',
         \A name \in w.locks \ work[r].locks : Free(r, name),
         w.known = work[r].known, w.clock = work[r].clock, w.selected = work[r].selected,
         w.ambiguous = work[r].ambiguous, w.usage = work[r].usage
  PROVE  MeteringInv'
<1>1. CanQuery(r) BY DEF Continues
<1>2. /\ w.selected = [t \in Tables |-> w.selected[t]] /\ ~w.ambiguous
      /\ \A t \in Tables : \A v \in w.selected[t] : v \in work[r].selected[t]
      /\ \A u \in w.usage : \E x \in work[r].usage : u.source = x.source /\ u.hold = x.hold
  BY <1>1, AtQuery
<1> QED BY <1>2, ContinuesKeeps

-------------------------------------------------------------------------------
(* A publication takes the lock of its identity before it looks for a replay. *)
LEMMA ReceiptKeeps ==
  ASSUME Inv, NEW r \in Requests, Receipt(r)
  PROVE  MeteringInv'
<1>1. /\ CanQuery(r) /\ work[r].at = "receipt" /\ Free(r, Identity(r))
      /\ UNCHANGED <<now, job, committedRows>>
  BY DEF Receipt, Step
<1>2. /\ WorkTyped /\ IsWork(work[r]) /\ PartOK(r) /\ work[r].number \in Nat
      /\ job[r].kind = "publish"
  BY <1>1, AtQuery, KindOf
<1>3. ASSUME NEW next \in {"verify", "lock"}, next = "lock" => Published(r) = {},
             Proceed(r, [work[r] EXCEPT !.at = next, !.locks = {Identity(r)}])
      PROVE  MeteringInv'
  <2>1. PICK n : n = work[r] OBVIOUS
  <2>2. PICK lock : lock = {Identity(r)} OBVIOUS
  <2>3. PICK w : w = [n EXCEPT !.at = next, !.locks = lock] OBVIOUS
  <2>4. /\ w.at = next /\ w.clock = n.clock /\ w.known = n.known /\ w.locks = lock
        /\ w.number = n.number /\ w.selected = n.selected /\ w.ambiguous = n.ambiguous
        /\ w.revision = n.revision /\ w.hold = n.hold /\ w.usage = n.usage
        /\ w.settlement = n.settlement
    BY <1>2, <2>1, <2>3 DEF IsWork
  <2>5. DOMAIN w = DOMAIN n /\ w = [f \in DOMAIN w |-> w[f]] BY <2>3
  <2>6. IsWork(w) BY <1>2, <2>1, <2>5, ChangedRow
  <2>7. Proceed(r, w) BY <1>3, <2>1, <2>2, <2>3, Zenon
  <2> HIDE <2>3
  <2>8. /\ Continues(r, w) /\ work'[r] = w /\ UNCHANGED <<job, revision>>
    BY <1>1, <1>2, <2>7, ProceedContinues
  <2>9. PublicationOK(r) /\ NoSettling(r) BY <1>2 DEF PartOK
  <2>10. PublicationOK(r)'
    <3>1. work[r].number = 0 /\ work[r].revision = {}
      BY <1>1, <2>9 DEF PublicationOK
    <3>2. Identity(r)' = Identity(r) /\ Published(r)' = Published(r)
      BY <2>8 DEF Identity, Published
    <3>3. work'[r].number = 0 /\ work'[r].revision = {} /\ work'[r].at = next
      BY <2>1, <2>4, <2>8, <3>1
    <3>4. Identity(r) \in work'[r].locks BY <2>2, <2>4, <2>8
    <3>5. New(r)' => Published(r) = {} BY <1>3, <3>3 DEF New
    <3> QED BY <3>2, <3>3, <3>4, <3>5 DEF PublicationOK
  <2>11. NoSettling(r)' BY <2>1, <2>4, <2>8, <2>9 DEF NoSettling
  <2>12. PartOK(r)' BY <1>2, <2>8, <2>10, <2>11 DEF PartOK
  <2>13. w.at \in StatesOf(job[r].kind) BY <1>2, <2>4 DEF StatesOf
  <2> QED BY <1>1, <1>2, <2>1, <2>2, <2>4, <2>6, <2>8, <2>12, <2>13, QueryKeeps
<1>4. CASE Refuse(r) BY <1>1, <1>4, RefuseKeeps
<1> QED BY <1>3, <1>4 DEF Receipt

(* New publications of a table take their number one after the other. *)
LEMMA LockTableKeeps ==
  ASSUME Inv, NEW r \in Requests, LockTable(r)
  PROVE  MeteringInv'
<1>1. /\ CanQuery(r) /\ work[r].at = "lock" /\ Free(r, TableLock(r))
      /\ UNCHANGED <<now, job, committedRows>>
      /\ Proceed(r, [work[r] EXCEPT !.at = "number", !.locks = @ \cup {TableLock(r)}])
  BY DEF LockTable, Step
<1>2. /\ WorkTyped /\ IsWork(work[r]) /\ PartOK(r) /\ work[r].number \in Nat
      /\ job[r].kind = "publish"
  BY <1>1, AtQuery, KindOf
<1>3. PICK n : n = work[r] OBVIOUS
<1>4. PICK locks : locks = n.locks \cup {TableLock(r)} OBVIOUS
<1>5. PICK w : w = [n EXCEPT !.at = "number", !.locks = locks] OBVIOUS
<1>6. /\ w.at = "number" /\ w.clock = n.clock /\ w.known = n.known /\ w.locks = locks
      /\ w.number = n.number /\ w.selected = n.selected /\ w.ambiguous = n.ambiguous
      /\ w.revision = n.revision /\ w.hold = n.hold /\ w.usage = n.usage
      /\ w.settlement = n.settlement
  BY <1>2, <1>3, <1>5 DEF IsWork
<1>7. DOMAIN w = DOMAIN n /\ w = [f \in DOMAIN w |-> w[f]] BY <1>5
<1>8. IsWork(w) BY <1>2, <1>3, <1>7, ChangedRow
<1>9. w = [work[r] EXCEPT !.at = "number", !.locks = @ \cup {TableLock(r)}]
  BY <1>2, <1>3, <1>4, <1>5 DEF IsWork
<1>10. Proceed(r, w) BY <1>1, <1>9, Zenon
<1> HIDE <1>5, <1>9
<1>11. Continues(r, w) /\ work'[r] = w /\ UNCHANGED <<job, revision>>
  BY <1>1, <1>2, <1>10, ProceedContinues
<1>12. PublicationOK(r) /\ NoSettling(r) BY <1>2 DEF PartOK
<1>13. PublicationOK(r)'
  <2>1. /\ work[r].number = 0 /\ work[r].revision = {} /\ Published(r) = {}
        /\ Identity(r) \in work[r].locks
    BY <1>1, <1>12 DEF PublicationOK, New
  <2>2. /\ Identity(r)' = Identity(r) /\ Published(r)' = Published(r)
        /\ TableLock(r)' = TableLock(r)
    BY <1>11 DEF Identity, Published, TableLock
  <2>3. work'[r].number = 0 /\ work'[r].revision = {} /\ work'[r].at = "number"
    BY <1>3, <1>6, <1>11, <2>1
  <2>4. Identity(r) \in work'[r].locks /\ TableLock(r) \in work'[r].locks
    BY <1>3, <1>4, <1>6, <1>11, <2>1
  <2> QED BY <2>1, <2>2, <2>3, <2>4 DEF PublicationOK
<1>14. NoSettling(r)' BY <1>3, <1>6, <1>11, <1>12 DEF NoSettling
<1>15. PartOK(r)' BY <1>2, <1>11, <1>13, <1>14 DEF PartOK
<1>16. w.at \in StatesOf(job[r].kind) BY <1>2, <1>6 DEF StatesOf
<1>17. \A name \in w.locks \ work[r].locks : Free(r, name) BY <1>1, <1>3, <1>4, <1>6
<1> QED BY <1>2, <1>3, <1>6, <1>8, <1>11, <1>15, <1>16, <1>17, QueryKeeps

(* The number after those of a table without gaps. *)
LEMMA NextNumber ==
  ASSUME NEW n \in Nat
  PROVE  Max((1 .. n) \cup {0}) = n
<1> DEFINE S == (1 .. n) \cup {0}
<1>1. n \in S /\ \A m \in S : m \in Int /\ n >= m OBVIOUS
<1>2. Max(S) \in S /\ \A m \in S : Max(S) >= m BY <1>1 DEF Max
<1>3. Max(S) >= n /\ n >= Max(S) /\ Max(S) \in Int BY <1>1, <1>2
<1> QED BY <1>3

(* The number that is read is the last one of its lineage. *)
LEMMA ReadNumberKeeps ==
  ASSUME Inv, NEW r \in Requests, ReadNumber(r)
  PROVE  MeteringInv'
<1>1. /\ CanQuery(r) /\ work[r].at = "number" /\ UNCHANGED <<now, job, committedRows>>
      /\ Proceed(r, [work[r] EXCEPT !.at = "insert",
                       !.number = Max(Numbers(revision[job[r].table]) \cup {0}) + 1])
  BY DEF ReadNumber, Step
<1>2. /\ WorkTyped /\ IsWork(work[r]) /\ PartOK(r) /\ MeteringInv
      /\ job[r].kind = "publish" /\ job[r].table \in Tables
  BY <1>1, AtQuery, KindOf
<1>3. PICK count : count = Cardinality(revision[job[r].table]) OBVIOUS
<1>4. count \in Nat /\ Max(Numbers(revision[job[r].table]) \cup {0}) = count
  <2>1. TableOK(job[r].table) BY <1>2 DEF MeteringInv, PublishInv
  <2>2. count \in Nat BY <1>3, <2>1, FS_CardinalityType DEF TableOK
  <2>3. Numbers(revision[job[r].table]) = 1 .. count BY <1>3, <2>1 DEF TableOK
  <2> QED BY <2>2, <2>3, NextNumber
<1>5. PICK n : n = work[r] OBVIOUS
<1>6. PICK number : number = count + 1 OBVIOUS
<1>7. PICK w : w = [n EXCEPT !.at = "insert", !.number = number] OBVIOUS
<1>8. /\ w.at = "insert" /\ w.clock = n.clock /\ w.known = n.known /\ w.locks = n.locks
      /\ w.number = number /\ w.selected = n.selected /\ w.ambiguous = n.ambiguous
      /\ w.revision = n.revision /\ w.hold = n.hold /\ w.usage = n.usage
      /\ w.settlement = n.settlement
  BY <1>2, <1>5, <1>7 DEF IsWork
<1>9. DOMAIN w = DOMAIN n /\ w = [f \in DOMAIN w |-> w[f]] BY <1>7
<1>10. IsWork(w) BY <1>2, <1>5, <1>9, ChangedRow
<1>11. Proceed(r, w) BY <1>1, <1>4, <1>5, <1>6, <1>7, Zenon
<1> HIDE <1>7
<1>12. Continues(r, w) /\ work'[r] = w /\ UNCHANGED <<job, revision>>
  BY <1>1, <1>2, <1>11, ProceedContinues
<1>13. PublicationOK(r) /\ NoSettling(r) BY <1>2 DEF PartOK
<1>14. PublicationOK(r)'
  <2>1. /\ work[r].number = 0 /\ work[r].revision = {} /\ Published(r) = {}
        /\ Identity(r) \in work[r].locks /\ TableLock(r) \in work[r].locks
    BY <1>1, <1>13 DEF PublicationOK, New
  <2>2. /\ Identity(r)' = Identity(r) /\ Published(r)' = Published(r)
        /\ TableLock(r)' = TableLock(r)
    BY <1>12 DEF Identity, Published, TableLock
  <2>3. /\ work'[r].number = count + 1 /\ work'[r].number > 0
        /\ work'[r].revision = {} /\ work'[r].at = "insert"
    BY <1>4, <1>5, <1>6, <1>8, <1>12, <2>1
  <2>4. Identity(r) \in work'[r].locks /\ TableLock(r) \in work'[r].locks
    BY <1>5, <1>8, <1>12, <2>1
  <2>5. Cardinality(revision'[job'[r].table]) = count BY <1>3, <1>12
  <2> QED BY <2>1, <2>2, <2>3, <2>4, <2>5 DEF PublicationOK
<1>15. NoSettling(r)' BY <1>5, <1>8, <1>12, <1>13 DEF NoSettling
<1>16. PartOK(r)' BY <1>2, <1>12, <1>14, <1>15 DEF PartOK
<1>17. w.at \in StatesOf(job[r].kind) BY <1>2, <1>8 DEF StatesOf
<1>18. w.number \in Nat BY <1>4, <1>6, <1>8
<1> QED BY <1>5, <1>8, <1>10, <1>12, <1>16, <1>17, <1>18, QueryKeeps

(* A publication drafts its revision, or finds that it lost. *)
LEMMA InsertKeeps ==
  ASSUME Inv, NEW r \in Requests, Insert(r)
  PROVE  MeteringInv'
<1> DEFINE draft == [number |-> work[r].number, identity |-> job[r].identity,
                     effective |-> job[r].effective, content |-> job[r].content]
<1>1. CanQuery(r) /\ work[r].at = "insert" /\ UNCHANGED <<now, job, committedRows>>
  BY DEF Insert, Step
<1>2. /\ WorkTyped /\ IsWork(work[r]) /\ PartOK(r) /\ work[r].number \in Nat
      /\ job[r].kind = "publish"
  BY <1>1, AtQuery, KindOf
<1>3. ASSUME Proceed(r, [work[r] EXCEPT !.at = "verify", !.revision = {draft}])
      PROVE  MeteringInv'
  <2>1. PICK n : n = work[r] OBVIOUS
  <2>2. PICK rows : rows = {draft} OBVIOUS
  <2>3. PICK w : w = [n EXCEPT !.at = "verify", !.revision = rows] OBVIOUS
  <2>4. /\ w.at = "verify" /\ w.clock = n.clock /\ w.known = n.known /\ w.locks = n.locks
        /\ w.number = n.number /\ w.selected = n.selected /\ w.ambiguous = n.ambiguous
        /\ w.revision = rows /\ w.hold = n.hold /\ w.usage = n.usage
        /\ w.settlement = n.settlement
    BY <1>2, <2>1, <2>3 DEF IsWork
  <2>5. DOMAIN w = DOMAIN n /\ w = [f \in DOMAIN w |-> w[f]] BY <2>3
  <2>6. IsWork(w) BY <1>2, <2>1, <2>5, ChangedRow
  <2>7. Proceed(r, w) BY <1>3, <2>1, <2>2, <2>3, Zenon
  <2> HIDE <2>3
  <2>8. Continues(r, w) /\ work'[r] = w /\ UNCHANGED <<job, revision>>
    BY <1>1, <1>2, <2>7, ProceedContinues
  <2>9. PublicationOK(r) /\ NoSettling(r) BY <1>2 DEF PartOK
  <2>10. PublicationOK(r)'
    <3>1. /\ work[r].number > 0 /\ Published(r) = {}
          /\ work[r].number = Cardinality(revision[job[r].table]) + 1
          /\ Identity(r) \in work[r].locks /\ TableLock(r) \in work[r].locks
      BY <1>1, <2>9 DEF PublicationOK, New
    <3>2. /\ Identity(r)' = Identity(r) /\ Published(r)' = Published(r)
          /\ TableLock(r)' = TableLock(r)
      BY <2>8 DEF Identity, Published, TableLock
    <3>3. /\ work'[r].number = work[r].number /\ work'[r].at = "verify"
          /\ work'[r].locks = work[r].locks
      BY <2>1, <2>4, <2>8
    <3>4. draft' = draft BY <2>8, <3>3
    <3>5. work'[r].revision = {draft'} BY <2>2, <2>4, <2>8, <3>4
    <3> HIDE DEF draft
    <3>7. /\ New(r)' => Identity(r)' \in work'[r].locks /\ Published(r)' = {}
          /\ work'[r].number > 0 =>
               /\ TableLock(r)' \in work'[r].locks
               /\ work'[r].number = Cardinality(revision'[job'[r].table]) + 1
      BY <2>8, <3>1, <3>2, <3>3
    <3> QED BY <3>1, <3>3, <3>5, <3>7 DEF PublicationOK, draft
  <2>11. NoSettling(r)' BY <2>1, <2>4, <2>8, <2>9 DEF NoSettling
  <2>12. PartOK(r)' BY <1>2, <2>8, <2>10, <2>11 DEF PartOK
  <2>13. w.at \in StatesOf(job[r].kind) BY <1>2, <2>4 DEF StatesOf
  <2> QED BY <1>2, <2>1, <2>4, <2>6, <2>8, <2>12, <2>13, QueryKeeps
<1>4. CASE Refuse(r) BY <1>1, <1>4, RefuseKeeps
<1> QED BY <1>3, <1>4 DEF Insert

(* A publication reads back what it drafted, or what was there. *)
LEMMA VerifyKeeps ==
  ASSUME Inv, NEW r \in Requests, Verify(r)
  PROVE  MeteringInv'
<1>1. CanQuery(r) /\ work[r].at = "verify" /\ UNCHANGED <<now, job, committedRows>>
  BY DEF Verify, Step
<1>2. /\ WorkTyped /\ IsWork(work[r]) /\ PartOK(r) /\ work[r].number \in Nat
      /\ job[r].kind = "publish"
  BY <1>1, AtQuery, KindOf
<1>3. ASSUME Proceed(r, [work[r] EXCEPT !.at = "end"])
      PROVE  MeteringInv'
  <2>1. PICK n : n = work[r] OBVIOUS
  <2>2. PICK w : w = [n EXCEPT !.at = "end"] OBVIOUS
  <2>3. /\ w.at = "end" /\ w.clock = n.clock /\ w.known = n.known /\ w.locks = n.locks
        /\ w.number = n.number /\ w.selected = n.selected /\ w.ambiguous = n.ambiguous
        /\ w.revision = n.revision /\ w.hold = n.hold /\ w.usage = n.usage
        /\ w.settlement = n.settlement
    BY <1>2, <2>1, <2>2 DEF IsWork
  <2>4. DOMAIN w = DOMAIN n /\ w = [f \in DOMAIN w |-> w[f]] BY <2>2
  <2>5. IsWork(w) BY <1>2, <2>1, <2>4, ChangedRow
  <2>6. Proceed(r, w) BY <1>3, <2>1, <2>2, Zenon
  <2> HIDE <2>2
  <2>7. Continues(r, w) /\ work'[r] = w /\ UNCHANGED <<job, revision>>
    BY <1>1, <1>2, <2>6, ProceedContinues
  <2>8. PublicationOK(r) /\ NoSettling(r) BY <1>2 DEF PartOK
  <2>9. /\ work'[r].number = work[r].number /\ work'[r].at = "end"
        /\ work'[r].locks = work[r].locks /\ work'[r].revision = work[r].revision
    BY <2>1, <2>3, <2>7
  <2>10. PublicationOK(r)'
    BY <1>1, <2>7, <2>8, <2>9 DEF PublicationOK, New, Identity, TableLock, Published
  <2>11. NoSettling(r)' BY <2>1, <2>3, <2>7, <2>8 DEF NoSettling
  <2>12. PartOK(r)' BY <1>2, <2>7, <2>10, <2>11 DEF PartOK
  <2>13. w.at \in StatesOf(job[r].kind) BY <1>2, <2>3 DEF StatesOf
  <2> QED BY <1>2, <2>1, <2>3, <2>5, <2>7, <2>12, <2>13, QueryKeeps
<1>4. CASE Refuse(r) BY <1>1, <1>4, RefuseKeeps
<1> QED BY <1>3, <1>4 DEF Verify

-------------------------------------------------------------------------------
(* Of published rates at most one matches a request. *)
LEMMA OneMatches ==
  ASSUME NEW rates, IsRates(rates), NEW observed, observed.value \in Int,
         NEW x \in Matches(rates, observed), NEW y \in Matches(rates, observed)
  PROVE  x = y
<1>1. /\ x \in rates /\ x.lower \in Int /\ x.upper \in Int
      /\ y \in rates /\ y.lower \in Int /\ y.upper \in Int
  BY DEF Matches, IsRates
<1>2. SUFFICES ASSUME x # y PROVE FALSE
  OBVIOUS
<1>3. ~Overlap(x, y) BY <1>1, <1>2 DEF IsRates, Publishable
<1>4. /\ x.dimension = observed.dimension /\ x.lower <= observed.value
      /\ observed.value < x.upper
      /\ y.dimension = observed.dimension /\ y.lower <= observed.value
      /\ observed.value < y.upper
  BY <1>3 DEF Matches, Overlap
<1>5. ~(y.lower < x.upper /\ x.lower < y.upper) BY <1>3 DEF Overlap
<1> QED BY <1>1, <1>4, <1>5

(* Who ranks first among the revisions in force is beaten by none of those known before. *)
LEMMA WinnerIs ==
  ASSUME NEW rows, NEW known, known \subseteq rows, NEW clock, NEW v \in Winner(rows, clock)
  PROVE  /\ v \in rows /\ v \in InForce(rows, clock)
         /\ \A u \in InForce(known, clock) : ~Outranks(u, v)
BY DEF Winner, InForce

(* A transaction that has selected found in the table t. *)
LEMMA SelectKeeps ==
  ASSUME Inv, NEW r \in Requests, CanQuery(r), job[r].kind = "select",
         NEW t \in Tables, NEW found, found \subseteq Winner(revision[t], work[r].clock),
         NEW next \in {"policy", "end"},
         Proceed(r, [work[r] EXCEPT !.at = next, !.selected[t] = found]),
         UNCHANGED <<now, job, committedRows>>
  PROVE  MeteringInv'
<1>1. /\ WorkTyped /\ IsWork(work[r]) /\ PartOK(r) /\ MeteringInv /\ r \in InDatabase
      /\ work[r].number \in Nat /\ ~work[r].ambiguous
      /\ work[r].selected = [s \in Tables |-> work[r].selected[s]]
  BY AtQuery
<1>2. PICK n : n = work[r] OBVIOUS
<1>3. PICK selected : selected = [n.selected EXCEPT ![t] = found] OBVIOUS
<1>4. PICK w : w = [n EXCEPT !.at = next, !.selected = selected] OBVIOUS
<1>5. /\ w.at = next /\ w.clock = n.clock /\ w.known = n.known /\ w.locks = n.locks
      /\ w.number = n.number /\ w.selected = selected /\ w.ambiguous = n.ambiguous
      /\ w.revision = n.revision /\ w.hold = n.hold /\ w.usage = n.usage
      /\ w.settlement = n.settlement
  BY <1>1, <1>2, <1>4 DEF IsWork
<1>6. DOMAIN w = DOMAIN n /\ w = [f \in DOMAIN w |-> w[f]] BY <1>4
<1>7. IsWork(w) BY <1>1, <1>2, <1>6, ChangedRow
<1>8. w = [work[r] EXCEPT !.at = next, !.selected[t] = found]
  BY <1>1, <1>2, <1>3, <1>4 DEF IsWork
<1>9. Proceed(r, w) BY <1>8, Zenon
<1> HIDE <1>4, <1>8
<1>10. Continues(r, w) /\ work'[r] = w /\ UNCHANGED job
  BY <1>1, <1>9, ProceedContinues
<1>11. PartOK(r)'
  BY <1>1, <1>2, <1>5, <1>10 DEF PartOK, NoPublication, NoSettling
<1>12. w.at \in StatesOf(job[r].kind) BY <1>5 DEF StatesOf
<1>13. /\ selected = [s \in Tables |-> selected[s]] /\ selected[t] = found
       /\ \A s \in Tables \ {t} : selected[s] = work[r].selected[s]
  BY <1>1, <1>2, <1>3
<1>14. work[r].known[t] \subseteq revision[t]
  BY <1>1 DEF MeteringInv, SelectInv, InDatabase
<1>15. \A v \in found :
         /\ v \in InForce(revision[t], w.clock)
         /\ \A u \in InForce(w.known[t], w.clock) : ~Outranks(u, v)
  BY <1>2, <1>5, <1>14, WinnerIs
<1>16. \A s \in Tables : \A v \in w.selected[s] : v \in work[r].selected[s] \/
         /\ v \in InForce(revision[s], w.clock)
         /\ \A u \in InForce(w.known[s], w.clock) : ~Outranks(u, v)
  BY <1>5, <1>13, <1>15
<1>17. /\ w.selected = [s \in Tables |-> w.selected[s]] /\ ~w.ambiguous /\ w.number \in Nat
       /\ \A name \in w.locks \ work[r].locks : Free(r, name)
       /\ w.known = work[r].known /\ w.clock = work[r].clock
       /\ \A u \in w.usage : \E x \in work[r].usage : u.source = x.source /\ u.hold = x.hold
  BY <1>1, <1>2, <1>5, <1>13
<1> QED BY <1>7, <1>10, <1>11, <1>12, <1>16, <1>17, ContinuesKeeps

(* A selection reads its rate at the clock it has. *)
LEMMA SelectRateKeeps ==
  ASSUME Inv, NEW r \in Requests, SelectRate(r)
  PROVE  MeteringInv'
<1>1. CanQuery(r) /\ work[r].at = "rate" /\ UNCHANGED <<now, job, committedRows>>
  BY DEF SelectRate, Step
<1>2. /\ MeteringInv /\ job[r] \in Jobs /\ job[r].kind = "select" /\ r \in InDatabase
  BY <1>1, AtQuery, KindOf
<1>3. ASSUME NEW v \in Winner(revision["rate"], work[r].clock),
             Matches(v.content.rates, job[r].observed) # {},
             Cardinality(Matches(v.content.rates, job[r].observed)) > 1
      PROVE  FALSE
  <2>1. IsRates(v.content.rates)
    BY <1>2 DEF MeteringInv, SelectInv, Winner, InForce
  <2>2. job[r].observed.value \in Int BY <1>2, JobsAssumption
  <2>3. PICK x : x \in Matches(v.content.rates, job[r].observed) BY <1>3
  <2>4. Matches(v.content.rates, job[r].observed) = {x}
    BY <2>1, <2>2, <2>3, OneMatches
  <2>5. Cardinality({x}) = 1 BY FS_Singleton
  <2> QED BY <1>3, <2>4, <2>5
<1>4. ASSUME NEW v \in Winner(revision["rate"], work[r].clock),
             Proceed(r, [work[r] EXCEPT !.at = "policy", !.selected["rate"] = {v}])
      PROVE  MeteringInv'
  <2>1. "rate" \in Tables /\ {v} \subseteq Winner(revision["rate"], work[r].clock)
    BY DEF Tables
  <2> QED BY <1>1, <1>2, <1>4, <2>1, SelectKeeps
<1>5. CASE Refuse(r) BY <1>1, <1>5, RefuseKeeps
<1> QED BY <1>3, <1>4, <1>5 DEF SelectRate

(* A selection reads its policy at the clock it has. *)
LEMMA SelectPolicyKeeps ==
  ASSUME Inv, NEW r \in Requests, SelectPolicy(r)
  PROVE  MeteringInv'
<1> DEFINE found == {v \in Winner(revision["policy"], work[r].clock) :
                       v.content.profile = job[r].profile}
<1>1. CanQuery(r) /\ work[r].at = "policy" /\ UNCHANGED <<now, job, committedRows>>
  BY DEF SelectPolicy, Step
<1>2. job[r].kind = "select"
  BY <1>1, AtQuery, KindOf
<1>3. ASSUME Proceed(r, [work[r] EXCEPT !.at = "end", !.selected["policy"] = found])
      PROVE  MeteringInv'
  <2>1. "policy" \in Tables /\ found \subseteq Winner(revision["policy"], work[r].clock)
    BY DEF Tables
  <2> HIDE DEF found
  <2> QED BY <1>1, <1>2, <1>3, <2>1, SelectKeeps
<1>4. CASE Refuse(r) BY <1>1, <1>4, RefuseKeeps
<1> QED BY <1>3, <1>4 DEF SelectPolicy

-------------------------------------------------------------------------------
(* A settlement looks for its usage event, and drafts it when there is none. *)
LEMMA FindUsageKeeps ==
  ASSUME Inv, NEW r \in Requests, FindUsage(r)
  PROVE  MeteringInv'
<1> DEFINE prior == {u \in usage : u.source = job[r].source}
<1>1. CanQuery(r) /\ work[r].at = "find" /\ UNCHANGED <<now, job, committedRows>>
  BY DEF FindUsage, Step
<1>2. /\ WorkTyped /\ IsWork(work[r]) /\ PartOK(r) /\ work[r].number \in Nat
      /\ job[r].kind = "settle"
  BY <1>1, AtQuery, KindOf
<1>3. ASSUME NEW next \in {"create", "hold"}, next = "hold" => UsageIsCommitted(r),
             Proceed(r, [work[r] EXCEPT !.at = next])
      PROVE  MeteringInv'
  <2>1. PICK n : n = work[r] OBVIOUS
  <2>2. PICK w : w = [n EXCEPT !.at = next] OBVIOUS
  <2>3. /\ w.at = next /\ w.clock = n.clock /\ w.known = n.known /\ w.locks = n.locks
        /\ w.number = n.number /\ w.selected = n.selected /\ w.ambiguous = n.ambiguous
        /\ w.revision = n.revision /\ w.hold = n.hold /\ w.usage = n.usage
        /\ w.settlement = n.settlement
    BY <1>2, <2>1, <2>2 DEF IsWork
  <2>4. DOMAIN w = DOMAIN n /\ w = [f \in DOMAIN w |-> w[f]] BY <2>2
  <2>5. IsWork(w) BY <1>2, <2>1, <2>4, ChangedRow
  <2>6. Proceed(r, w) BY <1>3, <2>1, <2>2, Zenon
  <2> HIDE <2>2
  <2>7. /\ Continues(r, w) /\ work'[r] = w
        /\ UNCHANGED <<job, revision, hold, usage, settlement>>
    BY <1>1, <1>2, <2>6, ProceedContinues
  <2>8. SettlingOK(r) /\ NoPublication(r) BY <1>2 DEF PartOK
  <2>9. /\ work'[r].at = next /\ work'[r].usage = {} /\ work'[r].settlement = {}
        /\ work'[r].hold = {}
    BY <1>1, <2>1, <2>3, <2>7, <2>8 DEF SettlingOK
  <2>10. UsageIsCommitted(r)' = UsageIsCommitted(r) BY <2>7 DEF UsageIsCommitted
  <2>11. SettlingOK(r)' BY <1>3, <2>9, <2>10 DEF SettlingOK
  <2>12. NoPublication(r)' BY <2>1, <2>3, <2>7, <2>8 DEF NoPublication
  <2>13. PartOK(r)' BY <1>2, <2>7, <2>11, <2>12 DEF PartOK
  <2>14. w.at \in StatesOf(job[r].kind) BY <1>2, <2>3 DEF StatesOf
  <2> QED BY <1>2, <2>1, <2>3, <2>5, <2>7, <2>13, <2>14, QueryKeeps
<1>4. CASE Refuse(r) BY <1>1, <1>4, RefuseKeeps
<1>5. CASE (~\E u \in prior : u.hold # job[r].hold)
             /\ Proceed(r, [work[r] EXCEPT !.at = IF prior = {} THEN "create" ELSE "hold"])
  <2>1. CASE prior = {}
    <3>1. Proceed(r, [work[r] EXCEPT !.at = "create"]) BY <1>5, <2>1, Zenon
    <3> QED BY <1>3, <3>1
  <2>2. CASE prior # {}
    <3>1. Proceed(r, [work[r] EXCEPT !.at = "hold"]) BY <1>5, <2>2, Zenon
    <3>2. UsageIsCommitted(r) BY <1>5, <2>2 DEF UsageIsCommitted
    <3> QED BY <1>3, <3>1, <3>2
  <2> QED BY <2>1, <2>2
<1> QED BY <1>4, <1>5, Zenon DEF FindUsage

(* A settlement drafts its usage, which nobody else has. *)
LEMMA CreateUsageKeeps ==
  ASSUME Inv, NEW r \in Requests, CreateUsage(r)
  PROVE  MeteringInv'
<1>1. /\ CanQuery(r) /\ work[r].at = "create" /\ UNCHANGED <<now, job, committedRows>>
      /\ \A q \in InDatabase \ {r} : \A u \in work[q].usage : ~SameUsage(u, r)
  BY DEF CreateUsage, Step
<1>2. /\ WorkTyped /\ IsWork(work[r]) /\ PartOK(r) /\ work[r].number \in Nat
      /\ job[r].kind = "settle" /\ ~work[r].ambiguous
      /\ work[r].selected = [t \in Tables |-> work[r].selected[t]]
  BY <1>1, AtQuery, KindOf
<1>3. ASSUME ~\E u \in usage : SameUsage(u, r),
             Proceed(r, [work[r] EXCEPT !.at = "hold", !.usage = {UsageDraft(r, FALSE)}])
      PROVE  MeteringInv'
  <2>1. PICK n : n = work[r] OBVIOUS
  <2>2. PICK draft : draft = UsageDraft(r, FALSE) OBVIOUS
  <2>3. PICK w : w = [n EXCEPT !.at = "hold", !.usage = {draft}] OBVIOUS
  <2>4. /\ w.at = "hold" /\ w.clock = n.clock /\ w.known = n.known /\ w.locks = n.locks
        /\ w.number = n.number /\ w.selected = n.selected /\ w.ambiguous = n.ambiguous
        /\ w.revision = n.revision /\ w.hold = n.hold /\ w.usage = {draft}
        /\ w.settlement = n.settlement
    BY <1>2, <2>1, <2>3 DEF IsWork
  <2>5. DOMAIN w = DOMAIN n /\ w = [f \in DOMAIN w |-> w[f]] BY <2>3
  <2>6. IsWork(w) BY <1>2, <2>1, <2>5, ChangedRow
  <2>7. Proceed(r, w) BY <1>3, <2>1, <2>2, <2>3, Zenon
  <2> HIDE <2>3
  <2>8. /\ Continues(r, w) /\ work'[r] = w
        /\ UNCHANGED <<job, revision, hold, usage, settlement>>
    BY <1>1, <1>2, <2>7, ProceedContinues
  <2>9. SettlingOK(r) /\ NoPublication(r) BY <1>2 DEF PartOK
  <2>10. SettlingOK(r)'
    <3>1. /\ work'[r].at = "hold" /\ work'[r].settlement = {} /\ work'[r].hold = {}
      BY <1>1, <2>1, <2>4, <2>8, <2>9 DEF SettlingOK
    <3>2. UsageDraft(r, FALSE)' = UsageDraft(r, FALSE) BY <2>8 DEF UsageDraft
    <3>3. work'[r].usage = {UsageDraft(r, FALSE)'} BY <2>2, <2>4, <2>8, <3>2
    <3> QED BY <3>1, <3>3 DEF SettlingOK
  <2>11. NoPublication(r)' BY <2>1, <2>4, <2>8, <2>9 DEF NoPublication
  <2>12. PartOK(r)' BY <1>2, <2>8, <2>10, <2>11 DEF PartOK
  <2>13. w.at \in StatesOf(job[r].kind) BY <1>2, <2>4 DEF StatesOf
  <2>14. draft.source = job[r].source /\ draft.hold = job[r].hold BY <2>2 DEF UsageDraft
  <2>15. \A u \in w.usage :
           /\ \A v \in usage : ~Alike(u, v)
           /\ \A q \in InDatabase \ {r} : \A v \in work[q].usage : ~Alike(u, v)
    BY <1>1, <1>3, <2>4, <2>14 DEF Alike, SameUsage
  <2>16. /\ w.selected = [t \in Tables |-> w.selected[t]] /\ ~w.ambiguous /\ w.number \in Nat
         /\ \A name \in w.locks \ work[r].locks : Free(r, name)
         /\ w.known = work[r].known /\ w.clock = work[r].clock
         /\ \A t \in Tables : \A v \in w.selected[t] : v \in work[r].selected[t]
    BY <1>2, <2>1, <2>4
  <2> QED BY <2>6, <2>8, <2>12, <2>13, <2>15, <2>16, ContinuesKeeps
<1>4. CASE Refuse(r) BY <1>1, <1>4, RefuseKeeps
<1> QED BY <1>3, <1>4 DEF CreateUsage, UsageDraft

(* The hold is ended under the lock of the account, or has been as asked. *)
LEMMA FinishHoldKeeps ==
  ASSUME Inv, NEW r \in Requests, FinishHold(r)
  PROVE  MeteringInv'
<1>1. /\ CanQuery(r) /\ work[r].at = "hold" /\ UNCHANGED <<now, job, committedRows>>
      /\ Free(r, AccountLock)
  BY DEF FinishHold, Step, AccountLock
<1>2. /\ WorkTyped /\ IsWork(work[r]) /\ PartOK(r) /\ work[r].number \in Nat
      /\ job[r].kind \in {"settle", "finish"}
  BY <1>1, AtQuery, KindOf
<1>3. PICK n : n = work[r] OBVIOUS
<1>4. PICK locks : locks = {AccountLock} OBVIOUS
<1>5. PICK next : next = AfterHold(r) OBVIOUS
<1>6. n.hold = {} /\ n.settlement = {}
  BY <1>1, <1>2, <1>3 DEF PartOK, SettlingOK, FinishingOK
<1>7. ASSUME NEW rows, NEW w, IsWork(w), w.at = next, w.clock = n.clock, w.known = n.known,
             w.locks = locks, w.number = n.number, w.selected = n.selected,
             w.ambiguous = n.ambiguous, w.revision = n.revision, w.hold = rows,
             w.usage = n.usage, w.settlement = n.settlement, Proceed(r, w),
             \/ rows = {} /\ EndedByMe(r)
             \/ rows = {HoldDraft(r)} /\ hold[job[r].hold].status = "active"
      PROVE  MeteringInv'
  <2>1. /\ Continues(r, w) /\ work'[r] = w
        /\ UNCHANGED <<job, revision, hold, usage, settlement>>
    BY <1>1, <1>2, <1>7, ProceedContinues
  <2>2. NoPublication(r)' BY <1>2, <1>3, <1>7, <2>1 DEF NoPublication, PartOK
  <2>3. HoldHasEnded(r)'
    <3>1. /\ EndedByMe(r)' = EndedByMe(r) /\ HoldDraft(r)' = HoldDraft(r)
          /\ hold'[job'[r].hold] = hold[job[r].hold]
      BY <2>1 DEF EndedByMe, HoldDraft
    <3>2. AccountLock \in work'[r].locks /\ work'[r].hold = rows BY <1>4, <1>7, <2>1
    <3> QED BY <1>7, <3>1, <3>2 DEF HoldHasEnded
  <2>4. CASE job[r].kind = "settle"
    <3>1. next = "settlement" BY <1>5, <2>4 DEF AfterHold
    <3>2. SettlingOK(r) BY <1>2, <2>4 DEF PartOK
    <3>3. /\ UsageDraft(r, FALSE)' = UsageDraft(r, FALSE)
          /\ UsageIsCommitted(r)' = UsageIsCommitted(r)
      BY <2>1 DEF UsageDraft, UsageIsCommitted
    <3>4. \/ work'[r].usage = {UsageDraft(r, FALSE)'}
          \/ work'[r].usage = {} /\ UsageIsCommitted(r)'
      BY <1>1, <1>3, <1>7, <2>1, <3>2, <3>3 DEF SettlingOK
    <3>5. work'[r].at = "settlement" /\ work'[r].settlement = {}
      BY <1>6, <1>7, <2>1, <3>1
    <3>6. SettlingOK(r)' BY <2>3, <3>4, <3>5 DEF SettlingOK
    <3>7. PartOK(r)' BY <2>1, <2>2, <2>4, <3>6 DEF PartOK
    <3>8. w.at \in StatesOf(job[r].kind) BY <1>7, <2>4, <3>1 DEF StatesOf
    <3> QED BY <1>1, <1>2, <1>3, <1>4, <1>7, <2>1, <3>7, <3>8, QueryKeeps
  <2>5. CASE job[r].kind = "finish"
    <3>1. next = "end" BY <1>5, <2>5 DEF AfterHold
    <3>2. FinishingOK(r) BY <1>2, <2>5 DEF PartOK
    <3>3. FinishingOK(r)' BY <1>3, <1>7, <2>1, <2>3, <3>1, <3>2 DEF FinishingOK
    <3>4. PartOK(r)' BY <2>1, <2>2, <2>5, <3>3 DEF PartOK
    <3>5. w.at \in StatesOf(job[r].kind) BY <1>7, <2>5, <3>1 DEF StatesOf
    <3> QED BY <1>1, <1>2, <1>3, <1>4, <1>7, <2>1, <3>4, <3>5, QueryKeeps
  <2> QED BY <1>2, <2>4, <2>5
<1>8. CASE EndedByMe(r)
             /\ Proceed(r, [work[r] EXCEPT !.at = AfterHold(r), !.locks = {AccountLock}])
  <2>1. PICK w : w = [n EXCEPT !.at = next, !.locks = locks] OBVIOUS
  <2>2. /\ w.at = next /\ w.clock = n.clock /\ w.known = n.known /\ w.locks = locks
        /\ w.number = n.number /\ w.selected = n.selected /\ w.ambiguous = n.ambiguous
        /\ w.revision = n.revision /\ w.hold = n.hold /\ w.usage = n.usage
        /\ w.settlement = n.settlement
    BY <1>2, <1>3, <2>1 DEF IsWork
  <2>3. DOMAIN w = DOMAIN n /\ w = [f \in DOMAIN w |-> w[f]] BY <2>1
  <2>4. IsWork(w) BY <1>2, <1>3, <2>3, ChangedRow
  <2>5. Proceed(r, w) BY <1>3, <1>4, <1>5, <1>8, <2>1, Zenon
  <2> HIDE <2>1
  <2> QED BY <1>6, <1>7, <1>8, <2>2, <2>4, <2>5
<1>9. CASE /\ hold[job[r].hold].status = "active"
           /\ Proceed(r, [work[r] EXCEPT !.at = AfterHold(r), !.locks = {AccountLock},
                                         !.hold = {HoldDraft(r)}])
  <2>1. PICK rows : rows = {HoldDraft(r)} OBVIOUS
  <2>2. PICK w : w = [n EXCEPT !.at = next, !.locks = locks, !.hold = rows] OBVIOUS
  <2>3. /\ w.at = next /\ w.clock = n.clock /\ w.known = n.known /\ w.locks = locks
        /\ w.number = n.number /\ w.selected = n.selected /\ w.ambiguous = n.ambiguous
        /\ w.revision = n.revision /\ w.hold = rows /\ w.usage = n.usage
        /\ w.settlement = n.settlement
    BY <1>2, <1>3, <2>2 DEF IsWork
  <2>4. DOMAIN w = DOMAIN n /\ w = [f \in DOMAIN w |-> w[f]] BY <2>2
  <2>5. IsWork(w) BY <1>2, <1>3, <2>4, ChangedRow
  <2>6. Proceed(r, w) BY <1>3, <1>4, <1>5, <1>9, <2>1, <2>2, Zenon
  <2> HIDE <2>2
  <2> QED BY <1>7, <1>9, <2>1, <2>3, <2>5, <2>6
<1>10. CASE Refuse(r) BY <1>1, <1>10, RefuseKeeps
<1> QED BY <1>8, <1>9, <1>10, Zenon DEF FinishHold, AccountLock, HoldDraft

(* A usage event that is committed has its settlement. *)
LEMMA SettleKeeps ==
  ASSUME Inv, NEW r \in Requests, Settle(r)
  PROVE  MeteringInv'
<1> DEFINE durable == {s \in settlement : s.hold = job[r].hold}
<1>1. CanQuery(r) /\ work[r].at = "settlement" /\ UNCHANGED <<now, job, committedRows>>
  BY DEF Settle, Step
<1>2. /\ WorkTyped /\ IsWork(work[r]) /\ PartOK(r) /\ work[r].number \in Nat
      /\ MeteringInv /\ r \in InDatabase
      /\ job[r].kind = "settle" /\ ~work[r].ambiguous
      /\ work[r].selected = [t \in Tables |-> work[r].selected[t]]
  BY <1>1, AtQuery, KindOf
<1>3. PICK n : n = work[r] OBVIOUS
<1>4. SettlingOK(r) /\ NoPublication(r) BY <1>2 DEF PartOK
<1>5. /\ n.settlement = {} /\ HoldHasEnded(r)
      /\ n.usage = {UsageDraft(r, FALSE)} \/ (n.usage = {} /\ UsageIsCommitted(r))
  BY <1>1, <1>3, <1>4 DEF SettlingOK
<1>6. SettlementsMatchHolds BY <1>2 DEF MeteringInv, SettleInv
<1>7. n.usage = {UsageDraft(r, FALSE)} => durable = {}
  <2> SUFFICES ASSUME n.usage = {UsageDraft(r, FALSE)}, NEW s \in durable PROVE FALSE
    OBVIOUS
  <2>1. PICK v \in usage : v = [source |-> s.source, hold |-> s.hold, settled |-> TRUE]
    BY <1>6 DEF SettlementsMatchHolds
  <2>2. v.hold = job[r].hold BY <2>1
  <2>3. PICK u : u = UsageDraft(r, FALSE) OBVIOUS
  <2>4. u \in work[r].usage /\ u.hold = job[r].hold BY <1>3, <2>3 DEF UsageDraft
  <2>5. ~Alike(u, v) BY <1>2, <2>4 DEF MeteringInv, SettleInv
  <2> QED BY <2>2, <2>4, <2>5 DEF Alike
<1>8. UsageIsCommitted(r) => durable # {}
  BY <1>6 DEF SettlementsMatchHolds, UsageIsCommitted
<1> HIDE DEF durable
<1>9. ASSUME NEW rows, NEW events, NEW w, IsWork(w), w.at = "end", w.clock = n.clock,
             w.known = n.known, w.locks = n.locks, w.number = n.number,
             w.selected = n.selected, w.ambiguous = n.ambiguous, w.revision = n.revision,
             w.hold = n.hold, w.usage = events, w.settlement = rows, Proceed(r, w),
             \/ events = {} /\ rows = {}
             \/ /\ events = {UsageDraft(r, TRUE)} /\ rows = {SettlementDraft(r)}
                /\ n.usage = {UsageDraft(r, FALSE)}
      PROVE  MeteringInv'
  <2>1. /\ Continues(r, w) /\ work'[r] = w
        /\ UNCHANGED <<job, revision, hold, usage, settlement>>
    BY <1>1, <1>2, <1>9, ProceedContinues
  <2>2. NoPublication(r)' BY <1>3, <1>4, <1>9, <2>1 DEF NoPublication
  <2>3. HoldHasEnded(r)'
    <3>1. /\ EndedByMe(r)' = EndedByMe(r) /\ HoldDraft(r)' = HoldDraft(r)
          /\ hold'[job'[r].hold] = hold[job[r].hold]
      BY <2>1 DEF EndedByMe, HoldDraft
    <3>2. work'[r].locks = work[r].locks /\ work'[r].hold = work[r].hold BY <1>3, <1>9, <2>1
    <3> QED BY <1>5, <3>1, <3>2 DEF HoldHasEnded
  <2>4. SettlingOK(r)'
    <3>1. UsageDraft(r, TRUE)' = UsageDraft(r, TRUE) /\ SettlementDraft(r)' = SettlementDraft(r)
      BY <2>1 DEF UsageDraft, SettlementDraft
    <3>2. work'[r].at = "end" /\ work'[r].usage = events /\ work'[r].settlement = rows
      BY <1>9, <2>1
    <3> QED BY <1>9, <2>3, <3>1, <3>2 DEF SettlingOK
  <2>5. PartOK(r)' BY <1>2, <2>1, <2>2, <2>4 DEF PartOK
  <2>6. w.at \in StatesOf(job[r].kind) BY <1>2, <1>9 DEF StatesOf
  <2>7. \A u \in w.usage : \E x \in work[r].usage : u.source = x.source /\ u.hold = x.hold
    <3> SUFFICES ASSUME NEW u \in w.usage
                 PROVE  \E x \in work[r].usage : u.source = x.source /\ u.hold = x.hold
      OBVIOUS
    <3>1. u = UsageDraft(r, TRUE) /\ UsageDraft(r, FALSE) \in work[r].usage
      BY <1>3, <1>9
    <3>2. PICK x : x = UsageDraft(r, FALSE) OBVIOUS
    <3>3. u.source = x.source /\ u.hold = x.hold BY <3>1, <3>2 DEF UsageDraft
    <3> QED BY <3>1, <3>2, <3>3
  <2>8. /\ w.selected = [t \in Tables |-> w.selected[t]] /\ ~w.ambiguous /\ w.number \in Nat
        /\ \A name \in w.locks \ work[r].locks : Free(r, name)
        /\ w.known = work[r].known /\ w.clock = work[r].clock
        /\ \A t \in Tables : \A v \in w.selected[t] : v \in work[r].selected[t]
    BY <1>2, <1>3, <1>9
  <2> QED BY <1>9, <2>1, <2>5, <2>6, <2>7, <2>8, ContinuesKeeps
<1>10. CASE durable = {} /\ Proceed(r, [work[r] EXCEPT !.at = "end",
                !.settlement = {SettlementDraft(r)}, !.usage = {UsageDraft(r, TRUE)}])
  <2>1. PICK rows : rows = {SettlementDraft(r)} OBVIOUS
  <2>2. PICK events : events = {UsageDraft(r, TRUE)} OBVIOUS
  <2>3. PICK w : w = [n EXCEPT !.at = "end", !.settlement = rows, !.usage = events] OBVIOUS
  <2>4. /\ w.at = "end" /\ w.clock = n.clock /\ w.known = n.known /\ w.locks = n.locks
        /\ w.number = n.number /\ w.selected = n.selected /\ w.ambiguous = n.ambiguous
        /\ w.revision = n.revision /\ w.hold = n.hold /\ w.usage = events
        /\ w.settlement = rows
    BY <1>2, <1>3, <2>3 DEF IsWork
  <2>5. DOMAIN w = DOMAIN n /\ w = [f \in DOMAIN w |-> w[f]] BY <2>3
  <2>6. IsWork(w) BY <1>2, <1>3, <2>5, ChangedRow
  <2>7. Proceed(r, w) BY <1>3, <1>10, <2>1, <2>2, <2>3, Zenon
  <2> HIDE <2>3
  <2> QED BY <1>5, <1>8, <1>9, <1>10, <2>1, <2>2, <2>4, <2>6, <2>7
<1>11. CASE durable # {} /\ Proceed(r, [work[r] EXCEPT !.at = "end"])
  <2>1. PICK w : w = [n EXCEPT !.at = "end"] OBVIOUS
  <2>2. /\ w.at = "end" /\ w.clock = n.clock /\ w.known = n.known /\ w.locks = n.locks
        /\ w.number = n.number /\ w.selected = n.selected /\ w.ambiguous = n.ambiguous
        /\ w.revision = n.revision /\ w.hold = n.hold /\ w.usage = n.usage
        /\ w.settlement = n.settlement
    BY <1>2, <1>3, <2>1 DEF IsWork
  <2>3. DOMAIN w = DOMAIN n /\ w = [f \in DOMAIN w |-> w[f]] BY <2>1
  <2>4. IsWork(w) BY <1>2, <1>3, <2>3, ChangedRow
  <2>5. Proceed(r, w) BY <1>3, <1>11, <2>1, Zenon
  <2> HIDE <2>1
  <2> QED BY <1>5, <1>7, <1>9, <1>11, <2>2, <2>4, <2>5
<1>12. CASE Refuse(r) BY <1>1, <1>12, RefuseKeeps
<1> QED BY <1>10, <1>11, <1>12, Zenon DEF Settle, durable, SettlementDraft, UsageDraft

-------------------------------------------------------------------------------
(***************************************************************************)
(* The commit. What the transaction has drafted becomes true at once, and  *)
(* what others rely on stays true, because they do not hold its locks.     *)
(***************************************************************************)
LEMMA CommitIs ==
  ASSUME Inv, NEW r \in Requests, CommitWork(r)
  PROVE  /\ work[r].at = "end" /\ UNCHANGED <<job, work>>
         /\ InDatabase' = InDatabase \ {r} /\ r \in InDatabase
         /\ tx'[r] = "committed" /\ \A q \in Requests \ {r} : tx'[q] = tx[q]
         /\ revision' = [t \in Tables |->
              revision[t] \cup {v \in work[r].revision : job[r].table = t}]
         /\ hold' = [h \in Holds |->
              IF \E c \in work[r].hold : c.hold = h
              THEN (CHOOSE c \in work[r].hold : c.hold = h).row ELSE hold[h]]
         /\ usage' = {u \in usage : u.source \notin Settled(work[r].usage)} \cup work[r].usage
         /\ settlement' = settlement \cup work[r].settlement
<1>1. tx \in [Requests -> {"none", "active", "doomed", "closed", "committed", "rolled back"}]
  BY DEF Inv, RuntimeInv, RuntimeTypeOK
<1>2. /\ Up /\ tx[r] = "active" /\ process' = process
      /\ tx' = [tx EXCEPT ![r] = "committed"]
  BY DEF CommitWork, Commit, mainVars
<1>3. /\ InDatabase' = InDatabase \ {r} /\ r \in InDatabase
      /\ tx'[r] = "committed" /\ \A q \in Requests \ {r} : tx'[q] = tx[q]
  BY <1>1, <1>2 DEF InDatabase, Up
<1> QED BY <1>2, <1>3 DEF CommitWork

(* A table with one more revision, which has the next number. *)
LEMMA TableGrows ==
  ASSUME NEW rows, IsFiniteSet(rows), Numbers(rows) = 1 .. Cardinality(rows),
         \A v, w \in rows : v.identity = w.identity => v = w,
         NEW draft, draft.number = Cardinality(rows) + 1,
         \A v \in rows : v.identity # draft.identity
  PROVE  /\ IsFiniteSet(rows \cup {draft})
         /\ Cardinality(rows \cup {draft}) = Cardinality(rows) + 1
         /\ Numbers(rows \cup {draft}) = 1 .. Cardinality(rows) + 1
         /\ \A v, w \in rows \cup {draft} : v.identity = w.identity => v = w
<1>1. draft \notin rows OBVIOUS
<1>2. /\ IsFiniteSet(rows \cup {draft})
      /\ Cardinality(rows \cup {draft}) = Cardinality(rows) + 1
  BY <1>1, FS_AddElement
<1>3. Cardinality(rows) \in Nat BY FS_CardinalityType
<1>4. Numbers(rows \cup {draft}) = Numbers(rows) \cup {draft.number} BY DEF Numbers
<1>5. Numbers(rows \cup {draft}) = 1 .. Cardinality(rows) + 1
  <2>1. PICK n \in Nat : n = Cardinality(rows) BY <1>3
  <2>2. (1 .. n) \cup {n + 1} = 1 .. n + 1 OBVIOUS
  <2> QED BY <1>4, <2>1, <2>2
<1> QED BY <1>2, <1>5

(* What a commit adds to the tables. *)
LEMMA CommitPublishes ==
  ASSUME Inv, NEW r \in Requests, CommitWork(r)
  PROVE  \/ work[r].revision = {} /\ revision' = revision
         \/ /\ job[r].kind = "publish" /\ job[r].table \in Tables
            /\ PublicationOK(r) /\ New(r) /\ work[r].number > 0
            /\ \E draft :
                 /\ draft.number = work[r].number /\ draft.identity = job[r].identity
                 /\ draft.content = job[r].content
                 /\ revision' = [t \in Tables |-> IF t = job[r].table
                                                  THEN revision[t] \cup {draft} ELSE revision[t]]
<1> DEFINE row == [number |-> work[r].number, identity |-> job[r].identity,
                   effective |-> job[r].effective, content |-> job[r].content]
<1>1. /\ r \in InDatabase /\ work[r].at = "end"
      /\ revision' = [t \in Tables |->
           revision[t] \cup {v \in work[r].revision : job[r].table = t}]
  BY CommitIs
<1>2. /\ PartOK(r)
      /\ job[r].kind = "publish" => job[r].table \in Tables
      /\ work[r].number \in Nat /\ MeteringInv
  BY <1>1, InTransaction
<1>3. revision = [t \in Tables |-> revision[t]] BY <1>2 DEF MeteringInv, PublishInv
<1>4. CASE work[r].revision = {}
  <2>1. revision' = [t \in Tables |-> revision[t]] BY <1>1, <1>4
  <2> QED BY <1>3, <1>4, <2>1
<1>5. CASE work[r].revision # {}
  <2> HIDE DEF row
  <2>1. job[r].kind = "publish" /\ PublicationOK(r)
    <3>1. IF job[r].kind = "publish" THEN PublicationOK(r) ELSE work[r].revision = {}
      BY <1>2, Zenon DEF PartOK, NoPublication
    <3> QED BY <1>5, <3>1, Zenon
  <2>2. work[r].revision = {row} /\ work[r].number > 0
    BY <1>5, <2>1 DEF PublicationOK, row
  <2>3. New(r) BY <1>1, <2>2 DEF New
  <2>4. PICK draft : draft = row OBVIOUS
  <2>5. /\ draft.number = work[r].number /\ draft.identity = job[r].identity
        /\ draft.content = job[r].content
    BY <2>4 DEF row
  <2>6. revision' = [t \in Tables |-> IF t = job[r].table
                                      THEN revision[t] \cup {draft} ELSE revision[t]]
    <3>1. \A t \in Tables : {v \in work[r].revision : job[r].table = t}
                              = IF t = job[r].table THEN {draft} ELSE {}
      BY <2>2, <2>4
    <3> QED BY <1>1, <3>1
  <2> QED BY <1>2, <2>1, <2>2, <2>3, <2>5, <2>6
<1> QED BY <1>4, <1>5

(* A commit keeps what is said of publications. *)
LEMMA CommitKeepsPublications ==
  ASSUME Inv, NEW r \in Requests, CommitWork(r)
  PROVE  PublishInv'
<1>1. /\ UNCHANGED <<job, work>>
      /\ InDatabase' = InDatabase \ {r} /\ r \in InDatabase
  BY CommitIs
<1>2. MeteringInv /\ WorkTyped /\ PublishInv /\ LocksExclude BY DEF Inv, MeteringInv
<1>3. \A q \in Requests : work'[q].number \in Nat BY <1>1, <1>2 DEF PublishInv
<1>4. CASE revision' = revision
  <2>1. /\ revision' = [t \in Tables |-> revision'[t]] /\ \A t \in Tables : TableOK(t)'
    BY <1>2, <1>4 DEF PublishInv, TableOK, Numbers
  <2>2. \A q \in InDatabase' :
          IF job'[q].kind = "publish" THEN PublicationOK(q)' ELSE NoPublication(q)'
    <3>1. TAKE q \in InDatabase'
    <3>2. q \in InDatabase BY <1>1, Zenon
    <3>3. IF job[q].kind = "publish" THEN PublicationOK(q) ELSE NoPublication(q)
      BY <1>2, <3>2, Zenon DEF PublishInv
    <3>4. PublicationOK(q)' = PublicationOK(q) /\ NoPublication(q)' = NoPublication(q)
      BY <1>1, <1>4, Zenon
         DEF PublicationOK, NoPublication, New, Identity, TableLock, Published
    <3> QED BY <1>1, <3>3, <3>4, Zenon
  <2> QED BY <1>3, <2>1, <2>2 DEF PublishInv
<1>5. ASSUME job[r].table \in Tables, PublicationOK(r), New(r), work[r].number > 0, NEW draft,
             draft.number = work[r].number, draft.identity = job[r].identity,
             revision' = [t \in Tables |-> IF t = job[r].table
                                           THEN revision[t] \cup {draft} ELSE revision[t]]
      PROVE  PublishInv'
  <2>1. /\ TableLock(r) \in work[r].locks /\ Identity(r) \in work[r].locks
        /\ Published(r) = {} /\ work[r].number = Cardinality(revision[job[r].table]) + 1
    BY <1>5 DEF PublicationOK
  <2>2. \A t \in Tables : TableOK(t)'
    <3> SUFFICES ASSUME NEW t \in Tables PROVE TableOK(t)'
      OBVIOUS
    <3>1. TableOK(t) BY <1>2 DEF PublishInv
    <3>2. CASE t # job[r].table
      <4>1. revision'[t] = revision[t] BY <1>5, <3>2
      <4> QED BY <3>1, <4>1 DEF TableOK, Numbers
    <3>3. CASE t = job[r].table
      <4>1. revision'[t] = revision[t] \cup {draft} BY <1>5, <3>3
      <4>2. \A v \in revision[t] : v.identity # draft.identity
        BY <1>5, <2>1, <3>3 DEF Published
      <4>3. draft.number = Cardinality(revision[t]) + 1 BY <1>5, <2>1, <3>3
      <4>4. /\ IsFiniteSet(revision'[t])
            /\ Cardinality(revision'[t]) = Cardinality(revision[t]) + 1
            /\ Numbers(revision'[t]) = 1 .. Cardinality(revision[t]) + 1
            /\ \A v, w \in revision'[t] : v.identity = w.identity => v = w
        BY <3>1, <4>1, <4>2, <4>3, TableGrows DEF TableOK
      <4> QED BY <4>4 DEF TableOK, Numbers
    <3> QED BY <3>2, <3>3
  <2>3. revision' = [t \in Tables |-> revision'[t]] BY <1>5
  <2>4. ASSUME NEW q \in InDatabase', job[q].kind = "publish"
        PROVE  PublicationOK(q)'
    <3>1. q \in InDatabase /\ q # r /\ q \in Requests BY <1>1, <2>4 DEF InDatabase
    <3>2. /\ PublicationOK(q) /\ job[q].table \in Tables /\ work[q].number \in Nat
      BY <1>2, <2>4, <3>1, JobOf DEF PublishInv
    <3>3. CASE job[q].table # job[r].table
      <4>1. revision'[job[q].table] = revision[job[q].table] BY <1>5, <3>2, <3>3
      <4> QED BY <1>1, <3>2, <4>1 DEF PublicationOK, New, Identity, TableLock, Published
    <3>4. CASE job[q].table = job[r].table
      <4>1. TableLock(q) = TableLock(r) BY <3>4 DEF TableLock
      <4>2. work[q].locks \cap work[r].locks = {} BY <1>1, <1>2, <3>1 DEF LocksExclude
      <4>3. ~(work[q].number > 0) BY <2>1, <3>2, <4>1, <4>2 DEF PublicationOK
      <4>4. work[q].at \in {"lock", "number"} \/ ~New(q)
        BY <3>2, <4>3 DEF PublicationOK, New
      <4>5. New(q) => Published(q)' = {}
        <5> SUFFICES ASSUME New(q) PROVE Published(q)' = {}
          OBVIOUS
        <5>1. Identity(q) \in work[q].locks /\ Published(q) = {} BY <3>2 DEF PublicationOK
        <5>2. Identity(q) # Identity(r) BY <2>1, <4>2, <5>1
        <5>3. job[q].identity # draft.identity BY <1>5, <3>4, <5>2 DEF Identity
        <5>4. revision'[job[q].table] = revision[job[q].table] \cup {draft}
          BY <1>5, <3>2, <3>4
        <5> QED BY <1>1, <5>1, <5>3, <5>4 DEF Published
      <4>6. /\ New(q)' = New(q) /\ Identity(q)' = Identity(q) /\ TableLock(q)' = TableLock(q)
        BY <1>1 DEF New, Identity, TableLock
      <4> QED BY <1>1, <3>2, <4>3, <4>5, <4>6 DEF PublicationOK
    <3> QED BY <3>3, <3>4
  <2>5. ASSUME NEW q \in InDatabase', job[q].kind # "publish"
        PROVE  NoPublication(q)'
    BY <1>1, <1>2, <2>5 DEF PublishInv, NoPublication
  <2> QED BY <1>1, <1>3, <2>2, <2>3, <2>4, <2>5 DEF PublishInv
<1> QED BY <1>4, <1>5, CommitPublishes

(* A commit keeps what is said of selections. *)
LEMMA CommitKeepsSelections ==
  ASSUME Inv, NEW r \in Requests, CommitWork(r)
  PROVE  SelectInv'
<1>1. /\ UNCHANGED <<job, work>> /\ r \in InDatabase
      /\ \A q \in Requests \ {r} : tx'[q] = tx[q]
  BY CommitIs
<1>2. MeteringInv /\ SelectInv /\ tx[r] # "none" /\ Legal(r) /\ job[r] \in Jobs
  BY <1>1, InTransaction, InDatabaseIs DEF MeteringInv
<1>3. \A t \in Tables : revision[t] \subseteq revision'[t] BY CommitPublishes
<1>4. \A v \in revision'["rate"] : IsRates(v.content.rates)
  <2>1. "rate" \in Tables BY DEF Tables
  <2>2. CASE revision' = revision BY <1>2, <2>2 DEF SelectInv
  <2>3. ASSUME job[r].kind = "publish", NEW draft, draft.content = job[r].content,
               revision' = [t \in Tables |-> IF t = job[r].table
                                             THEN revision[t] \cup {draft} ELSE revision[t]]
        PROVE  \A v \in revision'["rate"] : IsRates(v.content.rates)
    <3>1. job[r].table = "rate" => IsRates(draft.content.rates)
      BY <1>2, <2>3, JobsAssumption DEF Legal, IsRates
    <3> QED BY <1>2, <2>1, <2>3, <3>1 DEF SelectInv
  <2> QED BY <2>2, <2>3, CommitPublishes
<1>5. \A q \in Requests : tx'[q] # "none" =>
        \A t \in Tables : work'[q].known[t] \subseteq revision'[t]
  BY <1>1, <1>2, <1>3 DEF SelectInv
<1>6. \A q \in Requests : work'[q].selected = [t \in Tables |-> work'[q].selected[t]]
  BY <1>1, <1>2 DEF SelectInv
<1>7. SelectionsAreSound'
  BY <1>1, <1>2, <1>3 DEF SelectInv, SelectionsAreSound, InForce, Outranks
<1> QED BY <1>4, <1>5, <1>6, <1>7 DEF SelectInv, IsRates, Publishable, Overlap

(* What a commit adds to holds, usage and settlements. *)
LEMMA CommitSettles ==
  ASSUME Inv, NEW r \in Requests, CommitWork(r)
  PROVE  /\ \/ work[r].hold = {} /\ hold' = hold
            \/ /\ job[r].kind \in {"settle", "finish"} /\ job[r].hold \in Holds
               /\ HoldHasEnded(r) /\ hold[job[r].hold].status = "active"
               /\ work[r].hold = {HoldDraft(r)}
               /\ hold' = [h \in Holds |->
                    IF h = job[r].hold
                    THEN [status |-> job[r].status, ref |-> job[r].source, micros |-> job[r].micros]
                    ELSE hold[h]]
         /\ usage' = usage \cup work[r].usage
         /\ settlement' = settlement \cup work[r].settlement
         /\ \/ work[r].usage = {} /\ work[r].settlement = {}
            \/ /\ job[r].kind = "settle" /\ job[r].status = "captured"
               /\ job[r].hold \in Holds /\ HoldHasEnded(r)
               /\ work[r].usage = {UsageDraft(r, TRUE)}
               /\ work[r].settlement = {SettlementDraft(r)}
<1>1. /\ work[r].at = "end" /\ r \in InDatabase
      /\ hold' = [h \in Holds |->
           IF \E c \in work[r].hold : c.hold = h
           THEN (CHOOSE c \in work[r].hold : c.hold = h).row ELSE hold[h]]
      /\ usage' = {u \in usage : u.source \notin Settled(work[r].usage)} \cup work[r].usage
      /\ settlement' = settlement \cup work[r].settlement
  BY CommitIs
<1>2. /\ PartOK(r) /\ SettleInv
      /\ job[r].kind \in {"publish", "select", "settle", "finish"}
      /\ job[r].kind = "settle" => job[r].status = "captured"
      /\ job[r].kind \in {"settle", "finish"} => job[r].hold \in Holds
  BY <1>1, InTransaction DEF MeteringInv
<1>3. CASE job[r].kind \in {"publish", "select"}
  <2>1. work[r].hold = {} /\ work[r].usage = {} /\ work[r].settlement = {}
    BY <1>2, <1>3 DEF PartOK, NoSettling
  <2> QED BY <1>1, <1>2, <2>1 DEF SettleInv, Settled
<1>4. CASE job[r].kind \in {"settle", "finish"}
  <2>1. HoldHasEnded(r) BY <1>1, <1>2, <1>4 DEF PartOK, SettlingOK, FinishingOK
  <2>2. \/ work[r].hold = {}
        \/ work[r].hold = {HoldDraft(r)} /\ hold[job[r].hold].status = "active"
    BY <2>1 DEF HoldHasEnded
  <2>3. work[r].hold = {} => hold' = hold
    BY <1>1, <1>2 DEF SettleInv
  <2>4. ASSUME work[r].hold = {HoldDraft(r)}
        PROVE  hold' = [h \in Holds |->
                 IF h = job[r].hold
                 THEN [status |-> job[r].status, ref |-> job[r].source, micros |-> job[r].micros]
                 ELSE hold[h]]
    <3>1. PICK c : c = HoldDraft(r) OBVIOUS
    <3>2. PICK row : row = [status |-> job[r].status, ref |-> job[r].source,
                            micros |-> job[r].micros]
      OBVIOUS
    <3>3. c.hold = job[r].hold /\ c.row = row BY <3>1, <3>2 DEF HoldDraft
    <3>4. \A h \in Holds : (\E d \in work[r].hold : d.hold = h) <=> h = job[r].hold
      BY <2>4, <3>1, <3>3
    <3>5. (CHOOSE d \in work[r].hold : d.hold = job[r].hold) = c
      BY <2>4, <3>1, <3>3
    <3>6. hold' = [h \in Holds |-> IF h = job[r].hold THEN row ELSE hold[h]]
      BY <1>1, <3>3, <3>4, <3>5
    <3> QED BY <3>2, <3>6
  <2>5. usage' = usage \cup work[r].usage
    <3>1. \A u \in usage : u.source \notin Settled(work[r].usage)
      BY <1>1, <1>2 DEF SettleInv, Settled, Alike
    <3> QED BY <1>1, <3>1
  <2>6. \/ work[r].usage = {} /\ work[r].settlement = {}
        \/ /\ job[r].kind = "settle"
           /\ work[r].usage = {UsageDraft(r, TRUE)} /\ work[r].settlement = {SettlementDraft(r)}
    BY <1>1, <1>2, <1>4 DEF PartOK, SettlingOK, FinishingOK
  <2>7. \/ work[r].hold = {} /\ hold' = hold
        \/ /\ job[r].kind \in {"settle", "finish"} /\ job[r].hold \in Holds
           /\ HoldHasEnded(r) /\ hold[job[r].hold].status = "active"
           /\ work[r].hold = {HoldDraft(r)}
           /\ hold' = [h \in Holds |->
                IF h = job[r].hold
                THEN [status |-> job[r].status, ref |-> job[r].source, micros |-> job[r].micros]
                ELSE hold[h]]
    BY <1>2, <1>4, <2>1, <2>2, <2>3, <2>4
  <2> QED BY <1>1, <1>2, <1>4, <2>1, <2>5, <2>6, <2>7
<1> QED BY <1>2, <1>3, <1>4

(* The hold of another request that has the account is not touched. *)
LEMMA CommitKeepsEnded ==
  ASSUME Inv, NEW r \in Requests, CommitWork(r), NEW q \in InDatabase', HoldHasEnded(q)
  PROVE  HoldHasEnded(q)'
<1>1. /\ UNCHANGED <<job, work>> /\ InDatabase' = InDatabase \ {r} /\ r \in InDatabase
  BY CommitIs
<1>2. LocksExclude BY DEF Inv, MeteringInv
<1>3. ~HoldHasEnded(r) BY <1>1, <1>2 DEF HoldHasEnded, LocksExclude
<1>4. hold' = hold BY <1>3, CommitSettles
<1>5. EndedByMe(q)' = EndedByMe(q) /\ HoldDraft(q)' = HoldDraft(q)
  BY <1>1, <1>4 DEF EndedByMe, HoldDraft
<1> QED BY <1>1, <1>4, <1>5 DEF HoldHasEnded

(* A settlement, its usage event and the capture of its hold are committed together. *)
LEMMA CommitKeepsMatch ==
  ASSUME Inv, NEW r \in Requests, CommitWork(r)
  PROVE  SettlementsMatchHolds' /\ \A s \in settlement' : s.hold \in Holds
<1>1. SettlementsMatchHolds /\ \A s \in settlement : s.hold \in Holds
  BY DEF Inv, MeteringInv, SettleInv
<1>2. usage' = usage \cup work[r].usage /\ settlement' = settlement \cup work[r].settlement
  BY CommitSettles
<1>3. ASSUME NEW s \in settlement
      PROVE  hold'[s.hold] = [status |-> "captured", ref |-> s.source, micros |-> s.micros]
  <2>1. PICK row : row = [status |-> "captured", ref |-> s.source, micros |-> s.micros]
    OBVIOUS
  <2>2. hold[s.hold] = row /\ row.status = "captured" /\ s.hold \in Holds
    BY <1>1, <2>1 DEF SettlementsMatchHolds
  <2>3. hold'[s.hold] = hold[s.hold]
    <3>1. CASE hold' = hold BY <3>1
    <3>2. ASSUME hold[job[r].hold].status = "active",
                 NEW new, hold' = [h \in Holds |-> IF h = job[r].hold THEN new ELSE hold[h]]
          PROVE  hold'[s.hold] = hold[s.hold]
      BY <2>2, <3>2
    <3> QED BY <3>1, <3>2, CommitSettles
  <2> QED BY <2>1, <2>2, <2>3
<1>4. \A s \in settlement : [source |-> s.source, hold |-> s.hold, settled |-> TRUE] \in usage'
  BY <1>1, <1>2 DEF SettlementsMatchHolds
<1>5. \A u \in usage : u.settled /\ \E s \in settlement' : s.source = u.source /\ s.hold = u.hold
  BY <1>1, <1>2 DEF SettlementsMatchHolds
<1>6. CASE work[r].usage = {} /\ work[r].settlement = {}
  <2>1. usage' = usage /\ settlement' = settlement BY <1>2, <1>6
  <2> QED BY <1>1, <1>3, <1>4, <1>5, <2>1 DEF SettlementsMatchHolds
<1>7. CASE /\ job[r].kind = "settle" /\ job[r].status = "captured" /\ job[r].hold \in Holds
           /\ HoldHasEnded(r) /\ work[r].usage = {UsageDraft(r, TRUE)}
           /\ work[r].settlement = {SettlementDraft(r)}
  <2>1. PICK row : row = [status |-> "captured", ref |-> job[r].source, micros |-> job[r].micros]
    OBVIOUS
  <2>2. hold'[job[r].hold] = row
    <3>1. CASE work[r].hold = {} /\ hold' = hold
      <4>1. HoldDraft(r) \notin work[r].hold BY <3>1
      <4>2. EndedByMe(r) BY <1>7, <3>1, <4>1 DEF HoldHasEnded
      <4> QED BY <1>7, <2>1, <3>1, <4>2 DEF EndedByMe
    <3>2. CASE hold' = [h \in Holds |->
                 IF h = job[r].hold
                 THEN [status |-> job[r].status, ref |-> job[r].source, micros |-> job[r].micros]
                 ELSE hold[h]]
      BY <1>7, <2>1, <3>2
    <3> QED BY <3>1, <3>2, CommitSettles
  <2>3. PICK new : new = SettlementDraft(r) OBVIOUS
  <2>4. /\ new.hold = job[r].hold /\ new.source = job[r].source /\ new.micros = job[r].micros
    BY <2>3 DEF SettlementDraft
  <2>5. hold'[new.hold] = [status |-> "captured", ref |-> new.source, micros |-> new.micros]
    BY <2>1, <2>2, <2>4
  <2>6. PICK event : event = UsageDraft(r, TRUE) OBVIOUS
  <2>7. /\ event = [source |-> new.source, hold |-> new.hold, settled |-> TRUE]
        /\ event.source = new.source /\ event.hold = new.hold /\ event.settled = TRUE
    BY <2>4, <2>6 DEF UsageDraft
  <2>8. /\ usage' = usage \cup {event} /\ settlement' = settlement \cup {new}
    BY <1>2, <1>7, <2>3, <2>6
  <2>9. \A s \in settlement' :
          /\ hold'[s.hold] = [status |-> "captured", ref |-> s.source, micros |-> s.micros]
          /\ [source |-> s.source, hold |-> s.hold, settled |-> TRUE] \in usage'
          /\ s.hold \in Holds
    <3> SUFFICES ASSUME NEW s \in settlement'
                 PROVE  /\ hold'[s.hold] = [status |-> "captured", ref |-> s.source,
                                            micros |-> s.micros]
                        /\ [source |-> s.source, hold |-> s.hold, settled |-> TRUE] \in usage'
                        /\ s.hold \in Holds
      OBVIOUS
    <3>1. CASE s \in settlement BY <1>1, <1>3, <1>4, <3>1
    <3>2. CASE s = new
      <4>1. [source |-> new.source, hold |-> new.hold, settled |-> TRUE] \in usage'
        BY <2>7, <2>8
      <4> QED BY <1>7, <2>4, <2>5, <3>2, <4>1
    <3> QED BY <2>8, <3>1, <3>2
  <2>10. \A u \in usage' : u.settled /\ \E s \in settlement' : s.source = u.source /\ s.hold = u.hold
    BY <1>5, <2>7, <2>8
  <2> QED BY <2>9, <2>10 DEF SettlementsMatchHolds
<1> QED BY <1>6, <1>7, CommitSettles

(* A commit keeps what is said of settlements. *)
LEMMA CommitKeepsSettlements ==
  ASSUME Inv, NEW r \in Requests, CommitWork(r)
  PROVE  SettleInv'
<1>1. /\ UNCHANGED <<job, work>> /\ InDatabase' = InDatabase \ {r} /\ r \in InDatabase
  BY CommitIs
<1>2. SettleInv /\ WorkTyped BY DEF Inv, MeteringInv
<1>3. usage' = usage \cup work[r].usage BY CommitSettles
<1>4. hold' = [h \in Holds |-> hold'[h]]
  <2> DEFINE row(h) == IF \E c \in work[r].hold : c.hold = h
                       THEN (CHOOSE c \in work[r].hold : c.hold = h).row ELSE hold[h]
  <2>1. hold' = [h \in Holds |-> row(h)] BY CommitIs
  <2> HIDE DEF row
  <2> QED BY <2>1
<1>5. \A u, v \in usage' : Alike(u, v) => u = v
  <2> SUFFICES ASSUME NEW u \in usage', NEW v \in usage', Alike(u, v) PROVE u = v
    OBVIOUS
  <2>1. \A x, y \in work[r].usage : x = y BY CommitSettles
  <2>2. \A x \in work[r].usage, y \in usage : ~Alike(x, y) BY <1>1, <1>2 DEF SettleInv
  <2>3. Alike(v, u) BY DEF Alike
  <2>4. CASE u \in usage /\ v \in usage BY <1>2, <2>4 DEF SettleInv
  <2>5. CASE u \in work[r].usage /\ v \in work[r].usage BY <2>1, <2>5
  <2> QED BY <1>3, <2>2, <2>3, <2>4, <2>5
<1>6. ASSUME NEW q \in InDatabase'
      PROVE  /\ job'[q].kind = "settle" => SettlingOK(q)'
             /\ job'[q].kind = "finish" => FinishingOK(q)'
             /\ job'[q].kind \in {"publish", "select"} => NoSettling(q)'
  <2>1. /\ job[q].kind = "settle" => SettlingOK(q)
        /\ job[q].kind = "finish" => FinishingOK(q)
        /\ job[q].kind \in {"publish", "select"} => NoSettling(q)
    BY <1>1, <1>2 DEF SettleInv
  <2>2. HoldHasEnded(q) => HoldHasEnded(q)' BY CommitKeepsEnded
  <2>3. UsageIsCommitted(q) => UsageIsCommitted(q)' BY <1>1, <1>3 DEF UsageIsCommitted
  <2>4. /\ UsageDraft(q, FALSE)' = UsageDraft(q, FALSE)
        /\ UsageDraft(q, TRUE)' = UsageDraft(q, TRUE)
        /\ SettlementDraft(q)' = SettlementDraft(q)
    BY <1>1 DEF UsageDraft, SettlementDraft
  <2>5. job[q].kind = "settle" => SettlingOK(q)'
    BY <1>1, <2>1, <2>2, <2>3, <2>4 DEF SettlingOK
  <2>6. job[q].kind = "finish" => FinishingOK(q)' BY <1>1, <2>1, <2>2 DEF FinishingOK
  <2>7. NoSettling(q) => NoSettling(q)' BY <1>1 DEF NoSettling
  <2> QED BY <1>1, <2>1, <2>5, <2>6, <2>7
<1>7. ASSUME NEW q \in InDatabase', NEW u \in work'[q].usage, NEW v \in usage'
      PROVE  ~Alike(u, v)
  <2>1. CASE v \in usage BY <1>1, <1>2, <2>1 DEF SettleInv
  <2>2. CASE v \in work[r].usage BY <1>1, <1>2, <2>2 DEF SettleInv
  <2> QED BY <1>3, <2>1, <2>2
<1>8. ASSUME NEW q \in InDatabase', NEW p \in InDatabase' \ {q},
             NEW u \in work'[q].usage, NEW v \in work'[p].usage
      PROVE  ~Alike(u, v)
  BY <1>1, <1>2 DEF SettleInv
<1> QED BY <1>4, <1>5, <1>6, <1>7, <1>8, CommitKeepsMatch DEF SettleInv, Alike

(* A commit keeps the whole invariant. *)
LEMMA CommitKeeps ==
  ASSUME Inv, NEW r \in Requests, CommitWork(r)
  PROVE  MeteringInv'
<1>1. /\ UNCHANGED <<job, work>> /\ InDatabase' = InDatabase \ {r} /\ r \in InDatabase
      /\ tx'[r] = "committed" /\ \A q \in Requests \ {r} : tx'[q] = tx[q]
  BY CommitIs
<1>2. WorkTyped /\ LocksExclude BY DEF Inv, MeteringInv
<1>3. tx[r] # "none" /\ tx[r] # "rolled back" BY <1>1, <1>2, InDatabaseIs
<1>a. /\ \A q \in Requests : tx'[q] = "none" => tx[q] = "none"
      /\ \A q \in Requests : tx'[q] # "none" /\ tx'[q] # "rolled back" =>
           tx[q] # "none" /\ tx[q] # "rolled back"
  BY <1>1, <1>3, Zenon
<1>b. /\ job' \in [Requests -> Jobs] /\ DOMAIN work' = Requests
      /\ work' = [q \in Requests |-> work'[q]] /\ \A q \in Requests : IsWork(work'[q])
  BY <1>1, <1>2, Zenon DEF WorkTyped
<1>c. \A q \in Requests : tx'[q] = "none" => work'[q] = NoWork
  BY <1>1, <1>2, <1>a, Zenon DEF WorkTyped
<1>d. \A q \in Requests : tx'[q] # "none" /\ tx'[q] # "rolled back" =>
        work'[q].at \in StatesOf(job'[q].kind) /\ Legal(q)'
  BY <1>1, <1>2, <1>a, Zenon DEF WorkTyped, Legal
<1>4. WorkTyped' BY <1>b, <1>c, <1>d, Zenon DEF WorkTyped
<1>5. LocksExclude' BY <1>1, <1>2 DEF LocksExclude
<1> QED BY <1>4, <1>5, CommitKeepsPublications, CommitKeepsSelections, CommitKeepsSettlements
        DEF MeteringInv

-------------------------------------------------------------------------------
(* Whatever happens, the invariant is kept. *)
LEMMA WorkKeeps ==
  ASSUME Inv, NEW r \in Requests, Work(r)
  PROVE  MeteringInv'
<1>1. RuntimeInv /\ MeteringInv BY DEF Inv
<1>2. CASE RefuseDraft(r) BY <1>1, <1>2, RefuseDraftRests, RestsKeep
<1>3. CASE Begin(r) BY <1>3, BeginKeeps
<1>4. CASE CommitWork(r) BY <1>4, CommitKeeps
<1>5. CASE QueryFails(r) \/ ((Arrives(r) \/ Disconnects(r) \/ DeadlineOf(r) \/ Rollback(r)) /\ UNCHANGED meteringVars)
  <2>1. Doomed(r) \/ Arrives(r) \/ Disconnects(r) \/ DeadlineOf(r) \/ Rollback(r) BY <1>5 DEF QueryFails
  <2>2. UNCHANGED <<job, work, committedRows>> BY <1>5 DEF QueryFails, meteringVars
  <2>3. Rests BY <1>1, <2>1, <2>2, TxStepRests
  <2> QED BY <1>1, <2>3, RestsKeep
<1>6. CASE Receipt(r) BY <1>6, ReceiptKeeps
<1>7. CASE LockTable(r) BY <1>7, LockTableKeeps
<1>8. CASE ReadNumber(r) BY <1>8, ReadNumberKeeps
<1>9. CASE Insert(r) BY <1>9, InsertKeeps
<1>10. CASE Verify(r) BY <1>10, VerifyKeeps
<1>11. CASE SelectRate(r) BY <1>11, SelectRateKeeps
<1>12. CASE SelectPolicy(r) BY <1>12, SelectPolicyKeeps
<1>13. CASE FindUsage(r) BY <1>13, FindUsageKeeps
<1>14. CASE CreateUsage(r) BY <1>14, CreateUsageKeeps
<1>15. CASE FinishHold(r) BY <1>15, FinishHoldKeeps
<1>16. CASE Settle(r) BY <1>16, SettleKeeps
<1> QED BY <1>2, <1>3, <1>4, <1>5, <1>6, <1>7, <1>8, <1>9, <1>10, <1>11, <1>12, <1>13, <1>14,
           <1>15, <1>16 DEF Work

(* Every step of metering keeps the invariant. *)
LEMMA NextInv == Inv /\ [Next]_vars => Inv'
<1> SUFFICES ASSUME Inv, [Next]_vars PROVE Inv'
  OBVIOUS
<1>1. RuntimeInv /\ MeteringInv BY DEF Inv
<1>2. RuntimeInv' BY <1>1, NextRuntimeInv
<1>3. CASE LifecycleStep /\ UNCHANGED meteringVars
  BY <1>1, <1>2, <1>3, LifecycleRests, RestsKeep DEF Inv
<1>4. ASSUME NEW r \in Requests, Work(r) PROVE Inv' BY <1>2, <1>4, WorkKeeps DEF Inv
<1>5. CASE Tick
  <2>1. Rests BY <1>5, UnchangedRests DEF Tick
  <2> QED BY <1>1, <1>2, <2>1, RestsKeep DEF Inv
<1>6. CASE UNCHANGED vars
  <2>1. Rests BY <1>6, UnchangedRests DEF vars, meteringVars
  <2> QED BY <1>1, <1>2, <2>1, RestsKeep DEF Inv
<1> QED BY <1>3, <1>4, <1>5, <1>6 DEF Next

(* Empty tables satisfy the invariant. *)
LEMMA InitInv == Init => Inv
<1> SUFFICES ASSUME Init PROVE Inv
  OBVIOUS
<1>1. RuntimeInv BY InitRuntimeInv DEF Init
<1>2. /\ InDatabase = {} /\ \A r \in Requests : tx[r] = "none" /\ work[r] = NoWork
      /\ job \in [Requests -> Jobs]
      /\ revision = [t \in Tables |-> {}] /\ usage = {} /\ settlement = {}
      /\ hold = [h \in Holds |-> Active]
      /\ DOMAIN work = Requests /\ work = [r \in Requests |-> work[r]]
  BY DEF Init, RuntimeInit, MeteringInit, InDatabase
<1>3. WorkTyped
  <2>1. \A r \in Requests : IsWork(work[r]) BY <1>2, NoWorkIs
  <2> QED BY <1>2, <2>1 DEF WorkTyped
<1>4. LocksExclude BY <1>2 DEF LocksExclude
<1>5. PublishInv
  <2>1. \A t \in Tables : TableOK(t)
    <3> SUFFICES ASSUME NEW t \in Tables PROVE TableOK(t)
      OBVIOUS
    <3>1. revision[t] = {} BY <1>2
    <3>2. IsFiniteSet({}) /\ Cardinality({}) = 0 BY FS_EmptySet
    <3>3. Numbers({}) = {} /\ 1 .. 0 = {} BY DEF Numbers
    <3> QED BY <3>1, <3>2, <3>3 DEF TableOK
  <2>2. \A r \in Requests : work[r].number \in Nat
    <3>1. \A r \in Requests : work[r].number = 0 BY <1>2, NoWorkIs, Zenon
    <3>2. 0 \in Nat OBVIOUS
    <3> QED BY <3>1, <3>2, Zenon
  <2>3. revision = [t \in Tables |-> revision[t]] BY <1>2
  <2> QED BY <1>2, <2>1, <2>2, <2>3 DEF PublishInv
<1>6. SelectInv
  <2>1. \A r \in Requests : /\ work[r].selected = NoRows /\ ~work[r].ambiguous
    BY <1>2, NoWorkIs
  <2>2. NoRows = [t \in Tables |-> NoRows[t]] /\ \A t \in Tables : NoRows[t] = {}
    BY DEF NoRows
  <2>3. revision["rate"] = {} BY <1>2 DEF Tables
  <2>4. SelectionsAreSound BY <2>1, <2>2 DEF SelectionsAreSound
  <2> QED BY <1>2, <2>1, <2>2, <2>3, <2>4 DEF SelectInv
<1>7. SettleInv BY <1>2 DEF SettleInv, SettlementsMatchHolds
<1> QED BY <1>1, <1>3, <1>4, <1>5, <1>6, <1>7 DEF Inv, MeteringInv

(***************************************************************************)
(* The invariant holds whatever requests there are, whatever they are      *)
(* about, and however their transactions interleave, fail and time out.    *)
(***************************************************************************)
THEOREM Invariant == Spec => []Inv
BY InitInv, NextInv, PTL DEF Spec

(***************************************************************************)
(* Revisions are numbered without a gap, and the number a publication goes *)
(* on with is the next one and nobody else's.                              *)
(***************************************************************************)
THEOREM RevisionsAreAlwaysNumbered == Spec => []RevisionsAreNumbered
<1>1. Inv => RevisionsAreNumbered
  <2> SUFFICES ASSUME Inv, NEW t \in Tables
               PROVE  /\ Numbers(revision[t]) = 1 .. Cardinality(revision[t])
                      /\ \A v, w \in revision[t] : v.identity = w.identity => v = w
                      /\ \A r \in Numbered(t) : /\ work[r].number = Cardinality(revision[t]) + 1
                                                /\ Numbered(t) = {r}
    BY DEF RevisionsAreNumbered
  <2>1. PublishInv /\ LocksExclude /\ TableOK(t) BY DEF Inv, MeteringInv, PublishInv
  <2>2. ASSUME NEW r \in Numbered(t)
        PROVE  /\ r \in InDatabase /\ work[r].number = Cardinality(revision[t]) + 1
               /\ <<t, "table">> \in work[r].locks
    BY <2>1, <2>2 DEF Numbered, PublishInv, PublicationOK, TableLock
  <2>3. \A q, r \in Numbered(t) : q = r BY <2>1, <2>2 DEF LocksExclude
  <2> QED BY <2>1, <2>2, <2>3 DEF TableOK
<1> QED BY <1>1, Invariant, PTL

(***************************************************************************)
(* No request meets two rates that match, and nothing that was committed   *)
(* when a selection began outranks what it answered with.                  *)
(***************************************************************************)
THEOREM SelectionsAreAlwaysSound == Spec => []SelectionsAreSound
<1>1. Inv => SelectionsAreSound BY DEF Inv, MeteringInv, SelectInv
<1> QED BY <1>1, Invariant, PTL

(***************************************************************************)
(* A settlement, its usage event and the capture of its hold always come   *)
(* together, whoever else ends the hold.                                   *)
(***************************************************************************)
THEOREM SettlementsAlwaysMatchHolds == Spec => []SettlementsMatchHolds
<1>1. Inv => SettlementsMatchHolds BY DEF Inv, MeteringInv, SettleInv
<1> QED BY <1>1, Invariant, PTL

-------------------------------------------------------------------------------
(***************************************************************************)
(* Usage evidence: what has been accepted is one chain in which knowledge  *)
(* only grows, and every read of it has behind it what it is about to      *)
(* give.                                                                   *)
(***************************************************************************)
\* Evidence has the parts of its form and decodes.
IsEvidence(e) ==
  /\ e = [attempt |-> e.attempt, event |-> e.event, revision |-> e.revision,
          predecessor |-> e.predecessor, facts |-> e.facts, digest |-> e.digest]
  /\ Decodes(e)

\* What is known by the facts f is known by the facts g, and is the same.
Counted(f) == IF f.usage = <<>> THEN [k \in Counts |-> Unreported] ELSE f.usage[1].count

Knows(f, g) ==
  /\ \A k \in Counts : Counted(f)[k] \in {Unreported, Counted(g)[k]}
  /\ f.outcome \in {"unknown", g.outcome}
  /\ f.raw \in {Nothing, g.raw}
  /\ f.authorization.state = "denied" => g.authorization = f.authorization

\* The evidence accepted so far is one chain.
Chain ==
  /\ accepted \in Seq({accepted[i] : i \in DOMAIN accepted})
  /\ \A i \in DOMAIN accepted : /\ IsEvidence(accepted[i])
                                /\ accepted[i].revision = i
                                /\ accepted[i].attempt = accepted[1].attempt
  /\ \A i, j \in DOMAIN accepted : i < j =>
       /\ Knows(accepted[i].facts, accepted[j].facts)
       /\ accepted[i + 1].predecessor[1].digest = accepted[i].digest

\* What a read that is still open, or has failed, or has its evidence, has behind it.
IsRead(x) ==
  x \in [at : {"none", "fetch", "body", "fails", "settled"}, aborted : BOOLEAN, late : BOOLEAN,
         error : {Nothing, "SHUTTING_DOWN", "ABORTED", "TIMEOUT"} \cup Refusals,
         evidence : {x.evidence}]

ReadOK(r, x) ==
  /\ IsRead(x)
  /\ x.at # "settled" => x.error = Nothing
  /\ x.at \in {"fetch", "body", "fails"} => Expecting[r] \in DOMAIN accepted /\ closing # "done"
  /\ x.error = "SHUTTING_DOWN" => closing # "no"
  /\ x.error = "ABORTED" => x.aborted
  /\ x.error = "TIMEOUT" => x.late /\ ~x.aborted
  /\ x.at = "settled" /\ x.error = Nothing =>
       /\ Expecting[r] \in DOMAIN accepted
       /\ x.evidence = <<accepted[Expecting[r]]>>
       /\ accepted[Expecting[r]].facts.sealed

EvidenceInv ==
  /\ Chain
  /\ closing \in {"no", "waits", "done"}
  /\ DOMAIN reading = Reads /\ reading = [r \in Reads |-> reading[r]]
  /\ \A r \in Reads : ReadOK(r, reading[r])

-------------------------------------------------------------------------------
(* A chain with one more piece of evidence is a sequence again. *)
LEMMA ChainGrows ==
  ASSUME NEW s, s \in Seq({s[i] : i \in DOMAIN s}), NEW e
  PROVE  /\ Append(s, e) \in Seq({Append(s, e)[i] : i \in DOMAIN Append(s, e)})
         /\ Len(s) \in Nat /\ DOMAIN s = 1 .. Len(s)
         /\ DOMAIN Append(s, e) = 1 .. Len(s) + 1
         /\ \A i \in 1 .. Len(s) : Append(s, e)[i] = s[i]
         /\ Append(s, e)[Len(s) + 1] = e
<1> DEFINE S == {s[i] : i \in DOMAIN s}
           T == S \cup {e}
           q == Append(s, e)
<1>1. Len(s) \in Nat /\ DOMAIN s = 1 .. Len(s)
  OBVIOUS
<1>2. s \in Seq(T) /\ e \in T
  <2>1. s \in Seq(S) /\ S \subseteq T OBVIOUS
  <2> HIDE DEF S, T
  <2>2. s \in Seq(T) BY <2>1
  <2> QED BY <2>2 DEF T
<1> HIDE DEF S, T
<1>3. q \in Seq(T) /\ Len(q) = Len(s) + 1 /\ (\A i \in 1 .. Len(s) : q[i] = s[i])
      /\ q[Len(s) + 1] = e
  BY <1>2
<1>4. DOMAIN q = 1 .. Len(s) + 1
  BY <1>3
<1>5. T = {q[i] : i \in DOMAIN q}
  <2>1. T \subseteq {q[i] : i \in DOMAIN q}
    BY <1>1, <1>3, <1>4 DEF S, T
  <2>2. ASSUME NEW i \in DOMAIN q PROVE q[i] \in T
    BY <1>3, <1>4, <2>2
  <2> QED BY <2>1, <2>2
<1> QED BY <1>1, <1>3, <1>4, <1>5

(* What was known twice over was known from the first. *)
LEMMA KnowsTransitive ==
  ASSUME NEW f, NEW g, NEW h, Knows(f, g), Knows(g, h)
  PROVE  Knows(f, h)
<1>1. \A k \in Counts : Counted(f)[k] \in {Unreported, Counted(h)[k]}
  BY DEF Knows
<1>2. f.outcome \in {"unknown", h.outcome} /\ f.raw \in {Nothing, h.raw}
  BY DEF Knows
<1>3. f.authorization.state = "denied" => h.authorization = f.authorization
  BY DEF Knows
<1> QED BY <1>1, <1>2, <1>3 DEF Knows

(* A verified successor knows what its predecessor knew. *)
LEMMA SuccessorKnows ==
  ASSUME NEW f, NEW g, KeepsKnowledge(f, g)
  PROVE  Knows(f, g)
<1>1. ASSUME NEW k \in Counts PROVE Counted(f)[k] \in {Unreported, Counted(g)[k]}
  <2>1. CASE f.usage = <<>>
    BY <2>1 DEF Counted
  <2>2. CASE f.usage # <<>>
    <3>1. g.usage # <<>> /\ f.usage[1].count[k] \in {Unreported, g.usage[1].count[k]}
      BY <2>2 DEF KeepsKnowledge, KeepsUsage
    <3> QED BY <2>2, <3>1 DEF Counted
  <2> QED BY <2>1, <2>2
<1>2. f.outcome \in {"unknown", g.outcome} /\ f.raw \in {Nothing, g.raw}
  BY DEF KeepsKnowledge
<1>3. f.authorization.state = "denied" => g.authorization = f.authorization
  BY DEF KeepsKnowledge, KeepsAuthorization
<1> QED BY <1>1, <1>2, <1>3 DEF Knows

(* Totals are known when the three counts behind them are, and follow from these. *)
LEMMA TotalsKnown ==
  ASSUME NEW u, Totals(u) # "unknown"
  PROVE  \A k \in {"input", "output", "total"} : u.count[k] # Unreported
<1> DEFINE n == [k \in {"input", "output", "total"} |-> u.count[k]]
<1>1. (\E k \in DOMAIN n : n[k] = Unreported) => Totals(u) = "unknown"
  BY DEF Totals
<1>2. \A k \in {"input", "output", "total"} : k \in DOMAIN n /\ n[k] = u.count[k]
  OBVIOUS
<1> HIDE DEF n
<1> QED BY <1>1, <1>2

(* The totals only depend on the counts they are about. *)
LEMMA TotalsSame ==
  ASSUME NEW u, NEW v, \A k \in {"input", "output", "total"} : u.count[k] = v.count[k]
  PROVE  Totals(u) = Totals(v)
<1> DEFINE n(w) == [k \in {"input", "output", "total"} |-> w.count[k]]
<1>1. n(u) = n(v) OBVIOUS
<1> QED BY <1>1 DEF Totals

(* What is sent has the form of evidence, sound or not. *)
LEMMA SentForm ==
  ASSUME NEW e \in Sent
  PROVE  e = [attempt |-> e.attempt, event |-> e.event, revision |-> e.revision,
              predecessor |-> e.predecessor, facts |-> e.facts, digest |-> e.digest]
         /\ e.revision \in Nat
<1> DEFINE after == {<<>>} \cup {<<[event |-> accepted[i].event, digest |-> accepted[i].digest]>> :
                                   i \in DOMAIN accepted}
           written == [attempt : {1, 2}, event : {1, 2}, revision : 1 .. MaxRevisions,
                       predecessor : after, facts : Candidates, digest : {NoDigest}]
<1>1. \/ e \in written
      \/ \E w \in written : e = [w EXCEPT !.digest = Digest(w)]
  BY DEF Sent
<1> HIDE DEF after
<1>2. CASE e \in written BY <1>2, EvidenceAssumption
<1>3. CASE \E w \in written : e = [w EXCEPT !.digest = Digest(w)]
  <2>1. PICK w \in written : e = [w EXCEPT !.digest = Digest(w)] BY <1>3
  <2> QED BY <2>1, EvidenceAssumption
<1> QED BY <1>1, <1>2, <1>3

(***************************************************************************)
(* Whatever is sent next, the chain stays one and grows at its end only.   *)
(***************************************************************************)
LEMMA FollowKeeps ==
  ASSUME Chain, NEW e \in Sent, Follow(e)
  PROVE  /\ Chain'
         /\ \A i \in DOMAIN accepted : i \in DOMAIN accepted' /\ accepted'[i] = accepted[i]
<1>1. accepted \in Seq({accepted[i] : i \in DOMAIN accepted})
  BY DEF Chain
<1>2. CASE accepted # <<>> /\ e = Last(accepted)
  <2>1. accepted' = accepted BY <1>2 DEF Follow
  <2> QED BY <2>1 DEF Chain
<1>3. CASE ~(accepted # <<>> /\ e = Last(accepted))
  <2> DEFINE n == Len(accepted)
  <2>1. accepted' = Append(accepted, e) BY <1>3 DEF Follow
  <2>2. /\ accepted' \in Seq({accepted'[i] : i \in DOMAIN accepted'})
        /\ n \in Nat /\ DOMAIN accepted = 1 .. n
        /\ DOMAIN accepted' = 1 .. n + 1
        /\ \A i \in 1 .. n : accepted'[i] = accepted[i]
        /\ accepted'[n + 1] = e
    BY <1>1, <2>1, ChainGrows
  <2> HIDE DEF n
  <2>3. /\ IsEvidence(e) /\ e.revision = n + 1
        /\ n > 0 => /\ e.attempt = accepted[1].attempt
                    /\ KeepsKnowledge(accepted[n].facts, e.facts)
                    /\ e.predecessor[1].digest = accepted[n].digest
    <3>1. CASE accepted = <<>>
      <4>1. n = 0 BY <3>1 DEF n
      <4>2. Decodes(e) /\ e.revision = 1 BY <3>1 DEF Follow
      <4> QED BY <4>1, <4>2, SentForm DEF IsEvidence
    <3>2. CASE accepted # <<>>
      <4>1. n > 0 /\ Last(accepted) = accepted[n]
        BY <1>1, <3>2 DEF n, Last
      <4>2. Succeeds(accepted[n], e)
        BY <3>2, <4>1 DEF Follow
      <4>3. e # accepted[n] BY <1>3, <3>2, <4>1
      <4>4. accepted[n].revision = n /\ accepted[n].attempt = accepted[1].attempt
        BY <2>2, <4>1 DEF Chain
      <4>5. /\ Decodes(e) /\ e.attempt = accepted[n].attempt /\ e.revision = n + 1
            /\ e.predecessor = <<[event |-> accepted[n].event, digest |-> accepted[n].digest]>>
            /\ KeepsKnowledge(accepted[n].facts, e.facts)
        BY <4>2, <4>3, <4>4 DEF Succeeds
      <4>6. IsEvidence(e) BY <4>5, SentForm DEF IsEvidence
      <4>7. e.predecessor[1].digest = accepted[n].digest BY <4>5
      <4> QED BY <4>4, <4>5, <4>6, <4>7
    <3> QED BY <3>1, <3>2
  <2>4. ASSUME NEW i \in DOMAIN accepted'
        PROVE  /\ IsEvidence(accepted'[i]) /\ accepted'[i].revision = i
               /\ accepted'[i].attempt = accepted'[1].attempt
    <3>1. CASE i \in 1 .. n
      BY <2>2, <3>1 DEF Chain
    <3>2. CASE i = n + 1
      <4>1. CASE n = 0 BY <2>2, <2>3, <3>2, <4>1
      <4>2. CASE n > 0 BY <2>2, <2>3, <3>2, <4>2
      <4> QED BY <2>2, <4>1, <4>2
    <3> QED BY <2>2, <3>1, <3>2
  <2>5. ASSUME NEW i \in DOMAIN accepted', NEW j \in DOMAIN accepted', i < j
        PROVE  /\ Knows(accepted'[i].facts, accepted'[j].facts)
               /\ accepted'[i + 1].predecessor[1].digest = accepted'[i].digest
    <3>1. CASE j \in 1 .. n
      <4>1. i \in 1 .. n /\ i + 1 \in 1 .. n BY <2>2, <2>5, <3>1
      <4> QED BY <2>2, <2>5, <3>1, <4>1 DEF Chain
    <3>2. CASE j = n + 1 /\ i = n
      <4>1. n > 0 /\ i + 1 = n + 1 /\ n \in 1 .. n BY <2>2, <3>2
      <4> QED BY <2>2, <2>3, <3>2, <4>1, SuccessorKnows
    <3>3. CASE j = n + 1 /\ i # n
      <4>1. i \in 1 .. n /\ i + 1 \in 1 .. n /\ n \in 1 .. n /\ i < n BY <2>2, <2>5, <3>3
      <4>2. /\ Knows(accepted[i].facts, accepted[n].facts)
            /\ accepted[i + 1].predecessor[1].digest = accepted[i].digest
        BY <2>2, <4>1 DEF Chain
      <4>3. Knows(accepted[n].facts, e.facts)
        BY <2>3, <4>1, SuccessorKnows
      <4>4. Knows(accepted[i].facts, e.facts)
        BY <4>2, <4>3, KnowsTransitive
      <4> QED BY <2>2, <3>3, <4>1, <4>2, <4>4
    <3> QED BY <2>2, <2>5, <3>1, <3>2, <3>3
  <2>6. Chain' BY <2>2, <2>4, <2>5 DEF Chain
  <2> QED BY <2>2, <2>6
<1> QED BY <1>2, <1>3

-------------------------------------------------------------------------------
(* One read goes on, to x; the evidence stays. *)
LEMMA OneRead ==
  ASSUME EvidenceInv, NEW r \in Reads, NEW x, ReadOK(r, x),
         reading' = [reading EXCEPT ![r] = x], UNCHANGED <<accepted, closing>>
  PROVE  EvidenceInv'
<1>1. Chain' /\ closing' \in {"no", "waits", "done"}
  BY DEF EvidenceInv, Chain
<1>2. DOMAIN reading' = Reads /\ reading'[r] = x
      /\ \A q \in Reads : q # r => reading'[q] = reading[q]
  BY DEF EvidenceInv
<1>3. \A q \in Reads : ReadOK(q, reading[q])
  BY DEF EvidenceInv
<1>4. \A q \in Reads : ReadOK(q, reading'[q])
  BY <1>2, <1>3
<1>5. \A q \in Reads : ReadOK(q, reading[q])'
  BY <1>4 DEF ReadOK, IsRead
<1> QED BY <1>1, <1>2, <1>5 DEF EvidenceInv

(* A read that is not settled has no error yet, and its snapshot. *)
LEMMA FailsKeeps ==
  ASSUME EvidenceInv, NEW r \in Reads, NEW error, Fails(r, error),
         error \in {"SHUTTING_DOWN", "ABORTED", "TIMEOUT"} \cup Refusals,
         error = "SHUTTING_DOWN" => closing # "no",
         error = "ABORTED" => reading[r].aborted,
         error = "TIMEOUT" => reading[r].late /\ ~reading[r].aborted,
         UNCHANGED <<accepted, closing>>
  PROVE  EvidenceInv'
<1> DEFINE x == [reading[r] EXCEPT !.at = "settled", !.error = error]
<1>1. ReadOK(r, reading[r]) BY DEF EvidenceInv
<1>2. /\ IsRead(x) /\ x.at = "settled" /\ x.aborted = reading[r].aborted /\ x.late = reading[r].late
      /\ x.error = error /\ x.evidence = reading[r].evidence
  BY <1>1 DEF ReadOK, IsRead
<1>3. error # Nothing BY DEF Nothing, Refusals
<1>4. reading' = [reading EXCEPT ![r] = x]
  BY DEF Fails, EvidenceInv
<1> HIDE DEF x
<1>5. ReadOK(r, x)
  BY <1>1, <1>2, <1>3 DEF ReadOK, IsRead
<1> QED BY <1>4, <1>5, OneRead

(* What a read throws names what ended it. *)
LEMMA CauseKeeps ==
  ASSUME EvidenceInv, NEW r \in Reads, NEW error \in Refusals, Fails(r, Cause(r, error)),
         UNCHANGED <<accepted, closing>>
  PROVE  EvidenceInv'
<1>1. ReadOK(r, reading[r]) BY DEF EvidenceInv
<1>2. reading[r].aborted \in BOOLEAN /\ reading[r].late \in BOOLEAN
  BY <1>1 DEF ReadOK, IsRead
<1> DEFINE cause == Cause(r, error)
<1>3. \/ closing # "no" /\ cause = "SHUTTING_DOWN"
      \/ closing = "no" /\ reading[r].aborted /\ cause = "ABORTED"
      \/ closing = "no" /\ ~reading[r].aborted /\ reading[r].late /\ cause = "TIMEOUT"
      \/ cause = error
  BY <1>2 DEF Cause
<1> HIDE DEF cause
<1>4. error \notin {"SHUTTING_DOWN", "ABORTED", "TIMEOUT"} BY DEF Refusals
<1>5. Fails(r, cause) BY DEF cause
<1>6. cause \in {"SHUTTING_DOWN", "ABORTED", "TIMEOUT"} \cup Refusals BY <1>3
<1> QED BY <1>3, <1>4, <1>5, <1>6, FailsKeeps

(* A read that goes on. *)
LEMMA GoesKeeps ==
  ASSUME EvidenceInv, NEW r \in Reads, NEW at \in {"fetch", "body", "fails"}, Goes(r, at),
         reading[r].at # "settled", Expecting[r] \in DOMAIN accepted, closing # "done",
         UNCHANGED <<accepted, closing>>
  PROVE  EvidenceInv'
<1> DEFINE x == [reading[r] EXCEPT !.at = at]
<1>1. ReadOK(r, reading[r]) BY DEF EvidenceInv
<1>2. /\ IsRead(x) /\ x.at = at /\ x.aborted = reading[r].aborted /\ x.late = reading[r].late
      /\ x.error = reading[r].error /\ x.evidence = reading[r].evidence
  BY <1>1 DEF ReadOK, IsRead
<1>3. reading' = [reading EXCEPT ![r] = x]
  BY DEF Goes, EvidenceInv
<1> HIDE DEF x
<1>4. ReadOK(r, x)
  BY <1>1, <1>2 DEF ReadOK, IsRead, Nothing
<1> QED BY <1>3, <1>4, OneRead

(* Two pieces of evidence that decode are the same when their digests are. *)
LEMMA SameDigest ==
  ASSUME NEW e, NEW f, IsEvidence(e), IsEvidence(f), e.digest = f.digest
  PROVE  e = f
<1>1. Digest(e) = Digest(f) BY DEF IsEvidence, Decodes
<1> DEFINE d == [e EXCEPT !.digest = NoDigest]
           g == [f EXCEPT !.digest = NoDigest]
<1>2. d = g BY <1>1 DEF Digest
<1>3. d = [attempt |-> e.attempt, event |-> e.event, revision |-> e.revision,
           predecessor |-> e.predecessor, facts |-> e.facts, digest |-> NoDigest]
  BY DEF IsEvidence
<1>4. g = [attempt |-> f.attempt, event |-> f.event, revision |-> f.revision,
           predecessor |-> f.predecessor, facts |-> f.facts, digest |-> NoDigest]
  BY DEF IsEvidence
<1> HIDE DEF d, g
<1>5. e.attempt = f.attempt /\ e.event = f.event /\ e.revision = f.revision
      /\ e.predecessor = f.predecessor /\ e.facts = f.facts
  <2>1. d.attempt = e.attempt /\ d.event = e.event /\ d.revision = e.revision
        /\ d.predecessor = e.predecessor /\ d.facts = e.facts
    BY <1>3
  <2>2. g.attempt = f.attempt /\ g.event = f.event /\ g.revision = f.revision
        /\ g.predecessor = f.predecessor /\ g.facts = f.facts
    BY <1>4
  <2> QED BY <1>2, <2>1, <2>2
<1> QED BY <1>5 DEF IsEvidence

(* A read that has its answer reads the body. *)
LEMMA ReadBodyKeeps ==
  ASSUME EvidenceInv, NEW r \in Reads, ReadBody(r)
  PROVE  EvidenceInv'
<1>1. ReadOK(r, reading[r]) /\ reading[r].at = "body" BY DEF EvidenceInv, ReadBody
<1>2. Expecting[r] \in DOMAIN accepted /\ closing # "done" BY <1>1 DEF ReadOK
<1>3. UNCHANGED <<accepted, closing>> BY DEF ReadBody
<1>4. CASE Goes(r, "fails") BY <1>1, <1>2, <1>3, <1>4, GoesKeeps
<1>5. CASE Fails(r, "CONTRACT_INVALID")
  BY <1>3, <1>5, FailsKeeps DEF Refusals
<1>6. ASSUME NEW e \in Range(accepted), Enveloped(e, accepted[Expecting[r]]),
             Bound(e, accepted[Expecting[r]]), Gives(r, e)
      PROVE  EvidenceInv'
  <2> DEFINE f == accepted[Expecting[r]]
             x == [reading[r] EXCEPT !.at = "settled", !.evidence = <<e>>]
  <2>1. e = f
    <3>1. PICK i \in DOMAIN accepted : e = accepted[i]
      BY <1>6 DEF Range
    <3>2. IsEvidence(e) /\ IsEvidence(f) BY <1>2, <3>1 DEF EvidenceInv, Chain
    <3>3. e.digest = f.digest BY <1>6 DEF Enveloped
    <3> HIDE DEF f
    <3> QED BY <3>2, <3>3, SameDigest
  <2>2. f.facts.sealed BY <1>6, <2>1 DEF Bound
  <2>3. /\ IsRead(x) /\ x.at = "settled" /\ x.aborted = reading[r].aborted /\ x.late = reading[r].late
        /\ x.error = reading[r].error /\ x.evidence = <<e>>
    BY <1>1 DEF ReadOK, IsRead
  <2>4. reading' = [reading EXCEPT ![r] = x]
    BY <1>6 DEF Gives, EvidenceInv
  <2> HIDE DEF x
  <2>5. ReadOK(r, x)
    BY <1>1, <1>2, <2>1, <2>2, <2>3 DEF ReadOK, IsRead, Nothing
  <2> QED BY <1>3, <2>4, <2>5, OneRead
<1> QED BY <1>4, <1>5, <1>6 DEF ReadBody

(* Every step of the reader keeps the invariant. *)
LEMMA ReaderKeeps ==
  ASSUME EvidenceInv, ReaderStep
  PROVE  EvidenceInv'
<1>1. CASE Destroy
  <2>1. \A r \in Reads : ReadOK(r, reading[r])' 
    BY <1>1 DEF Destroy, EvidenceInv, ReadOK, IsRead
  <2> QED BY <1>1, <2>1 DEF Destroy, EvidenceInv, Chain
<1>2. CASE Destroyed
  <2>1. \A r \in Reads : ReadOK(r, reading[r]) /\ reading[r].at \notin {"fetch", "body", "fails"}
    BY <1>2 DEF Destroyed, Open, EvidenceInv
  <2>2. \A r \in Reads : ReadOK(r, reading[r])'
    BY <1>2, <2>1 DEF Destroyed, ReadOK, IsRead
  <2> QED BY <1>2, <2>2 DEF Destroyed, EvidenceInv, Chain
<1>3. ASSUME NEW r \in Reads, CallRead(r) PROVE EvidenceInv'
  <2>1. reading[r].at = "none" /\ Expecting[r] \in DOMAIN accepted /\ UNCHANGED <<accepted, closing>>
    BY <1>3 DEF CallRead
  <2>2. CASE Fails(r, "SHUTTING_DOWN") /\ closing # "no"
    BY <2>1, <2>2, FailsKeeps
  <2>3. CASE Fails(r, "ABORTED") /\ reading[r].aborted
    BY <2>1, <2>3, FailsKeeps
  <2>4. CASE Goes(r, "fetch") /\ closing = "no"
    BY <2>1, <2>4, GoesKeeps
  <2> QED BY <1>3, <2>2, <2>3, <2>4 DEF CallRead
<1>4. ASSUME NEW r \in Reads, Abort(r) \/ DeadlinePassesOf(r) PROVE EvidenceInv'
  <2>1. ReadOK(r, reading[r]) /\ reading[r].at # "settled" /\ UNCHANGED <<accepted, closing>>
    BY <1>4 DEF EvidenceInv, Abort, DeadlinePassesOf
  <2>2. reading[r].error = Nothing BY <2>1 DEF ReadOK
  <2>3. CASE Abort(r)
    <3> DEFINE x == [reading[r] EXCEPT !.aborted = TRUE]
    <3>1. /\ IsRead(x) /\ x.at = reading[r].at /\ x.aborted = TRUE /\ x.late = reading[r].late
          /\ x.error = reading[r].error /\ x.evidence = reading[r].evidence
      BY <2>1 DEF ReadOK, IsRead
    <3>2. reading' = [reading EXCEPT ![r] = x] BY <2>3 DEF Abort, EvidenceInv
    <3> HIDE DEF x
    <3>3. ReadOK(r, x) BY <2>1, <2>2, <3>1 DEF ReadOK, IsRead, Nothing
    <3> QED BY <2>1, <3>2, <3>3, OneRead
  <2>4. CASE DeadlinePassesOf(r)
    <3> DEFINE x == [reading[r] EXCEPT !.late = TRUE]
    <3>1. /\ IsRead(x) /\ x.at = reading[r].at /\ x.aborted = reading[r].aborted /\ x.late = TRUE
          /\ x.error = reading[r].error /\ x.evidence = reading[r].evidence
      BY <2>1 DEF ReadOK, IsRead
    <3>2. reading' = [reading EXCEPT ![r] = x] BY <2>4 DEF DeadlinePassesOf, EvidenceInv
    <3> HIDE DEF x
    <3>3. ReadOK(r, x) BY <2>1, <2>2, <3>1 DEF ReadOK, IsRead, Nothing
    <3> QED BY <2>1, <3>2, <3>3, OneRead
  <2> QED BY <1>4, <2>3, <2>4
<1>5. ASSUME NEW r \in Reads, Respond(r) PROVE EvidenceInv'
  <2>1. ReadOK(r, reading[r]) /\ reading[r].at = "fetch" /\ UNCHANGED <<accepted, closing>>
    BY <1>5 DEF Respond, EvidenceInv
  <2>2. Expecting[r] \in DOMAIN accepted /\ closing # "done" BY <2>1 DEF ReadOK
  <2>3. CASE Goes(r, "body") BY <2>1, <2>2, <2>3, GoesKeeps
  <2>4. CASE \E error \in Refusals : Fails(r, Cause(r, error)) BY <2>1, <2>4, CauseKeeps
  <2>5. "UNAVAILABLE" \in Refusals BY DEF Refusals
  <2> QED BY <1>5, <2>3, <2>4, <2>5 DEF Respond
<1>6. ASSUME NEW r \in Reads, Throw(r) PROVE EvidenceInv'
  <2>1. PICK error \in Refusals : Fails(r, Cause(r, error))
    BY <1>6 DEF Throw, Refusals
  <2> QED BY <1>6, <2>1, CauseKeeps DEF Throw
<1> QED BY <1>1, <1>2, <1>3, <1>4, <1>5, <1>6, ReadBodyKeeps DEF ReaderStep

(* New evidence takes nothing from a read. *)
LEMMA EvidenceKeeps == EvidenceInv /\ [EvidenceStep]_evidenceVars => EvidenceInv'
<1> SUFFICES ASSUME EvidenceInv, [EvidenceStep]_evidenceVars PROVE EvidenceInv'
  OBVIOUS
<1>1. CASE ReaderStep BY <1>1, ReaderKeeps
<1>2. ASSUME NEW e \in Sent, Follow(e) PROVE EvidenceInv'
  <2>1. Chain' /\ \A i \in DOMAIN accepted : i \in DOMAIN accepted' /\ accepted'[i] = accepted[i]
    BY <1>2, FollowKeeps DEF EvidenceInv
  <2>2. UNCHANGED <<reading, closing>> BY <1>2 DEF Follow
  <2>3. ASSUME NEW r \in Reads PROVE ReadOK(r, reading[r])'
    <3>1. ReadOK(r, reading[r]) BY DEF EvidenceInv
    <3> QED BY <2>1, <2>2, <3>1 DEF ReadOK, IsRead
  <2> QED BY <2>1, <2>2, <2>3 DEF EvidenceInv
<1>3. CASE UNCHANGED evidenceVars
  <2>1. UNCHANGED <<accepted, reading, closing>> BY <1>3 DEF evidenceVars
  <2>2. Chain' BY <2>1 DEF EvidenceInv, Chain
  <2>3. \A r \in Reads : ReadOK(r, reading[r])' BY <2>1 DEF EvidenceInv, ReadOK, IsRead
  <2> QED BY <2>1, <2>2, <2>3 DEF EvidenceInv
<1> QED BY <1>1, <1>2, <1>3 DEF EvidenceStep

(* Evidence is a chain, and every read has behind it what it is about to give. *)
THEOREM EvidenceInvariant == EvidenceSpec => []EvidenceInv
<1>1. EvidenceInit => EvidenceInv
  <2> SUFFICES ASSUME EvidenceInit PROVE EvidenceInv
    OBVIOUS
  <2>1. accepted = <<>> /\ closing = "no" /\ reading = [r \in Reads |-> NotCalled]
    BY DEF EvidenceInit, ReaderInit
  <2>2. Chain BY <2>1 DEF Chain
  <2>3. \A r \in Reads : ReadOK(r, reading[r])
    BY <2>1 DEF ReadOK, IsRead, NotCalled, Nothing
  <2> QED BY <2>1, <2>2, <2>3 DEF EvidenceInv
<1> QED BY <1>1, EvidenceKeeps, PTL DEF EvidenceSpec

(***************************************************************************)
(* What was known of an attempt stays known and the same, over any number  *)
(* of revisions and whatever is sent.                                      *)
(***************************************************************************)
THEOREM KnowledgeAlwaysGrows == EvidenceSpec => []KnowledgeOnlyGrows
<1>1. EvidenceInv => KnowledgeOnlyGrows
  <2> SUFFICES ASSUME EvidenceInv, NEW i \in DOMAIN accepted, NEW j \in DOMAIN accepted, i < j
               PROVE  LET before == accepted[i].facts
                          after == accepted[j].facts
                          totals(f) == IF f.usage = <<>> THEN "unknown" ELSE f.usage[1].totals
                      IN  /\ \A k \in Counts : Counted(before)[k] \in {Unreported, Counted(after)[k]}
                          /\ totals(before) \in {"unknown", totals(after)}
                          /\ before.outcome \in {"unknown", after.outcome}
                          /\ before.raw \in {Nothing, after.raw}
                          /\ before.authorization.state = "denied" => ~after.dispatched
                          /\ accepted[j].revision = j /\ accepted[j].attempt = accepted[i].attempt
                          /\ accepted[i + 1].predecessor[1].digest = accepted[i].digest
    BY DEF KnowledgeOnlyGrows, Counted
  <2> DEFINE before == accepted[i].facts
             after == accepted[j].facts
             totals(f) == IF f.usage = <<>> THEN "unknown" ELSE f.usage[1].totals
  <2>1. /\ Knows(before, after)
        /\ accepted[i + 1].predecessor[1].digest = accepted[i].digest
        /\ accepted[j].revision = j /\ accepted[j].attempt = accepted[i].attempt
        /\ FactsSound(before) /\ FactsSound(after)
    BY DEF EvidenceInv, Chain, IsEvidence, Decodes
  <2> HIDE DEF before, after
  <2>2. before.authorization.state = "denied" => ~after.dispatched
    BY <2>1 DEF Knows, FactsSound
  <2>3. totals(before) \in {"unknown", totals(after)}
    <3> SUFFICES ASSUME totals(before) # "unknown" PROVE totals(before) = totals(after)
      OBVIOUS
    <3>1. before.usage # <<>> /\ before.usage[1].totals = Totals(before.usage[1])
      BY <2>1 DEF FactsSound, UsageSound
    <3>2. \A k \in {"input", "output", "total"} : before.usage[1].count[k] # Unreported
      BY <3>1, TotalsKnown
    <3>3. \A k \in {"input", "output", "total"} :
            /\ Counted(before)[k] = before.usage[1].count[k]
            /\ Counted(after)[k] = before.usage[1].count[k]
      BY <2>1, <3>1, <3>2 DEF Knows, Counts, Counted
    <3>4. after.usage # <<>>
      BY <3>2, <3>3 DEF Counted, Counts
    <3>5. \A k \in {"input", "output", "total"} : after.usage[1].count[k] = before.usage[1].count[k]
      BY <3>3, <3>4 DEF Counted
    <3>6. after.usage[1].totals = Totals(after.usage[1])
      BY <2>1, <3>4 DEF FactsSound, UsageSound
    <3>7. Totals(before.usage[1]) = Totals(after.usage[1])
      BY <3>5, TotalsSame
    <3> QED BY <3>1, <3>4, <3>6, <3>7
  <2> QED BY <2>1, <2>2, <2>3 DEF Knows, before, after
<1> QED BY <1>1, EvidenceInvariant, PTL

(***************************************************************************)
(* A read gives the sealed evidence it was asked for, or an error that     *)
(* names its cause, and none outlives the reader, for any number of reads. *)
(***************************************************************************)
THEOREM ReadsAreAlwaysAccountedFor == EvidenceSpec => []ReadsAreAccountedFor
<1>1. EvidenceInv => ReadsAreAccountedFor
  BY DEF EvidenceInv, ReadOK, IsRead, ReadsAreAccountedFor
<1> QED BY <1>1, EvidenceInvariant, PTL

===============================================================================
