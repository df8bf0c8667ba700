----------------------------- MODULE MCMetering -----------------------------
(***************************************************************************)
(* A small instance of Metering for TLC: the process from its start with   *)
(* one request, or requests of one kind in a process that already serves.  *)
(***************************************************************************)
EXTENDS Metering

VARIABLE serving  \* the bound: the process has started, gets no signal and keeps its clients

Between(from, to) == [dimension |-> "context", lower |-> from, upper |-> to]
Always == [dimension |-> All, lower |-> 0, upper |-> 0]

Tariff(rates) == [profile |-> "v1", rates |-> rates]

Adjacent == Tariff({Between(0, 1), Between(1, 3)})
Overlapping == Tariff({Between(0, 2), Between(1, 3)})
OtherProfile == [profile |-> "v2", rates |-> {Always}]

Publication(table, identity, effective, content) ==
  [kind |-> "publish", table |-> table, identity |-> identity,
   effective |-> effective, content |-> content]

FirstPublications == {Publication("rate", "p1", e, Adjacent) : e \in {0, 1}}
                       \cup {Publication("rate", "p1", 0, Overlapping)}
SecondPublications == {Publication("rate", "p2", e, Adjacent) : e \in {0, 1}}
                        \cup {Publication("rate", "p1", 0, Adjacent),
                              Publication("rate", "p2", 1, OtherProfile),
                              Publication("policy", "p1", 1, [profile |-> "v1"])}
Selections == {[kind |-> "select", profile |-> "v1",
                observed |-> [dimension |-> "context", value |-> 1]]}

Settlement(source, micros) ==
  [kind |-> "settle", source |-> source, hold |-> "h1", status |-> "captured", micros |-> micros]
Finish(source, status, micros) ==
  [kind |-> "finish", source |-> source, hold |-> "h1", status |-> status, micros |-> micros]

FirstSettlements == {Settlement("u1", m) : m \in {1, 2}}
SecondSettlements == {Settlement("u1", 1), Settlement("u2", 1)}
Finishes == {Finish("u1", "captured", 1), Finish("x", "captured", 1), Finish("x", "released", 0)}

MCJobs == FirstPublications \cup SecondPublications \cup Selections
            \cup FirstSettlements \cup SecondSettlements \cup Finishes

MCHoldMicros == [h1 |-> 1]

FirstPolicy == [number |-> 1, identity |-> "p0", effective |-> 0, content |-> [profile |-> "v1"]]

\* Who asks for what, in the order the requests are numbered.
Casts == (FirstPublications \X SecondPublications \X Selections)
           \cup (FirstSettlements \X SecondSettlements \X Finishes)

InitServing ==
  /\ serving = TRUE
  /\ \E c \in Casts : job = [r \in Requests |-> c[r]]
  /\ prisma = "ready" /\ connect = "done" /\ cleanup = "none"
  /\ stage = "listening" /\ drain = "idle" /\ drainFailed = FALSE
  /\ deadline = FALSE /\ signals = {} /\ process = "up"
  /\ request = [r \in Requests |-> "none"]
  /\ tx = [r \in Requests |-> "none"]

InitStarting ==
  /\ serving = FALSE /\ RuntimeInit
  /\ job = [r \in Requests |-> CHOOSE s \in Selections : TRUE]

MCInit ==
  /\ InitServing \/ InitStarting
  /\ MeteringInit
  /\ revision = [t \in Tables |-> IF t = "policy" THEN {FirstPolicy} ELSE {}]

Bound == /\ serving => signals = {} /\ \A r \in Requests : request[r] # "abandoned"
         /\ ~serving => now = 0 /\ \A r \in Requests \ {1} : request[r] = "none"

MCNext == Next /\ serving' = serving /\ Bound'

MCSpec == MCInit /\ [][MCNext]_<<vars, serving>> /\ LifecycleFairness
==============================================================================
