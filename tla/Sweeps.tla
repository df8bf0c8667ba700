-------------------------------- MODULE Sweeps --------------------------------
(***************************************************************************)
(* The expiry workers (expire-credit-holds.ts): each sweeps again and      *)
(* again, one at a time if they can, by a lease in Redis (lease.ts). The   *)
(* lease is best effort: a worker that cannot reach Redis sweeps anyway.   *)
(*                                                                         *)
(* Redis is external. Commands of a worker reach it in order, possibly     *)
(* after their sender has stopped waiting for the answer, and an answer    *)
(* may come too late. A command that times out is sent once more           *)
(* (runIdempotentRedisOperation), then given up. Renewals are left out:    *)
(* they keep the key of a worker that sweeps from lapsing, unless they     *)
(* fail; when nobody renews it, the key lapses.                            *)
(***************************************************************************)
EXTENDS Naturals, Sequences

CONSTANTS
  Sweepers,
  Tokens,       \* random; one is taken again when nobody knows it any more
  MaxFailures   \* bound on crashes, sweeps that fail and leases that lapse early

NoToken == 0

ASSUME SweepsAssumption == NoToken \notin Tokens

VARIABLES
  owner,     \* the value of the lease's key, 0 when there is none
  sweeper,   \* what each worker is doing
  wire,      \* its commands on their way to Redis
  failures

sweepVars == <<owner, sweeper, wire, failures>>

\* A worker that has started and connected, or that could not connect.
Waiting(connected) ==
  [at |-> "wait", token |-> NoToken, connected |-> connected, sent |-> 0,
   leased |-> FALSE, lapsed |-> FALSE, stopping |-> FALSE, failed |-> FALSE]

Ended(stopping) == [Waiting(FALSE) EXCEPT !.at = "end", !.stopping = stopping]

SweepsInit ==
  /\ owner = NoToken
  /\ sweeper \in [Sweepers -> {Waiting(TRUE), Waiting(FALSE)}]
  /\ wire = [w \in Sweepers |-> <<>>]
  /\ failures = 0

Known == {owner} \cup {sweeper[w].token : w \in Sweepers}
         \cup UNION {{wire[w][i].token : i \in DOMAIN wire[w]} : w \in Sweepers}

Sends(w, op, token) == wire' = [wire EXCEPT ![w] = Append(@, [op |-> op, token |-> token])]

\* Of what the client has sent when it is destroyed, a SET may still be carried out.
Destroys(w) ==
  /\ wire' = [wire EXCEPT ![w] = <<>>]
  /\ \/ UNCHANGED owner
     \/ /\ owner = NoToken
        /\ \E i \in DOMAIN wire[w] : wire[w][i].op = "set" /\ owner' = wire[w][i].token

-------------------------------------------------------------------------------
(***************************************************************************)
(* runExclusive, up to the task.                                           *)
(***************************************************************************)
Acquire(w) ==
  LET token == CHOOSE token \in Tokens \ Known : TRUE
  IN  /\ sweeper[w].at = "wait" /\ sweeper[w].connected
      /\ Tokens \ Known # {}
      /\ sweeper' = [sweeper EXCEPT ![w] =
                      [@ EXCEPT !.at = "set", !.token = token, !.sent = 1, !.lapsed = FALSE]]
      /\ Sends(w, "set", token)
      /\ UNCHANGED <<owner, failures>>

Sweeps(w, leased) == [sweeper[w] EXCEPT !.at = "sweep", !.leased = leased, !.sent = 0]

SweepUnconnected(w) ==
  /\ sweeper[w].at = "wait" /\ ~sweeper[w].connected
  /\ sweeper' = [sweeper EXCEPT ![w] = Sweeps(w, FALSE)]
  /\ UNCHANGED <<owner, wire, failures>>

\* The pause between two sweeps, or the end of the daemon.
Pauses(w) ==
  IF sweeper[w].stopping \/ sweeper[w].failed THEN Ended(sweeper[w].stopping)
  ELSE Waiting(sweeper[w].connected)

\* Mutant: that the key is another's is taken from the answer to SET.
TakenIsSkipped(w) == Pauses(w)

\* The key was there: whose it is has to be asked.
Taken(w) == [sweeper[w] EXCEPT !.at = "get", !.sent = 0]

\* What the answers of SET NX and GET lead to.
AnswerOf(w, op, set) ==
  CASE op = "set" -> IF set THEN Sweeps(w, TRUE) ELSE Taken(w)
    [] op = "get" -> IF owner = sweeper[w].token THEN Sweeps(w, TRUE) ELSE Pauses(w)
    [] OTHER -> sweeper[w]

AskOwner(w) ==
  /\ sweeper[w].at = "get" /\ sweeper[w].sent = 0
  /\ sweeper' = [sweeper EXCEPT ![w].sent = 1]
  /\ Sends(w, "get", sweeper[w].token)
  /\ UNCHANGED <<owner, failures>>

\* A time-out, or a connection that breaks: the command is sent again, once.
Resend(w) ==
  /\ sweeper[w].at \in {"set", "get"} /\ sweeper[w].sent = 1
  /\ sweeper' = [sweeper EXCEPT ![w].sent = 2]
  /\ Sends(w, sweeper[w].at, sweeper[w].token)
  /\ UNCHANGED <<owner, failures>>

\* Redis is given up for good: the worker sweeps without the lease from then on.
RedisFails(w) ==
  /\ sweeper[w].at \in {"set", "get"}
  /\ sweeper' = [sweeper EXCEPT ![w] = [Sweeps(w, FALSE) EXCEPT !.connected = FALSE]]
  /\ Destroys(w)
  /\ UNCHANGED failures

-------------------------------------------------------------------------------
(***************************************************************************)
(* The task ends, and the lease is released by who has it.                 *)
(***************************************************************************)
Ends(w, failed) ==
  /\ sweeper[w].at = "sweep"
  /\ IF sweeper[w].leased
     THEN /\ sweeper' = [sweeper EXCEPT ![w].at = "release", ![w].failed = failed]
          /\ Sends(w, "release", sweeper[w].token)
     ELSE /\ sweeper' = [sweeper EXCEPT ![w] = IF failed THEN Ended(sweeper[w].stopping) ELSE Pauses(w)]
          /\ UNCHANGED wire
  /\ UNCHANGED owner

SweepEnds(w) == Ends(w, FALSE) /\ UNCHANGED failures

SweepFails(w) == failures < MaxFailures /\ Ends(w, TRUE) /\ failures' = failures + 1

\* The command was carried out or is lost: either way the sweep is over.
ReleaseEnds(w) ==
  /\ sweeper[w].at = "release"
  /\ sweeper' = [sweeper EXCEPT ![w] = Pauses(w)]
  /\ wire' = [wire EXCEPT ![w] = <<>>]
  /\ UNCHANGED <<owner, failures>>

\* SIGTERM or SIGINT; what the worker is doing goes on to its end.
Stop(w) ==
  /\ sweeper[w].at # "end" /\ ~sweeper[w].stopping
  /\ sweeper' = [sweeper EXCEPT ![w] = IF @.at = "wait" THEN Ended(TRUE)
                                      ELSE [@ EXCEPT !.stopping = TRUE]]
  /\ UNCHANGED <<owner, wire, failures>>

Dies(w) ==
  /\ sweeper[w].at # "end" /\ failures < MaxFailures
  /\ sweeper' = [sweeper EXCEPT ![w] = Ended(sweeper[w].stopping)]
  /\ Destroys(w)
  /\ failures' = failures + 1

\* Whoever runs the worker starts it again, unless it was to stop.
Restart(w) ==
  /\ sweeper[w].at = "end" /\ ~sweeper[w].stopping
  /\ \E connected \in BOOLEAN : sweeper' = [sweeper EXCEPT ![w] = Waiting(connected)]
  /\ UNCHANGED <<owner, wire, failures>>

-------------------------------------------------------------------------------
(***************************************************************************)
(* Redis.                                                                  *)
(***************************************************************************)
\* Mutant: the key is deleted whosever it is.
DeletedAnyway(token) == NoToken

\* RELEASE_IF_OWNER
Deleted(token) == IF owner = token THEN NoToken ELSE owner

\* The command is carried out; who still waits for an answer gets it, or it is late.
Handle(w) ==
  LET command == Head(wire[w])
      set == command.op = "set" /\ owner = NoToken
      awaited == Len(wire[w]) = 1   \* it was not sent again
  IN  /\ wire[w] # <<>>
      /\ owner' = CASE command.op = "release" -> Deleted(command.token)
                    [] set -> command.token
                    [] OTHER -> owner
      /\ wire' = [wire EXCEPT ![w] = Tail(@)]
      /\ \/ awaited /\ sweeper' = [sweeper EXCEPT ![w] = AnswerOf(w, command.op, set)]
         \/ UNCHANGED sweeper
      /\ UNCHANGED failures

\* Its owner is younger than the key's time to live, or renews it.
Alive == \E w \in Sweepers : /\ sweeper[w].token = owner
                             /\ sweeper[w].at \in {"set", "get"} \/ sweeper[w].leased

Lapse ==
  /\ owner # NoToken
  /\ IF Alive THEN failures < MaxFailures /\ failures' = failures + 1 ELSE UNCHANGED failures
  /\ owner' = NoToken
  /\ sweeper' = [w \in Sweepers |-> [sweeper[w] EXCEPT !.lapsed = @ \/ sweeper[w].token = owner]]
  /\ UNCHANGED wire

SweepStep ==
  \/ Lapse
  \/ \E w \in Sweepers :
       \/ Acquire(w) \/ SweepUnconnected(w) \/ AskOwner(w) \/ Resend(w) \/ RedisFails(w)
       \/ SweepEnds(w) \/ SweepFails(w) \/ ReleaseEnds(w)
       \/ Stop(w) \/ Dies(w) \/ Restart(w) \/ Handle(w)

\* Workers go on, commands arrive, time-outs fire, and a key that nobody renews lapses.
SweepFairness ==
  /\ WF_sweepVars(~Alive /\ Lapse)
  /\ \A w \in Sweepers :
       /\ WF_sweepVars(Acquire(w) \/ SweepUnconnected(w))
       /\ WF_sweepVars(AskOwner(w) \/ Resend(w) \/ RedisFails(w))
       /\ WF_sweepVars(SweepEnds(w)) /\ WF_sweepVars(ReleaseEnds(w))
       /\ WF_sweepVars(Restart(w)) /\ WF_sweepVars(Handle(w))

SweepsSpec == SweepsInit /\ [][SweepStep]_sweepVars

-------------------------------------------------------------------------------
(***************************************************************************)
(* Of workers that sweep by the lease there is one at a time, unless it    *)
(* lapsed for one of them: no late command, repeated command or release of *)
(* an earlier sweep takes it from its owner.                               *)
(***************************************************************************)
LeasedSweepsAreAlone ==
  \A v, w \in Sweepers :
    LET leased(x) == sweeper[x].at = "sweep" /\ sweeper[x].leased /\ ~sweeper[x].lapsed
    IN  leased(v) /\ leased(w) => v = w

(***************************************************************************)
(* Sweeping goes on as long as there are workers: neither a lease whose    *)
(* owner died, nor lost answers, which make a worker find the key taken    *)
(* by itself, stop it.                                                     *)
(***************************************************************************)
SweepingGoesOn ==
  \/ []<><<\E w \in Sweepers : SweepEnds(w)>>_sweepVars
  \/ <>[](\A w \in Sweepers : sweeper[w].stopping)
===============================================================================
