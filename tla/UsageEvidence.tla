------------------------------ MODULE UsageEvidence ------------------------------
(***************************************************************************)
(* What the Agent (external) says of one attempt to call a model: evidence *)
(* in numbered revisions, each naming its predecessor by digest            *)
(* (agent-usage-evidence.ts), and the reader that fetches the sealed one   *)
(* (agent-usage-evidence-reader.ts).                                       *)
(*                                                                         *)
(* Who follows an attempt keeps the last evidence it accepted and takes    *)
(* the next only as its verified successor, whatever is sent to it.        *)
(* The digest of evidence is the evidence itself: no two have the same.    *)
(***************************************************************************)
EXTENDS Integers, Sequences, SequencesExt

CONSTANTS
  Candidates,   \* what may be said in evidence: its facts
  MaxRevisions, \* bound on the length of a chain
  Reads,        \* calls of AgentUsageEvidenceReader.read
  Expecting     \* the revision whose snapshot each of them has

ASSUME EvidenceAssumption == MaxRevisions \in Nat

VARIABLES
  accepted,   \* the evidence accepted so far, oldest first
  reading,    \* what each call of read is doing
  closing     \* "no", "waits" in onModuleDestroy, "done"

evidenceVars == <<accepted, reading, closing>>

Unreported == -1

Nothing == "nothing"

Counts == {"input", "output", "total", "cached", "reasoning"}

NoDigest == <<>>

Digest(e) == <<[e EXCEPT !.digest = NoDigest]>>

-------------------------------------------------------------------------------
(***************************************************************************)
(* decodeAgentUsageEvidence: what evidence says has to make sense.         *)
(***************************************************************************)
\* Of two reported counts the part is no more than the whole.
Within(u, part, whole) ==
  u.count[part] # Unreported /\ u.count[whole] # Unreported => u.count[part] <= u.count[whole]

Totals(u) ==
  LET n == [k \in {"input", "output", "total"} |-> u.count[k]]
  IN  IF \E k \in DOMAIN n : n[k] = Unreported THEN "unknown"
      ELSE IF n["total"] = 0 THEN "known_zero" ELSE "known_nonzero"

UsageSound(u) ==
  /\ u.protocol = "ollama" => u.count["cached"] = Unreported /\ u.count["reasoning"] = Unreported
  /\ Totals(u) # "unknown" => u.count["input"] + u.count["output"] = u.count["total"]
  /\ u.totals = Totals(u)
  /\ Within(u, "cached", "input") /\ Within(u, "reasoning", "output")
  /\ u.classification =
       IF u.assessment = "unsupported" \/ Totals(u) = "unknown" THEN "unknown" ELSE "partial"

FactsSound(f) ==
  /\ f.dispatched => f.authorization.state = "granted"
  /\ f.outcome = "not_dispatched" => ~f.dispatched
  /\ f.outcome \in {"completed", "failed"} => f.dispatched
  /\ f.usage # <<>> => UsageSound(f.usage[1]) /\ f.dispatched

Decodes(e) ==
  /\ (e.revision = 1) <=> (e.predecessor = <<>>)
  /\ e.predecessor # <<>> => /\ e.predecessor[1].event # e.event
                             /\ e.predecessor[1].digest # e.digest
  /\ FactsSound(e.facts)
  /\ e.digest = Digest(e)

-------------------------------------------------------------------------------
(***************************************************************************)
(* verifyAgentUsageSuccessor.                                              *)
(***************************************************************************)
\* Mutant: counts are compared only when both revisions have some.
KeepsUsageIfAny(before, after) ==
  before.usage # <<>> /\ after.usage # <<>> =>
    /\ before.usage[1].assessment = after.usage[1].assessment
    /\ before.usage[1].protocol = after.usage[1].protocol
    /\ \A k \in Counts : before.usage[1].count[k] \in {Unreported, after.usage[1].count[k]}

KeepsUsage(before, after) ==
  before.usage # <<>> =>
    /\ after.usage # <<>>
    /\ before.usage[1].assessment = after.usage[1].assessment
    /\ before.usage[1].protocol = after.usage[1].protocol
    /\ \A k \in Counts : before.usage[1].count[k] \in {Unreported, after.usage[1].count[k]}

KeepsAuthorization(before, after) ==
  /\ before.state \in {"granted", "denied"} => after = before
  /\ before.state = "requested_unknown" =>
       after.state # "not_requested" /\ after.request = before.request

\* validateKnowledge
KeepsKnowledge(before, after) ==
  /\ before.raw \in {Nothing, after.raw}
  /\ before.actual \in {Nothing, after.actual}
  /\ before.outcome \in {"unknown", after.outcome}
  /\ before.dispatched => after.dispatched
  /\ before.sealed => after.sealed
  /\ KeepsAuthorization(before.authorization, after.authorization)
  /\ KeepsUsage(before, after)

\* The same revision again, or the next one.
Succeeds(last, e) ==
  /\ Decodes(e) /\ e.attempt = last.attempt
  /\ IF e.revision = last.revision THEN e = last
     ELSE /\ e.revision = last.revision + 1
          /\ e.predecessor = <<[event |-> last.event, digest |-> last.digest]>>
          /\ e.event # last.event
          /\ KeepsKnowledge(last.facts, e.facts)

\* Whatever may be sent: of this attempt or another, after any that was accepted, or forged.
Sent ==
  LET after == {<<>>} \cup {<<[event |-> accepted[i].event, digest |-> accepted[i].digest]>> :
                              i \in DOMAIN accepted}
      written == [attempt : {1, 2}, event : {1, 2}, revision : 1 .. MaxRevisions,
                  predecessor : after, facts : Candidates, digest : {NoDigest}]
  IN  {[e EXCEPT !.digest = Digest(e)] : e \in written}
        \cup {e \in written : e.attempt = 1 /\ e.event = 1}

Follow(e) ==
  /\ IF accepted = <<>> THEN Decodes(e) /\ e.revision = 1 ELSE Succeeds(Last(accepted), e)
  /\ accepted' = IF accepted # <<>> /\ e = Last(accepted) THEN accepted ELSE Append(accepted, e)
  /\ UNCHANGED <<reading, closing>>

-------------------------------------------------------------------------------
(***************************************************************************)
(* The reader. Its errors tell what ended a read, and the end of the       *)
(* reader or of the caller come before what went wrong because of it.      *)
(***************************************************************************)
NotCalled == [at |-> "none", aborted |-> FALSE, late |-> FALSE, error |-> Nothing,
              evidence |-> <<>>]

ReaderInit == reading = [r \in Reads |-> NotCalled] /\ closing = "no"

\* Mutant: a read is waited for only once it has its answer.
OpenWithAnswer == {r \in Reads : reading[r].at = "body"}

\* The reads that onModuleDestroy waits for.
Open == {r \in Reads : reading[r].at \in {"fetch", "body", "fails"}}

Goes(r, at) == reading' = [reading EXCEPT ![r].at = at]

Fails(r, error) == reading' = [reading EXCEPT ![r].at = "settled", ![r].error = error]

Gives(r, e) == reading' = [reading EXCEPT ![r].at = "settled", ![r].evidence = <<e>>]

\* The caller has the snapshot of a revision that it accepted.
CallRead(r) ==
  /\ reading[r].at = "none" /\ Expecting[r] \in DOMAIN accepted
  /\ IF closing # "no" THEN Fails(r, "SHUTTING_DOWN")
     ELSE IF reading[r].aborted THEN Fails(r, "ABORTED")
     ELSE Goes(r, "fetch")
  /\ UNCHANGED <<accepted, closing>>

\* The caller gives up, the deadline passes, the module is destroyed.
Abort(r) ==
  /\ reading[r].at # "settled" /\ ~reading[r].aborted
  /\ reading' = [reading EXCEPT ![r].aborted = TRUE]
  /\ UNCHANGED <<accepted, closing>>

DeadlinePassesOf(r) ==
  /\ reading[r].at \in {"fetch", "body", "fails"} /\ ~reading[r].late
  /\ reading' = [reading EXCEPT ![r].late = TRUE]
  /\ UNCHANGED <<accepted, closing>>

Destroy ==
  /\ closing = "no"
  /\ closing' = "waits"
  /\ UNCHANGED <<accepted, reading>>

Destroyed ==
  /\ closing = "waits" /\ Open = {}
  /\ closing' = "done"
  /\ UNCHANGED <<accepted, reading>>

Signalled(r) == closing # "no" \/ reading[r].aborted \/ reading[r].late

\* What the read throws for an error: the signals as they are by then.
Cause(r, error) ==
  CASE closing # "no" -> "SHUTTING_DOWN"
    [] closing = "no" /\ reading[r].aborted -> "ABORTED"
    [] closing = "no" /\ ~reading[r].aborted /\ reading[r].late -> "TIMEOUT"
    [] OTHER -> error

Refusals == {"DENIED", "NOT_FOUND", "UNAVAILABLE", "CONTRACT_INVALID"}

\* The headers arrive, or a refusal, or nothing.
Respond(r) ==
  /\ reading[r].at = "fetch"
  /\ \/ ~Signalled(r) /\ Goes(r, "body")
     \/ ~Signalled(r) /\ \E error \in Refusals : Fails(r, Cause(r, error))
     \/ Fails(r, Cause(r, "UNAVAILABLE"))
  /\ UNCHANGED <<accepted, closing>>

\* decodeAgentEvidenceResponse: the envelope names what was asked for.
Enveloped(e, expected) ==
  /\ e.attempt = expected.attempt /\ e.event = expected.event
  /\ e.revision = expected.revision /\ e.digest = expected.digest

\* bindSealedAgentUsageEvidence
Bound(e, expected) == Decodes(e) /\ e.facts.sealed /\ e.event = expected.event /\ e.digest = expected.digest

\* The body, whole, too long or cut off; then nothing is awaited but the stream's end.
ReadBody(r) ==
  /\ reading[r].at = "body"
  /\ \/ Goes(r, "fails")
     \/ /\ ~Signalled(r)
        /\ \E e \in Range(accepted) :
             IF Enveloped(e, accepted[Expecting[r]]) /\ Bound(e, accepted[Expecting[r]])
             THEN Gives(r, e)
             ELSE Fails(r, "CONTRACT_INVALID")
  /\ UNCHANGED <<accepted, closing>>

Throw(r) ==
  /\ reading[r].at = "fails"
  /\ \E error \in {"UNAVAILABLE", "CONTRACT_INVALID"} : Fails(r, Cause(r, error))
  /\ UNCHANGED <<accepted, closing>>

ReaderStep ==
  \/ Destroy \/ Destroyed
  \/ \E r \in Reads : CallRead(r) \/ Abort(r) \/ DeadlinePassesOf(r)
                      \/ Respond(r) \/ ReadBody(r) \/ Throw(r)

EvidenceInit == accepted = <<>> /\ ReaderInit

EvidenceStep == ReaderStep \/ \E e \in Sent : Follow(e)

EvidenceSpec == EvidenceInit /\ [][EvidenceStep]_evidenceVars

-------------------------------------------------------------------------------
(***************************************************************************)
(* Whatever is sent, what was known of an attempt stays known and stays    *)
(* the same: no detour over further revisions changes a count, a total, an *)
(* outcome or a decision, and the revisions are an unbroken chain.         *)
(***************************************************************************)
KnowledgeOnlyGrows ==
  \A i, j \in DOMAIN accepted : i < j =>
    LET before == accepted[i].facts
        after == accepted[j].facts
        counts(f) == IF f.usage = <<>> THEN [k \in Counts |-> Unreported] ELSE f.usage[1].count
        totals(f) == IF f.usage = <<>> THEN "unknown" ELSE f.usage[1].totals
    IN  /\ \A k \in Counts : counts(before)[k] \in {Unreported, counts(after)[k]}
        /\ totals(before) \in {"unknown", totals(after)}
        /\ before.outcome \in {"unknown", after.outcome}
        /\ before.raw \in {Nothing, after.raw}
        /\ before.authorization.state = "denied" => ~after.dispatched
        /\ accepted[j].revision = j /\ accepted[j].attempt = accepted[i].attempt
        /\ accepted[i + 1].predecessor[1].digest = accepted[i].digest

(***************************************************************************)
(* A read gives the sealed evidence that was asked for or an error that    *)
(* names its cause, and none is still going on, with its connection and    *)
(* its timer, when the reader has been destroyed.                          *)
(***************************************************************************)
ReadsAreAccountedFor ==
  /\ closing = "done" => \A r \in Reads : reading[r].at \in {"none", "settled"}
  /\ \A r \in Reads :
       LET error == reading[r].error
       IN  /\ error = "SHUTTING_DOWN" => closing # "no"
           /\ error = "ABORTED" => reading[r].aborted
           /\ error = "TIMEOUT" => reading[r].late /\ ~reading[r].aborted
           /\ reading[r].at = "settled" /\ error = Nothing =>
                /\ reading[r].evidence = <<accepted[Expecting[r]]>>
                /\ reading[r].evidence[1].facts.sealed
===============================================================================
