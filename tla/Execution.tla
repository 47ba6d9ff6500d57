----------------------------- MODULE Execution -----------------------------
(***************************************************************************)
(* One execution of a run in time, from the policy decision to the end of  *)
(* its transaction: executeRun of internal/platform/runs/service.go with   *)
(* the inference client of clients.go.                                     *)
(*                                                                         *)
(* Every request has a deadline (the Timeout middleware of routes.go) and  *)
(* its client may go away.  The Ollama provider makes up to three calls in *)
(* turn, each with a timeout of its own, under a root context that is the  *)
(* request's when enough of it remains and a detached one otherwise.  The  *)
(* gateway provider makes one call under the request's context.  What      *)
(* follows, the notes and the database, is under the request's context.    *)
(*                                                                         *)
(* The other rows of the run are the subject of RunService.                *)
(***************************************************************************)
EXTENDS PolicyRules, GuardrailAnswers

CONSTANTS Judged,          \* the policy inputs asked about
          Executions,      \* those that are executions and go on when allowed
          Jobs,            \* what an execution asks of the inference service
          Replies,         \* what a guardrail model may answer
          RequestTimeout,  \* of every HTTP request
          Buffer,          \* what the phase root adds to the phases' timeouts
          DefaultTimeout,  \* of a profile that sets none
          HelperFloor      \* the least default of the helper

\* guardrailModel: the profile names one.  Timeouts of 0 are not set.
JobShape ==
    [provider : {"ollama", "gateway"}, guardrails : BOOLEAN, guardrailModel : BOOLEAN,
     helper : BOOLEAN, base : Nat, override : [primary : Nat, guardrail : Nat, helper : Nat],
     configured : [guardrail : Nat, helper : Nat]]

ASSUME ExecutionAssumption ==
    /\ Executions \subseteq Judged /\ Judged \subseteq PolicyInputs
    /\ \A x \in Executions :
          x.action = "execute" /\ x.mode \in ExecutionModes /\ x.ring \in ExecutionRings
    /\ Jobs \subseteq JobShape /\ Jobs # {}
    /\ Replies \subseteq Answers
    /\ {RequestTimeout, Buffer, DefaultTimeout, HelperFloor} \subseteq Nat \ {0}

VARIABLES input, verdict,  \* the policy question and its answer
          job, now, stage,
          cutOff,          \* the error of the request's context
          root,            \* the phase root: is it the request's, and its deadline
          since,           \* when the call in progress began
          returned,        \* the guardrail status the client returns
          guardrail,       \* the status the execution makes of it
          outcome,
          reply,           \* the text of a local guardrail's answer (history)
          reported, spent, \* what came of the guardrail, in what time (history)
          cause            \* why the transaction rolled back (history)

request == <<input, verdict, job>>

heard == <<reply, reported>>

vars == <<request, now, stage, cutOff, root, since, returned, guardrail, outcome,
          heard, spent, cause>>

InTransaction == {"opening", "primary", "guardrail", "helper", "gateway", "writing"}

NoReply == [form |-> "none", word |-> "none", decision |-> "none"]

NoVerdict == [allow |-> FALSE, reason |-> "none"]

Init ==
    /\ input \in Judged
    /\ verdict = NoVerdict
    /\ job \in (IF input \in Executions THEN Jobs ELSE {CHOOSE j \in Jobs : TRUE})
    /\ now = 0 /\ since = 0 /\ spent = 0
    /\ stage = "judge"
    /\ cutOff = "none"
    /\ root = [own |-> TRUE, until |-> RequestTimeout]
    /\ returned = "guardrail_disabled" /\ guardrail = "guardrail_disabled"
    /\ outcome = "none" /\ reply = NoReply /\ reported = {} /\ cause = "none"

-----------------------------------------------------------------------------
Least(a, b) == IF a < b THEN a ELSE b

Most(a, b) == IF a < b THEN b ELSE a

\* The profile's timeout, its own overrides, then the server's configuration.
PhaseTimeouts ==
    LET base == IF job.base > 0 THEN job.base ELSE DefaultTimeout
        Given(value, default) == IF value > 0 THEN value ELSE default
    IN  [primary   |-> Given(job.override.primary, base),
         guardrail |-> Given(job.configured.guardrail, Given(job.override.guardrail, base)),
         helper    |-> Given(job.configured.helper,
                           Given(job.override.helper,
                               Least(base, Most(HelperFloor, base \div 2))))]

GuardrailInvoked == job.guardrails /\ job.guardrailModel

\* Mutant: the guardrail's timeout is left out of the sum.
ForgetsGuardrail ==
    PhaseTimeouts.primary
        + (IF job.helper THEN PhaseTimeouts.helper ELSE 0)
        + Buffer

\* What all phases may take together.
RequiredTime ==
    PhaseTimeouts.primary
        + (IF GuardrailInvoked THEN PhaseTimeouts.guardrail ELSE 0)
        + (IF job.helper THEN PhaseTimeouts.helper ELSE 0)
        + Buffer

\* A context that was cancelled is kept; one whose deadline is past or too near
\* is replaced by a fresh one, which the client cannot cancel.
PhaseRoot ==
    IF cutOff = "cancelled" \/ (cutOff = "none" /\ RequestTimeout - now >= RequiredTime)
      THEN [own |-> TRUE, until |-> RequestTimeout]
      ELSE [own |-> FALSE, until |-> now + RequiredTime]

\* The deadline of the call in progress.
CallUntil ==
    IF stage = "gateway" THEN root.until ELSE Least(since + PhaseTimeouts[stage], root.until)

\* Mutant: the gateway call is made without the request's context.
GatewayUnbounded ==
    stage # "gateway" /\ (now >= CallUntil \/ (root.own /\ cutOff # "none"))

\* Its context has ended.
CallOver == now >= CallUntil \/ (root.own /\ cutOff # "none")

-----------------------------------------------------------------------------
Judge ==
    /\ stage = "judge"
    /\ verdict' = EvaluatePolicyOutcome(input)
    /\ stage' = IF ~verdict'.allow THEN "denied"
                ELSE IF input \in Executions THEN "opening" ELSE "allowed"
    /\ UNCHANGED <<input, job, now, cutOff, root, since, returned, guardrail, outcome,
                   heard, spent, cause>>

\* Time passes unless the next thing to happen is due.
Tick ==
    /\ \/ stage \in {"opening", "writing"} /\ cutOff = "none"
       \/ stage \in {"primary", "guardrail", "helper", "gateway"} /\ ~CallOver
    /\ now' = now + 1
    /\ cutOff' = IF cutOff = "none" /\ now' >= RequestTimeout THEN "deadline" ELSE cutOff
    /\ UNCHANGED <<request, stage, root, since, returned, guardrail, outcome, heard,
                   spent, cause>>

\* The client closes the connection.
Cancel ==
    /\ stage \in InTransaction
    /\ cutOff = "none"
    /\ cutOff' = "cancelled"
    /\ UNCHANGED <<request, now, stage, root, since, returned, guardrail, outcome, heard,
                   spent, cause>>

\* The rows and the memory context are read; a deterministic run asks no model.
\* The request's context may end just after the last read.
Start ==
    /\ stage = "opening"
    /\ IF input.mode = "deterministic"
         THEN /\ stage' = "writing"
              /\ UNCHANGED <<root, since>>
         ELSE /\ stage' = IF job.provider = "gateway" THEN "gateway" ELSE "primary"
              /\ root' = IF job.provider = "gateway" THEN root ELSE PhaseRoot
              /\ since' = now
    /\ UNCHANGED <<request, now, cutOff, returned, guardrail, outcome, heard, spent, cause>>

\* The phases that follow, in order.
After(phase) ==
    IF phase = "primary" /\ GuardrailInvoked THEN "guardrail"
    ELSE IF phase # "helper" /\ job.helper THEN "helper"
    ELSE "writing"

\* The primary answers and the answer parses.
PrimaryAnswers ==
    /\ stage = "primary" /\ ~CallOver
    /\ stage' = After("primary")
    /\ since' = now
    /\ guardrail' = ResolveGuardrailStatus(job.guardrails, returned, "empty")
    /\ UNCHANGED <<request, now, cutOff, root, returned, outcome, heard, spent, cause>>

\* Mutant: a guardrail that fails is an error of the execution.
GuardrailIsFatal(status) ==
    /\ stage' = IF status \in GuardrailDeferrals THEN "rolledBack" ELSE After("guardrail")
    /\ cause' = IF status \in GuardrailDeferrals THEN "inference" ELSE cause
    /\ returned' = status
    /\ guardrail' = ResolveGuardrailStatus(job.guardrails, status, "empty")
    /\ since' = now
    /\ spent' = now - since
    /\ UNCHANGED <<request, now, cutOff, root, outcome>>

\* Whatever becomes of the guardrail, the execution goes on with a status.
GuardrailDone(status) ==
    /\ stage' = After("guardrail")
    /\ returned' = status
    /\ guardrail' = ResolveGuardrailStatus(job.guardrails, status, "empty")
    /\ since' = now
    /\ spent' = now - since
    /\ UNCHANGED <<request, now, cutOff, root, outcome, cause>>

GuardrailReplies ==
    /\ stage = "guardrail" /\ ~CallOver
    /\ \E answer \in Replies :
          /\ reply' = answer
          /\ reported' = {AnswerStatus(answer)}
          /\ GuardrailDone(AnswerStatus(answer))

\* An HTTP error, which counts as a timeout when its text says so.
GuardrailFails ==
    /\ stage = "guardrail" /\ ~CallOver
    /\ reported' = {"error"}
    /\ UNCHANGED reply
    /\ \E status \in GuardrailDeferrals : GuardrailDone(status)

\* No answer before the context of the call ends.
GuardrailCut ==
    /\ stage = "guardrail" /\ CallOver
    /\ reported' = {"noAnswer"}
    /\ UNCHANGED reply
    /\ GuardrailDone(IF root.own /\ cutOff = "cancelled" THEN "guardrail_unavailable"
                     ELSE "guardrail_timeout")

\* The helper's answer, error or timeout changes nothing else.
HelperEnds ==
    /\ stage = "helper"
    /\ stage' = After("helper")
    /\ UNCHANGED <<request, now, cutOff, root, since, returned, guardrail, outcome, heard,
                   spent, cause>>

\* A gateway that leaves guardrail_status blank is taken to have passed.
GatewayStatus(status) ==
    IF status # "blank" THEN status
    ELSE IF job.guardrails THEN "guardrail_passed" ELSE "guardrail_disabled"

GatewayAnswers ==
    /\ stage = "gateway" /\ ~CallOver
    /\ \E status \in ReturnedStatuses \cup {"blank"}, summary \in GuardrailSummaries :
          /\ reported' = {status, summary}
          /\ returned' = GatewayStatus(status)
          /\ guardrail' = ResolveGuardrailStatus(job.guardrails, returned', summary)
    /\ stage' = "writing"
    /\ UNCHANGED <<request, now, cutOff, root, since, outcome, reply, spent, cause>>

RollBack(why) ==
    /\ stage' = "rolledBack"
    /\ cause' = why
    /\ UNCHANGED <<request, now, cutOff, root, since, returned, guardrail, outcome, heard,
                   spent>>

\* The model or the gateway fails, or its time is up.
InferenceFails == stage \in {"primary", "gateway"} /\ RollBack("inference")

\* A statement or the memory service fails.
DatabaseFails == stage \in {"opening", "writing"} /\ RollBack("database")

\* Under a context that has ended nothing more can be read or written.
RequestEnds == stage \in {"opening", "writing"} /\ cutOff # "none" /\ RollBack("request")

Commit ==
    /\ stage = "writing" /\ cutOff = "none"
    /\ stage' = "committed"
    /\ outcome' = ExecutionOutcome(input.mode, guardrail)
    /\ UNCHANGED <<request, now, cutOff, root, since, returned, guardrail, heard, spent, cause>>

Next ==
    \/ Judge \/ Tick \/ Cancel \/ Start
    \/ PrimaryAnswers
    \/ GuardrailReplies \/ GuardrailFails \/ GuardrailCut
    \/ HelperEnds
    \/ GatewayAnswers
    \/ InferenceFails \/ DatabaseFails \/ RequestEnds
    \/ Commit

Spec == Init /\ [][Next]_vars
-----------------------------------------------------------------------------
\* The capabilities a ring grants (docs/EXECUTION_RINGS.md, ring definitions): the
\* metadata of runs and cycles, internal execution with state transitions and
\* artifacts, local inference, and external actions.
Granted ==
    [ring_0 |-> {"metadata"},
     ring_1 |-> {"metadata", "internal"},
     ring_2 |-> {"metadata", "internal", "inference"},
     ring_3 |-> {"metadata", "internal", "inference", "external"}]

\* What a run of this mode needs to be executed (the same document, mode-to-ring
\* mapping).
ModeNeeds(in) == IF in.mode \in InferenceModes THEN "inference" ELSE "internal"

IsHTTP(uri) == uri.scheme \in {"http", "https", "HTTP"}

\* What the document asks of each action: creating a run or a cycle is metadata, a
\* review is a state transition, an artifact is registered internally unless its
\* sink is external, and an execution needs what its mode and its endpoint need.
Capabilities(in) ==
    {CASE in.action \in {"create", "createCycle"} -> "metadata"
       [] in.action \in {"review", "attach"}      -> "internal"
       [] OTHER                                    -> ModeNeeds(in)}
        \cup (IF IsHTTP(in.uri) \/ \E t \in in.targets : IsExternalTarget(t)
                THEN {"external"} ELSE {})

\* The rules as coded, rank comparisons in a fixed order, against the capabilities of
\* the ring definitions.  The ring must be a known one (an unset ring counts as
\* ring_1), and two things apart, allowed is what the ring grants:
\*   - every action needs the capability of the run's mode, not executions alone, so
\*     the run and cycle metadata that the document grants ring_0 is always denied
\*     there, and so is a draft of an llm or dual run below ring_2;
\*   - an artifact's URI counts as external only if its scheme is written in small
\*     letters, so HTTP://... may be attached in any ring from ring_1 on.
AllowIffGranted ==
    stage # "judge" =>
        LET ring == ExecutionRingFromAny(input.ring)
            overlooked == IF IsHTTP(input.uri) /\ ~HasHTTPPrefix(input.uri)
                            THEN {"external"} ELSE {}
            needed == (Capabilities(input) \ overlooked) \cup {ModeNeeds(input)}
        IN  verdict.allow <=> ring \in ExecutionRings /\ needed \subseteq Granted[ring]

\* With a local model, whatever text the guardrail answers and whenever the request
\* ends, an execution says "passed" only if the answer says so, with two exceptions
\* (Misread): the score NaN, and a score of the JSON value true beside an allowing
\* decision.  An enabled guardrail that failed, ran out of time, answered nothing to
\* read, or that no model was named for, defers the execution; JSON with neither a
\* score nor a decision in it, other than exactly {}, is flagged instead.
NoSilentGuardrailSuccess ==
    stage = "committed" /\ input.mode \in InferenceModes /\ job.provider = "ollama" =>
        /\ guardrail = "guardrail_passed" =>
               job.guardrails /\ (SaysPass(reply) \/ Misread(reply))
        /\ job.guardrails /\ SaysNothing(reply) =>
               IF IsJSON(reply) /\ reply.form # "empty"
                 THEN guardrail = "guardrail_flagged"
                 ELSE outcome = "guardrail_deferred"

\* A model's output is never final without a person: only a deterministic run
\* completes, and an execution without a verdict has a governance event that
\* says so.
InferenceNeverCompletes ==
    outcome # "none" =>
        /\ outcome = "completed" <=> input.mode = "deterministic"
        /\ guardrail \notin GuardrailVerdicts <=> GuardrailEvents(guardrail) # {}
        /\ outcome = "guardrail_deferred" => GuardrailEvents(guardrail) = {"guardrail.deferred"}

\* A guardrail is never cut off by what was left over for it: one that does not
\* answer has had all of its own timeout, however long the primary took and
\* however near the request's deadline was, unless the client went away.
GuardrailGetsItsTime ==
    "noAnswer" \in reported => spent >= PhaseTimeouts.guardrail \/ cutOff = "cancelled"

\* Once the primary has answered, no model can undo the execution: it only rolls
\* back because its request has ended or the database failed.
EvidenceOutlivesModels ==
    stage = "rolledBack" /\ reported # {} => cause \in {"request", "database"}

\* The run's row is not held for ever: the transaction ends no later than the
\* phases' budget after the request's deadline, although a detached root takes no
\* notice of that deadline and the HTTP client has no timeout of its own.
TransactionBounded ==
    stage \in InTransaction =>
        /\ now <= RequestTimeout + RequiredTime
        /\ root.own => now <= RequestTimeout

-----------------------------------------------------------------------------
(***************************************************************************)
(* What the documents say and the code does not do.                        *)
(***************************************************************************)
\* docs/GUARDRAIL_FALLBACK_RULES.md: a "guardrail timeout with primary artifacts
\* present should not discard evidence".  An execution whose guardrail had its full
\* timeout and gave no answer is not rolled back by the deadline of its request.
TimeoutKeepsEvidence ==
    stage = "rolledBack" /\ cause = "request" /\ cutOff = "deadline" =>
        ~ ("noAnswer" \in reported /\ spent >= PhaseTimeouts.guardrail)

\* docs/GUARDRAIL_FALLBACK_RULES.md: guardrail failures "must not silently appear
\* as successful guarded execution".
PassedWasReported ==
    stage = "committed" /\ guardrail = "guardrail_passed" => "guardrail_passed" \in reported
=============================================================================
