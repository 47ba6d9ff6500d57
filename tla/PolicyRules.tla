---------------------------- MODULE PolicyRules ----------------------------
(***************************************************************************)
(* The policy decision point and the guardrail fallback of                 *)
(* internal/platform/runs/service.go, as operators on their inputs.        *)
(*                                                                         *)
(* A policy input keeps what evaluatePolicyOutcome looks at: the action    *)
(* asked for, the ring and the mode of the run, the outbound target of the *)
(* model profile and the URI of an attached artifact.  A target or a URI   *)
(* is the pair of the two things the code asks of it: its scheme, and      *)
(* whether it names a local host (127.0.0.1, localhost or ai-precision).   *)
(***************************************************************************)
EXTENDS RunVocabulary

\* "HTTP" is either of the two before it, written with a capital.
Schemes == {"none", "http", "https", "HTTP", "other"}

Targets == [scheme : Schemes, localHost : BOOLEAN]

\* An address that is not given at all.
NoTarget == [scheme |-> "none", localHost |-> FALSE]

\* "unset" is the empty or missing ring, "unknown" any other string.
RingInputs == ExecutionRings \cup {"unset", "unknown"}

\* "unset" and "unknown" modes fall through to the deterministic minimum.
ModeInputs == ExecutionModes \cup {"unset", "unknown"}

\* run.create, run.review.*, run.cycle.create, run.artifact.attach, run.execute.
PolicyActions == {"create", "review", "createCycle", "attach", "execute"}

\* Only an execution that calls a model has a profile, whose base URL is the one
\* target, and only an attached artifact a URI.
PolicyInputs ==
    {in \in [action : PolicyActions, ring : RingInputs, mode : ModeInputs,
             targets : {{}} \cup {{t} : t \in Targets}, uri : Targets] :
        /\ in.targets # {} => in.action = "execute" /\ in.mode \in InferenceModes
        /\ in.uri # NoTarget => in.action = "attach"}

-----------------------------------------------------------------------------
RingRank(ring) ==
    CASE ring = "ring_0" -> 0
      [] ring = "ring_1" -> 1
      [] ring = "ring_2" -> 2
      [] ring = "ring_3" -> 3
      [] OTHER           -> -1

\* Mutant: dual mode is forgotten, although it calls the inference service too.
ForgetsDualMode(mode) == IF mode = "llm" THEN "ring_2" ELSE "ring_1"

MinimumRingForMode(mode) == IF mode \in InferenceModes THEN "ring_2" ELSE "ring_1"

ExecutionRingFromAny(ring) == IF ring = "unset" THEN "ring_1" ELSE ring

\* An outbound target is external when it is HTTP(S), in any spelling, and names no
\* local host.
IsExternalTarget(target) ==
    target.scheme \in {"http", "https", "HTTP"} /\ ~target.localHost

\* An artifact's URI is compared as it is spelled.
HasHTTPPrefix(uri) == uri.scheme \in {"http", "https"}

Allow == [allow |-> TRUE, reason |-> "policy_allow"]

Deny(reason) == [allow |-> FALSE, reason |-> reason]

\* The checks run in this order, so the reason is the first that fails.  The action
\* adds a condition to what an allowed review records and decides nothing.
\* An artifact URI is judged by its scheme alone: a local host does not help.
EvaluatePolicyOutcome(input) ==
    LET ring == ExecutionRingFromAny(input.ring)
        rank == RingRank(ring)
    IN  IF ring \notin ExecutionRings
          THEN Deny("invalid_execution_ring")
        ELSE IF rank < RingRank(MinimumRingForMode(input.mode))
          THEN Deny("execution_ring_too_low")
        ELSE IF rank < RingRank("ring_3") /\ \E t \in input.targets : IsExternalTarget(t)
          THEN Deny("external_target_requires_ring_3")
        ELSE IF rank < RingRank("ring_3") /\ HasHTTPPrefix(input.uri)
          THEN Deny("artifact_external_uri_requires_ring_3")
        ELSE Allow

-----------------------------------------------------------------------------
(***************************************************************************)
(* Guardrail fallback.  What the inference service returns is a status     *)
(* string ("other" stands for every string that is not a known status) and *)
(* a summary: empty, not JSON, an object whose status is a known status,   *)
(* or an object with any other status.                                     *)
(***************************************************************************)
ReturnedStatuses == GuardrailStatuses \cup {"other"}

GuardrailSummaries == GuardrailStatuses \cup {"empty", "malformed", "other"}

GuardrailStatusFromSummary(summary) ==
    CASE summary = "empty"               -> "guardrail_disabled"
      [] summary \in GuardrailStatuses   -> summary
      [] OTHER                           -> "guardrail_flagged"

\* Mutant: an answer with nothing in it is read as a guardrail that passed.
SilenceMeansPassed(enabled, returned, summary) ==
    IF ~enabled
      THEN "guardrail_disabled"
    ELSE IF returned \in GuardrailStatuses
      THEN returned
    ELSE IF summary = "empty" THEN "guardrail_passed"
    ELSE GuardrailStatusFromSummary(summary)

\* "guardrail_disabled" is not taken at its word from an enabled guardrail: the
\* summary decides then, and an empty one means the guardrail was not there.
ResolveGuardrailStatus(enabled, returned, summary) ==
    IF ~enabled
      THEN "guardrail_disabled"
    ELSE IF returned \in GuardrailStatuses \ {"guardrail_disabled"}
      THEN returned
    ELSE IF summary = "empty"
      THEN "guardrail_unavailable"
    ELSE GuardrailStatusFromSummary(summary)

\* What resolveGuardrailStatus can make of an answer, whatever it is.
GuardrailResults(enabled) ==
    {ResolveGuardrailStatus(enabled, returned, summary) :
        returned \in ReturnedStatuses, summary \in GuardrailSummaries}

\* Mutant: a passed guardrail stands in for the review.
PassedNeedsNoReview(mode, guardrail) ==
    IF mode = "deterministic" \/ guardrail = "guardrail_passed" THEN "completed"
    ELSE IF guardrail \in GuardrailDeferrals THEN "guardrail_deferred"
    ELSE "review_pending"

\* The status an execution leaves on the run, and on its cycle.
ExecutionOutcome(mode, guardrail) ==
    IF mode = "deterministic" THEN "completed"
    ELSE IF guardrail \in GuardrailDeferrals THEN "guardrail_deferred"
    ELSE "review_pending"

\* The second governance event of an execution: none after a verdict.
GuardrailEvents(guardrail) ==
    CASE guardrail \in GuardrailDeferrals     -> {"guardrail.deferred"}
      [] guardrail = "guardrail_disabled"     -> {"guardrail.disabled"}
      [] OTHER                                -> {}
=============================================================================
