--------------------------- MODULE RunVocabulary ---------------------------
(***************************************************************************)
(* The vocabulary of internal/platform/runs: run types, execution modes,   *)
(* rings, statuses (types.go), the validity predicates over them and the   *)
(* two small status tables of service.go - the cycle transitions a PATCH   *)
(* may make and the status a review action sets.                           *)
(***************************************************************************)
EXTENDS Integers

RunTypes == {"replay_run", "agent_run", "week_run"}

ExecutionModes == {"deterministic", "llm", "dual"}

\* Modes that call the inference service.
InferenceModes == {"llm", "dual"}

ExecutionRings == {"ring_0", "ring_1", "ring_2", "ring_3"}

ReviewOutcomes == {"approved", "rejected", "overridden", "deferred"}

ExecutionOutcomes == {"completed", "review_pending", "guardrail_deferred"}

CycleStatuses ==
    {"pending", "running", "failed_runtime", "failed_policy", "failed", "cancelled"}
        \cup ExecutionOutcomes \cup ReviewOutcomes

RunStatuses == CycleStatuses \cup {"scheduled", "closed"}

\* A comparison object is never "deferred".
ComparisonReviewStatuses == {"review_pending", "approved", "rejected", "overridden"}

GuardrailStatuses ==
    {"guardrail_passed", "guardrail_flagged", "guardrail_timeout",
     "guardrail_unavailable", "guardrail_disabled"}

\* Guardrail statuses that say the guardrail gave a verdict.
GuardrailVerdicts == {"guardrail_passed", "guardrail_flagged"}

\* Guardrail statuses that defer the run.
GuardrailDeferrals == {"guardrail_timeout", "guardrail_unavailable"}

ReviewActions == {"approve", "reject", "override", "defer"}

ReviewStatusOf ==
    [approve |-> "approved", reject |-> "rejected",
     override |-> "overridden", defer |-> "deferred"]

-----------------------------------------------------------------------------
\* Where a PATCH of a cycle may go from each status; staying is always allowed,
\* and a status without an entry (failed, completed, overridden, ...) is final.
CycleSuccessors ==
    [s \in CycleStatuses |->
        CASE s = "pending"            -> {"running", "failed", "cancelled"}
          [] s = "running"            -> {"review_pending", "completed", "failed", "cancelled"}
          [] s = "review_pending"     -> {"approved", "rejected", "running", "deferred",
                                          "overridden", "completed"}
          [] s = "guardrail_deferred" -> {"review_pending", "deferred", "cancelled",
                                          "failed_runtime"}
          [] s = "approved"           -> {"completed"}
          [] s = "rejected"           -> {"running", "cancelled"}
          [] s = "deferred"           -> {"running"}
          [] OTHER                    -> {}]

IsValidCycleTransition(current, next) ==
    \/ current = next
    \/ next \in CycleSuccessors[current]
=============================================================================
