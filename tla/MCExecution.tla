---------------------------- MODULE MCExecution ----------------------------
(***************************************************************************)
(* An instance of Execution.  The clock ticks every 15 seconds: a request  *)
(* has 12 ticks (3 minutes), a profile without a timeout 3 (45 seconds),   *)
(* and the margin of 3 seconds that the code adds is rounded up to a tick. *)
(***************************************************************************)
EXTENDS Execution

ThreeMinutes == 12

\* Addresses that differ in a way the rules can see.
SampleTargets ==
    {[scheme |-> "http", localHost |-> TRUE], [scheme |-> "https", localHost |-> FALSE],
     [scheme |-> "HTTP", localHost |-> FALSE], [scheme |-> "other", localHost |-> FALSE]}

\* Every action, ring and mode, with these addresses.
SampleInputs ==
    {in \in [action : PolicyActions, ring : RingInputs, mode : ModeInputs,
             targets : {{}} \cup {{t} : t \in SampleTargets},
             uri : SampleTargets \cup {NoTarget}] :
        /\ in.targets # {} => in.action = "execute" /\ in.mode \in InferenceModes
        /\ in.uri # NoTarget => in.action = "attach"}

\* A deterministic run, and one that asks a local model.
SampleExecutions ==
    {[action |-> "execute", ring |-> "ring_1", mode |-> "deterministic", targets |-> {},
      uri |-> NoTarget],
     [action |-> "execute", ring |-> "ring_2", mode |-> "llm", uri |-> NoTarget,
      targets |-> {[scheme |-> "http", localHost |-> TRUE]}]}

Unset == [primary |-> 0, guardrail |-> 0, helper |-> 0]

\* Timeouts that leave the request time to spare (45 and 30 seconds), that fill it
\* (a primary of 90 seconds and a configured guardrail of 75) and that cannot fit
\* (120 seconds for each phase).
Timeouts ==
    {[base |-> 0, override |-> Unset, configured |-> [guardrail |-> 2, helper |-> 2]],
     [base |-> 6, override |-> Unset, configured |-> [guardrail |-> 5, helper |-> 0]],
     [base |-> 3, override |-> [Unset EXCEPT !.primary = 8, !.guardrail = 8],
      configured |-> [guardrail |-> 0, helper |-> 0]]}

OllamaJobs ==
    {[provider |-> "ollama", guardrails |-> g, guardrailModel |-> m, helper |-> h,
      base |-> t.base, override |-> t.override, configured |-> t.configured] :
        g \in BOOLEAN, m \in BOOLEAN, h \in BOOLEAN, t \in Timeouts}

GatewayJobs ==
    {[provider |-> "gateway", guardrails |-> g, guardrailModel |-> TRUE, helper |-> FALSE,
      base |-> 0, override |-> Unset, configured |-> [guardrail |-> 2, helper |-> 2]] :
        g \in BOOLEAN}

\* Every word in every form, and every decision class beside a score.
SampleReplies == {a \in Answers : a.decision \in {"none", "allow", "yes"}}

SampleJobs == OllamaJobs \cup GatewayJobs
=============================================================================
