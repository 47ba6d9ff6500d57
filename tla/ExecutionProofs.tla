-------------------------- MODULE ExecutionProofs --------------------------
(***************************************************************************)
(* For any timeouts, policy inputs, jobs and answers: the policy decides   *)
(* what the rings grant, a transaction ends in time, a guardrail gets its  *)
(* time, its failure loses no evidence and is never taken for success.     *)
(***************************************************************************)
EXTENDS Execution, TLAPS

-----------------------------------------------------------------------------
(***************************************************************************)
(* The rules.                                                              *)
(***************************************************************************)
\* What a question needs of its ring, as coded: all that the document asks of the
\* action but a scheme in capitals, and what the mode needs whatever the action is.
CodedNeeds(in) ==
    (Capabilities(in) \ (IF IsHTTP(in.uri) /\ ~HasHTTPPrefix(in.uri) THEN {"external"} ELSE {}))
        \cup {ModeNeeds(in)}

\* An external target, or an artifact whose URI has the prefix in small letters.
CodedExternal(in) == (\E t \in in.targets : IsExternalTarget(t)) \/ HasHTTPPrefix(in.uri)

\* In a question a target and a URI do not meet, so a scheme in capitals is all that
\* could make it external.
LEMMA NeedsAsCoded ==
    ASSUME NEW in \in PolicyInputs
    PROVE  \A ring \in ExecutionRings :
               CodedNeeds(in) \subseteq Granted[ring] <=>
                   /\ ring # "ring_0"
                   /\ in.mode \in InferenceModes => ring \in {"ring_2", "ring_3"}
                   /\ CodedExternal(in) => ring = "ring_3"
  <1>1. /\ in.targets # {} => in.action = "execute"
        /\ in.uri # NoTarget => in.action = "attach"
    BY DEF PolicyInputs
  <1>2. IsHTTP(in.uri) => in.targets = {}
    BY <1>1 DEF IsHTTP, NoTarget
  <1>3. HasHTTPPrefix(in.uri) => IsHTTP(in.uri)
    BY DEF HasHTTPPrefix, IsHTTP
  <1> DEFINE own == CASE in.action \in {"create", "createCycle"} -> "metadata"
                      [] in.action \in {"review", "attach"}      -> "internal"
                      [] OTHER                                    -> ModeNeeds(in)
  <1>4. CodedNeeds(in) = {own, ModeNeeds(in)}
                             \cup (IF CodedExternal(in) THEN {"external"} ELSE {})
    <2>1. own # "external"
      BY DEF ModeNeeds
    <2>2. Capabilities(in) = {own} \cup (IF IsHTTP(in.uri)
                                            \/ \E t \in in.targets : IsExternalTarget(t)
                                          THEN {"external"} ELSE {})
      BY DEF Capabilities
    <2>3. ModeNeeds(in) # "external"
      BY DEF ModeNeeds
    <2> HIDE DEF own
    <2>4. PICK mode : mode = ModeNeeds(in)
      OBVIOUS
    <2>5. PICK http \in BOOLEAN : http <=> IsHTTP(in.uri)
      BY DEF IsHTTP
    <2>6. PICK small \in BOOLEAN : small <=> HasHTTPPrefix(in.uri)
      BY DEF HasHTTPPrefix
    <2>7. PICK target \in BOOLEAN : target <=> \E t \in in.targets : IsExternalTarget(t)
      OBVIOUS
    <2> QED
      BY <1>2, <1>3, <2>1, <2>2, <2>3, <2>4, <2>5, <2>6, <2>7 DEF CodedNeeds, CodedExternal
  <1>5. own \in {"metadata", "internal", ModeNeeds(in)}
    BY DEF ModeNeeds
  <1> HIDE DEF own
  <1>6. ModeNeeds(in) = IF in.mode \in InferenceModes THEN "inference" ELSE "internal"
    BY DEF ModeNeeds
  <1>7. ASSUME NEW ring \in ExecutionRings
        PROVE  {own, ModeNeeds(in)} \subseteq Granted[ring] <=>
                   /\ ring # "ring_0"
                   /\ in.mode \in InferenceModes => ring \in {"ring_2", "ring_3"}
    BY <1>5, <1>6, <1>7 DEF Granted, ExecutionRings
  <1>8. \A ring \in ExecutionRings : "external" \in Granted[ring] <=> ring = "ring_3"
    BY DEF Granted, ExecutionRings
  <1> QED
    BY <1>4, <1>7, <1>8

\* The coded order of rank comparisons and the table of capabilities agree.
LEMMA RulesGrant ==
    ASSUME NEW in \in PolicyInputs
    PROVE  LET ring == ExecutionRingFromAny(in.ring)
           IN  EvaluatePolicyOutcome(in).allow <=>
                   ring \in ExecutionRings /\ CodedNeeds(in) \subseteq Granted[ring]
  <1> DEFINE ring == ExecutionRingFromAny(in.ring)
             models == in.mode \in InferenceModes
  <1>1. ring \in ExecutionRings \cup {"unknown"}
    BY DEF PolicyInputs, RingInputs, ExecutionRingFromAny, ExecutionRings
  <1>2. EvaluatePolicyOutcome(in).allow <=>
            /\ ring \in ExecutionRings
            /\ RingRank(ring) >= IF models THEN 2 ELSE 1
            /\ CodedExternal(in) => RingRank(ring) >= 3
    <2>1. RingRank(MinimumRingForMode(in.mode)) = IF models THEN 2 ELSE 1
      BY DEF RingRank, MinimumRingForMode
    <2>2. RingRank("ring_3") = 3 /\ RingRank(ring) \in Int
      BY <1>1 DEF RingRank, ExecutionRings
    <2> QED
      BY <2>1, <2>2 DEF EvaluatePolicyOutcome, Allow, Deny, CodedExternal
  <1>3. ring \in ExecutionRings =>
            /\ RingRank(ring) \in 0..3
            /\ RingRank(ring) = 0 <=> ring = "ring_0"
            /\ RingRank(ring) >= 2 <=> ring \in {"ring_2", "ring_3"}
            /\ RingRank(ring) >= 3 <=> ring = "ring_3"
    BY DEF ExecutionRings, RingRank
  <1>4. ring \in ExecutionRings =>
            (CodedNeeds(in) \subseteq Granted[ring] <=>
                 /\ ring # "ring_0"
                 /\ models => ring \in {"ring_2", "ring_3"}
                 /\ CodedExternal(in) => ring = "ring_3")
    BY NeedsAsCoded
  <1> HIDE DEF ring, models
  <1>5. (RingRank(ring) >= IF models THEN 2 ELSE 1) <=>
            (RingRank(ring) >= 1 /\ (models => RingRank(ring) >= 2))
    BY <1>1, <1>2, <1>3 DEF RingRank, ExecutionRings
  <1> QED
    BY <1>2, <1>3, <1>4, <1>5 DEF ring

\* What a guardrail model's text is taken for.
LEMMA AnswersRead ==
    ASSUME NEW a \in Answers
    PROVE  /\ AnswerStatus(a) \in {"guardrail_flagged", "guardrail_passed",
                                   "guardrail_unavailable"}
           /\ AnswerStatus(a) = "guardrail_passed" => SaysPass(a) \/ Misread(a)
           /\ SaysNothing(a) =>
                  AnswerStatus(a) = IF IsJSON(a) /\ a.form # "empty"
                                      THEN "guardrail_flagged" ELSE "guardrail_unavailable"
  <1>1. a.form \in Forms /\ a.word \in Words /\ a.decision \in Words
        /\ (a.form \in {"unscored", "empty"} => a.word = "none")
        /\ (a.form \in Objects \ {"empty"} \/ a.decision = "none")
    BY DEF Answers
  <1> QED
    BY <1>1
       DEF AnswerStatus, ObjectStatus, ScoreStatus, HasScore, IsJSON, Objects, SaysPass,
           Misread, SaysNothing, Forms, Words, YesTokens, NoTokens, JSONNumbers, GoNumbers,
           JSONLiterals

\* Whatever the client returns is resolved to a known status.
LEMMA StatusResolved ==
    ASSUME NEW enabled \in BOOLEAN, NEW returned1 \in ReturnedStatuses,
           NEW summary \in GuardrailSummaries
    PROVE  ResolveGuardrailStatus(enabled, returned1, summary) \in GuardrailStatuses
  BY DEF ResolveGuardrailStatus, GuardrailStatusFromSummary, ReturnedStatuses,
         GuardrailSummaries, GuardrailStatuses, GuardrailVerdicts, GuardrailDeferrals


-----------------------------------------------------------------------------
(***************************************************************************)
(* Times.                                                                  *)
(***************************************************************************)
Typed ==
    /\ input \in Judged /\ job \in Jobs
    /\ now \in Nat /\ since \in Nat /\ spent \in Nat /\ since <= now
    /\ cutOff \in {"none", "deadline", "cancelled"}
    /\ root.own \in BOOLEAN /\ root.until \in Nat
    /\ stage \in InTransaction \cup {"judge", "allowed", "denied", "committed", "rolledBack"}

\* While nothing has cut the request off its deadline is to come; a root that is
\* the request's ends with it, a detached one within its budget.
Deadlines ==
    /\ cutOff = "none" => now < RequestTimeout
    /\ cutOff = "deadline" => now >= RequestTimeout
    /\ root.own => root.until = RequestTimeout
    /\ ~root.own => root.until <= RequestTimeout + RequiredTime
    /\ stage \in {"judge", "opening", "gateway"} => root.own
    /\ stage \in InTransaction \cup {"judge"} => now <= RequestTimeout \/ now <= root.until

\* What is left of the root when the primary, and then the guardrail, begins.
Budget ==
    /\ stage = "primary" /\ GuardrailInvoked =>
           \/ cutOff = "cancelled"
           \/ since + PhaseTimeouts.primary + PhaseTimeouts.guardrail <= root.until
    /\ stage = "guardrail" =>
           cutOff = "cancelled" \/ since + PhaseTimeouts.guardrail <= root.until

Timed == Typed /\ Deadlines /\ Budget /\ GuardrailGetsItsTime

\* The timeouts of a job are numbers, and the budget covers primary and guardrail.
LEMMA PhaseTimes ==
    ASSUME job \in Jobs
    PROVE  /\ PhaseTimeouts.primary \in Nat /\ PhaseTimeouts.guardrail \in Nat
           /\ PhaseTimeouts.helper \in Nat /\ RequiredTime \in Nat
           /\ GuardrailInvoked =>
                  RequiredTime >= PhaseTimeouts.primary + PhaseTimeouts.guardrail
  <1>1. /\ job \in JobShape /\ Buffer \in Nat /\ DefaultTimeout \in Nat /\ HelperFloor \in Nat
    BY ExecutionAssumption
  <1>2. /\ job.base \in Nat /\ job.helper \in BOOLEAN
        /\ job.override.primary \in Nat /\ job.override.guardrail \in Nat
        /\ job.override.helper \in Nat
        /\ job.configured.guardrail \in Nat /\ job.configured.helper \in Nat
    BY <1>1 DEF JobShape
  <1>3. /\ PhaseTimeouts.primary \in Nat /\ PhaseTimeouts.guardrail \in Nat
        /\ PhaseTimeouts.helper \in Nat
    <2>1. \A base \in Nat : Least(base, Most(HelperFloor, base \div 2)) \in Nat
      BY <1>1 DEF Least, Most
    <2> QED
      BY <1>1, <1>2, <2>1 DEF PhaseTimeouts
  <1> QED
    BY <1>1, <1>2, <1>3 DEF RequiredTime

\* The phases' timeouts are those of the job.
LEMMA JobKept ==
    ASSUME job' = job
    PROVE  /\ PhaseTimeouts' = PhaseTimeouts /\ RequiredTime' = RequiredTime
           /\ GuardrailInvoked' = GuardrailInvoked
  BY DEF PhaseTimeouts, RequiredTime, GuardrailInvoked

\* A request and its job never change.
LEMMA NextKeepsRequest == [Next]_vars => input' = input /\ job' = job
  BY DEF Next, vars, request, Judge, Tick, Cancel, Start, PrimaryAnswers, GuardrailReplies,
         GuardrailFails, GuardrailCut, GuardrailDone, HelperEnds, GatewayAnswers,
         InferenceFails, DatabaseFails, RequestEnds, RollBack, Commit

\* The invariant of time at the start.
LEMMA InitTimed == Init => Timed
  <1> SUFFICES ASSUME Init
               PROVE  Timed
    OBVIOUS
  <1>1. job \in Jobs
    BY ExecutionAssumption DEF Init
  <1>2. RequestTimeout \in Nat /\ RequestTimeout > 0 /\ RequiredTime \in Nat
    BY <1>1, PhaseTimes, ExecutionAssumption
  <1> QED
    BY <1>1, <1>2 DEF Init, Timed, Typed, Deadlines, Budget, GuardrailGetsItsTime, InTransaction

\* Each step keeps the types.
LEMMA TypedStep == Typed /\ [Next]_vars => Typed'
  <1> SUFFICES ASSUME Typed, [Next]_vars
               PROVE  Typed'
    OBVIOUS
  <1>1. input' = input /\ job' = job
    BY NextKeepsRequest
  <1>2. RequestTimeout \in Nat /\ RequiredTime \in Nat
    BY PhaseTimes, ExecutionAssumption DEF Typed
  <1> USE DEF Typed, InTransaction
  <1>3. CASE Judge
    BY <1>1, <1>3 DEF Judge
  <1>4. CASE Tick \/ Cancel
    BY <1>1, <1>4 DEF Tick, Cancel
  <1>5. CASE Start
    <2>1. PhaseRoot.own \in BOOLEAN /\ PhaseRoot.until \in Nat
      BY <1>2 DEF PhaseRoot
    <2> QED
      BY <1>1, <1>5, <2>1 DEF Start
  <1>6. CASE PrimaryAnswers \/ HelperEnds
    BY <1>1, <1>6 DEF PrimaryAnswers, HelperEnds, After
  <1>7. ASSUME NEW status, GuardrailDone(status)
        PROVE  Typed'
    BY <1>1, <1>7 DEF GuardrailDone, After
  <1>8. CASE GatewayAnswers \/ Commit
    BY <1>1, <1>8 DEF GatewayAnswers, Commit
  <1>9. CASE InferenceFails \/ DatabaseFails \/ RequestEnds
    BY <1>1, <1>9 DEF InferenceFails, DatabaseFails, RequestEnds, RollBack
  <1>10. CASE UNCHANGED vars
    BY <1>10 DEF vars, request
  <1> QED
    BY <1>3, <1>4, <1>5, <1>6, <1>7, <1>8, <1>9, <1>10
       DEF Next, GuardrailReplies, GuardrailFails, GuardrailCut

\* A phase starts with its timeout ahead and time never passes what is due.
LEMMA DeadlinesStep == Typed /\ Deadlines /\ [Next]_vars => Deadlines'
  <1> SUFFICES ASSUME Typed, Deadlines, [Next]_vars
               PROVE  Deadlines'
    OBVIOUS
  <1>1. job' = job /\ RequiredTime' = RequiredTime
    BY NextKeepsRequest, JobKept
  <1>2. RequestTimeout \in Nat /\ RequiredTime \in Nat
    BY PhaseTimes, ExecutionAssumption DEF Typed
  <1> USE DEF Typed, Deadlines, InTransaction
  <1>3. CASE Judge
    BY <1>1, <1>2, <1>3 DEF Judge
  <1>4. CASE Tick
    <2>1. stage \in {"primary", "guardrail", "helper", "gateway"} => now < root.until
      <3>1. stage \in {"primary", "guardrail", "helper", "gateway"} => ~CallOver
        BY <1>4 DEF Tick
      <3>2. stage \in {"primary", "guardrail", "helper"} => PhaseTimeouts[stage] \in Nat
        BY PhaseTimes
      <3> QED
        BY <3>1, <3>2 DEF CallOver, CallUntil, Least
    <2> QED
      BY <1>1, <1>2, <1>4, <2>1 DEF Tick
  <1>5. CASE Cancel
    BY <1>1, <1>2, <1>5 DEF Cancel
  <1>6. CASE Start
    <2>1. PhaseRoot \in {[own |-> TRUE, until |-> RequestTimeout],
                         [own |-> FALSE, until |-> now + RequiredTime]}
      BY DEF PhaseRoot
    <2>2. stage = "opening" /\ now <= RequestTimeout
      BY <1>6 DEF Start
    <2>3. /\ now' = now /\ cutOff' = cutOff
          /\ \/ stage' = "writing" /\ root' = root
             \/ stage' = "gateway" /\ root' = root
             \/ stage' = "primary" /\ root' = PhaseRoot
      BY <1>6 DEF Start
    <2> QED
      BY <1>1, <1>2, <2>1, <2>2, <2>3
  <1>7. CASE PrimaryAnswers \/ HelperEnds
    BY <1>1, <1>2, <1>7 DEF PrimaryAnswers, HelperEnds, After
  <1>8. ASSUME NEW status, GuardrailDone(status), stage = "guardrail"
        PROVE  Deadlines'
    BY <1>1, <1>2, <1>8 DEF GuardrailDone, After
  <1>9. CASE GatewayAnswers \/ Commit
    BY <1>1, <1>2, <1>9 DEF GatewayAnswers, Commit
  <1>10. CASE InferenceFails \/ DatabaseFails \/ RequestEnds
    BY <1>1, <1>2, <1>10 DEF InferenceFails, DatabaseFails, RequestEnds, RollBack
  <1>11. CASE UNCHANGED vars
    BY <1>1, <1>11 DEF vars, request
  <1> QED
    BY <1>3, <1>4, <1>5, <1>6, <1>7, <1>8, <1>9, <1>10, <1>11
       DEF Next, GuardrailReplies, GuardrailFails, GuardrailCut


\* What the phases behind and ahead may take stays within the budget.
LEMMA BudgetStep == Timed /\ [Next]_vars => Budget'
  <1> SUFFICES ASSUME Timed, [Next]_vars
               PROVE  Budget'
    OBVIOUS
  <1>1. /\ job' = job /\ PhaseTimeouts' = PhaseTimeouts
        /\ GuardrailInvoked' = GuardrailInvoked
    BY NextKeepsRequest, JobKept
  <1>2. /\ RequestTimeout \in Nat /\ RequiredTime \in Nat
        /\ PhaseTimeouts.primary \in Nat /\ PhaseTimeouts.guardrail \in Nat
        /\ GuardrailInvoked =>
               RequiredTime >= PhaseTimeouts.primary + PhaseTimeouts.guardrail
    BY PhaseTimes, ExecutionAssumption DEF Timed, Typed
  <1> USE DEF Timed, Typed, Deadlines, Budget
  <1>3. CASE Judge
    BY <1>1, <1>3 DEF Judge
  <1>4. CASE Tick \/ Cancel
    BY <1>1, <1>2, <1>4 DEF Tick, Cancel
  <1>5. CASE Start
    <2>1. /\ stage = "opening" /\ now' = now /\ cutOff' = cutOff
          /\ stage' # "guardrail"
          /\ stage' = "primary" => since' = now /\ root' = PhaseRoot
      BY <1>5 DEF Start
    <2>2. /\ PhaseRoot.until \in Nat
          /\ cutOff = "cancelled" \/ PhaseRoot.until >= now + RequiredTime
      BY <1>2 DEF PhaseRoot
    <2> QED
      BY <1>1, <1>2, <2>1, <2>2
  <1>6. CASE PrimaryAnswers
    <2>1. /\ stage = "primary" /\ stage' # "primary" /\ now' = now /\ since' = now
          /\ cutOff' = cutOff /\ root' = root /\ ~CallOver
          /\ stage' = "guardrail" => GuardrailInvoked
      BY <1>6 DEF PrimaryAnswers, After
    <2>2. now < since + PhaseTimeouts.primary
      BY <1>2, <2>1 DEF CallOver, CallUntil, Least
    <2> QED
      BY <1>1, <1>2, <2>1, <2>2
  <1>7. ASSUME NEW status, GuardrailDone(status), stage = "guardrail"
        PROVE  Budget'
    BY <1>7 DEF GuardrailDone, After
  <1>8. CASE HelperEnds \/ GatewayAnswers \/ Commit
    BY <1>8 DEF HelperEnds, After, GatewayAnswers, Commit
  <1>9. CASE InferenceFails \/ DatabaseFails \/ RequestEnds
    BY <1>9 DEF InferenceFails, DatabaseFails, RequestEnds, RollBack
  <1>10. CASE UNCHANGED vars
    BY <1>1, <1>10 DEF vars, request
  <1> QED
    BY <1>3, <1>4, <1>5, <1>6, <1>7, <1>8, <1>9, <1>10
       DEF Next, GuardrailReplies, GuardrailFails, GuardrailCut

\* No step takes time from a guardrail that runs.
LEMMA TimeGivenStep == Timed /\ [Next]_vars => GuardrailGetsItsTime'
  <1> SUFFICES ASSUME Timed, [Next]_vars
               PROVE  GuardrailGetsItsTime'
    OBVIOUS
  <1>1. PhaseTimeouts' = PhaseTimeouts /\ PhaseTimeouts.guardrail \in Nat
    BY NextKeepsRequest, JobKept, PhaseTimes DEF Timed, Typed
  <1>2. cutOff = "cancelled" => cutOff' = "cancelled"
    BY DEF Next, vars, request, Judge, Tick, Cancel, Start, PrimaryAnswers, GuardrailReplies,
           GuardrailFails, GuardrailCut, GuardrailDone, HelperEnds, GatewayAnswers,
           InferenceFails, DatabaseFails, RequestEnds, RollBack, Commit
  <1> USE DEF Timed, GuardrailGetsItsTime
  <1>3. CASE reported' = reported /\ spent' = spent
    BY <1>1, <1>2, <1>3
  <1>4. CASE GuardrailCut
    <2>1. /\ stage = "guardrail" /\ CallOver /\ spent' = now - since /\ cutOff' = cutOff
      BY <1>4 DEF GuardrailCut, GuardrailDone
    <2>2. CASE cutOff = "cancelled"
      BY <2>1, <2>2
    <2>3. CASE cutOff # "cancelled"
      <3>1. since + PhaseTimeouts.guardrail <= root.until
        BY <2>1, <2>3 DEF Budget
      <3>2. now >= since + PhaseTimeouts.guardrail
        <4>1. RequestTimeout \in Nat
          BY ExecutionAssumption
        <4> QED
          BY <1>1, <2>1, <2>3, <3>1, <4>1 DEF CallOver, CallUntil, Least, Deadlines, Typed
      <3>3. spent' >= PhaseTimeouts.guardrail
        BY <1>1, <2>1, <3>2 DEF Typed
      <3> QED
        BY <1>1, <3>3
    <2> QED
      BY <2>2, <2>3
  <1>5. CASE GuardrailReplies
    <2>1. PICK a \in Replies : reported' = {AnswerStatus(a)}
      BY <1>5 DEF GuardrailReplies
    <2>2. a \in Answers
      BY ExecutionAssumption
    <2>3. AnswerStatus(a) # "noAnswer"
      BY <2>2, AnswersRead
    <2> QED
      BY <2>1, <2>3
  <1>6. CASE GuardrailFails
    BY <1>6 DEF GuardrailFails
  <1>7. CASE GatewayAnswers
    BY <1>7 DEF GatewayAnswers, ReturnedStatuses, GuardrailSummaries, GuardrailStatuses
  <1> QED
    BY <1>3, <1>4, <1>5, <1>6, <1>7
       DEF Next, vars, heard, Judge, Tick, Cancel, Start, PrimaryAnswers, HelperEnds,
           InferenceFails, DatabaseFails, RequestEnds, RollBack, Commit

\* Time, deadlines and budget, in every execution.
LEMMA TimedInvariant == Spec => []Timed
  <1>1. Timed /\ [Next]_vars => Timed'
    BY TypedStep, DeadlinesStep, BudgetStep, TimeGivenStep DEF Timed
  <1> QED
    BY <1>1, InitTimed, PTL DEF Spec

\* For any timeouts: a guardrail without an answer had the whole of its timeout,
\* unless the client went away.
THEOREM GuardrailGetsItsTimeHolds == Spec => []GuardrailGetsItsTime
  BY TimedInvariant, PTL DEF Timed

\* For any timeouts a transaction ends within the phases' budget after the request's
\* deadline.
THEOREM TransactionBoundedHolds == Spec => []TransactionBounded
  <1>1. Timed => TransactionBounded
    <2> SUFFICES ASSUME Timed, stage \in InTransaction
                 PROVE  /\ now <= RequestTimeout + RequiredTime
                        /\ root.own => now <= RequestTimeout
      BY DEF TransactionBounded
    <2>1. RequestTimeout \in Nat /\ RequiredTime \in Nat
      BY PhaseTimes, ExecutionAssumption DEF Timed, Typed
    <2> QED
      BY <2>1 DEF Timed, Typed, Deadlines
  <1> QED
    BY <1>1, TimedInvariant, PTL


-----------------------------------------------------------------------------
(***************************************************************************)
(* What the phases leave of the root.                                      *)
(***************************************************************************)
Phases == {"primary", "guardrail", "helper"}

\* What a phase and those after it may take, with the buffer.
Ahead(phase) ==
    PhaseTimeouts[phase]
        + (IF phase = "primary" /\ GuardrailInvoked THEN PhaseTimeouts.guardrail ELSE 0)
        + (IF phase # "helper" /\ job.helper THEN PhaseTimeouts.helper ELSE 0)
        + Buffer

\* What is ahead when the phase is over.
Behind(phase) == IF After(phase) = "writing" THEN Buffer ELSE Ahead(After(phase))

\* No phase outlasts its timeout, and what is ahead fits under the root.
Spare ==
    stage \in Phases =>
        /\ now <= since + PhaseTimeouts[stage]
        /\ cutOff = "cancelled" \/ since + Ahead(stage) <= root.until

\* Unless the client has gone away, the writes that follow the phases begin with the
\* buffer left of the root, be it the request's own or a detached one: evidence is
\* lost to a deadline only under a detached root, or when the writes take longer than
\* the buffer (buildOllamaPhaseRootContext).
PhasesLeaveBuffer ==
    [][(stage \in Phases /\ stage' = "writing")
         => cutOff = "cancelled" \/ now + Buffer <= root.until]_vars

\* What is ahead of a phase is its own time and what is ahead of the next.
LEMMA AheadAdds ==
    ASSUME job \in Jobs, NEW phase \in Phases
    PROVE  /\ PhaseTimeouts[phase] \in Nat /\ Behind(phase) \in Nat
           /\ Ahead(phase) = PhaseTimeouts[phase] + Behind(phase)
           /\ Ahead("primary") = RequiredTime
           /\ After(phase) \in {"guardrail", "helper", "writing"}
  <1>1. /\ PhaseTimeouts.primary \in Nat /\ PhaseTimeouts.guardrail \in Nat
        /\ PhaseTimeouts.helper \in Nat /\ Buffer \in Nat
    BY PhaseTimes, ExecutionAssumption
  <1>2. CASE phase = "primary"
    BY <1>1, <1>2 DEF Ahead, Behind, After, RequiredTime
  <1>3. CASE phase = "guardrail"
    BY <1>1, <1>3 DEF Ahead, Behind, After, RequiredTime
  <1>4. CASE phase = "helper"
    BY <1>1, <1>4 DEF Ahead, Behind, After, RequiredTime
  <1> QED
    BY <1>2, <1>3, <1>4 DEF Phases

\* Who leaves a phase is at most its timeout after its begin.
LEMMA PhaseLeft ==
    ASSUME Typed, Spare, stage \in Phases, cutOff # "cancelled"
    PROVE  now + Behind(stage) <= root.until
  BY AheadAdds DEF Typed, Spare

\* The next phase begins with what is ahead of it.
LEMMA PhaseEntered ==
    ASSUME Typed, Spare, stage \in Phases, stage' = After(stage), since' = now,
           now' = now, cutOff' = cutOff, root' = root, job' = job
    PROVE  Spare'
  <1>1. /\ PhaseTimeouts' = PhaseTimeouts /\ job' = job
        /\ GuardrailInvoked' = GuardrailInvoked
    BY JobKept
  <1>2. CASE After(stage) = "writing"
    BY <1>2 DEF Spare, Phases
  <1>3. CASE After(stage) \in {"guardrail", "helper"}
    <2>1. PICK phase \in Phases : phase = After(stage)
      BY <1>3 DEF Phases
    <2>2. Behind(stage) = Ahead(phase) /\ PhaseTimeouts[phase] \in Nat
      BY <1>3, <2>1, AheadAdds DEF Behind, Typed
    <2>3. Ahead(phase)' = Ahead(phase)
      BY <1>1 DEF Ahead
    <2>4. stage' = phase /\ Ahead(stage)' = Ahead(phase)'
      BY <2>1
    <2> QED
      BY <1>1, <2>2, <2>3, <2>4, PhaseLeft DEF Spare, Typed
  <1> QED
    BY <1>2, <1>3, AheadAdds DEF Typed

\* Each step keeps time to spare.
LEMMA SpareStep == Typed /\ Spare /\ [Next]_vars => Spare'
  <1> SUFFICES ASSUME Typed, Spare, [Next]_vars
               PROVE  Spare'
    OBVIOUS
  <1>1. /\ PhaseTimeouts' = PhaseTimeouts /\ job' = job
        /\ GuardrailInvoked' = GuardrailInvoked
    BY NextKeepsRequest, JobKept
  <1>2. \A phase : Ahead(phase)' = Ahead(phase)
    BY <1>1 DEF Ahead
  <1>3. ASSUME UNCHANGED <<now, stage, root, since>>, cutOff = "cancelled" => cutOff' = cutOff
        PROVE  Spare'
    BY <1>1, <1>2, <1>3 DEF Spare
  <1>4. CASE Tick
    <2>1. /\ UNCHANGED <<stage, root, since>> /\ now' = now + 1
          /\ cutOff = "cancelled" => cutOff' = cutOff
      BY <1>4 DEF Tick
    <2>2. stage \in Phases => now < since + PhaseTimeouts[stage]
      <3>1. stage \in Phases => ~CallOver /\ stage # "gateway"
        BY <1>4 DEF Tick, Phases
      <3> QED
        BY <3>1, AheadAdds DEF CallOver, CallUntil, Least, Typed
    <2>3. stage \in Phases => PhaseTimeouts[stage] \in Nat
      BY AheadAdds DEF Typed
    <2> QED
      BY <1>1, <1>2, <2>1, <2>2, <2>3 DEF Spare, Typed
  <1>5. CASE Start
    <2>1. CASE stage' = "primary"
      <3>1. since' = now /\ now' = now /\ cutOff' = cutOff /\ root' = PhaseRoot
        BY <1>5, <2>1 DEF Start
      <3>2. /\ PhaseTimeouts.primary \in Nat /\ Ahead("primary") = RequiredTime
            /\ RequiredTime \in Nat /\ RequestTimeout \in Nat
        BY AheadAdds, PhaseTimes, ExecutionAssumption DEF Typed, Phases
      <3>3. cutOff = "cancelled" \/ now + RequiredTime <= PhaseRoot.until
        BY <3>2 DEF PhaseRoot, Typed
      <3> QED
        BY <1>1, <1>2, <2>1, <3>1, <3>2, <3>3 DEF Spare, Typed
    <2>2. CASE stage' # "primary"
      BY <1>5, <2>2 DEF Start, Spare, Phases
    <2> QED
      BY <2>1, <2>2
  <1>6. CASE PrimaryAnswers
    BY <1>1, <1>6, PhaseEntered DEF PrimaryAnswers, Phases
  <1>7. ASSUME NEW status, GuardrailDone(status), stage = "guardrail"
        PROVE  Spare'
    BY <1>1, <1>7, PhaseEntered DEF GuardrailDone, Phases, request
  <1>8. CASE Judge \/ HelperEnds \/ GatewayAnswers \/ Commit
            \/ InferenceFails \/ DatabaseFails \/ RequestEnds
    BY <1>8 DEF Judge, HelperEnds, After, GatewayAnswers, Commit, InferenceFails,
                DatabaseFails, RequestEnds, RollBack, Spare, Phases
  <1>9. CASE Cancel \/ UNCHANGED vars
    BY <1>3, <1>9 DEF Cancel, vars
  <1> QED
    BY <1>4, <1>5, <1>6, <1>7, <1>8, <1>9
       DEF Next, GuardrailReplies, GuardrailFails, GuardrailCut

\* For any timeouts: when the phases are over, the buffer is left of their root.
THEOREM PhasesLeaveBufferHolds == Spec => PhasesLeaveBuffer
  <1>1. Init => Spare
    BY DEF Init, Spare, Phases
  <1>2. Timed /\ Spare /\ [Next]_vars => Spare'
    BY SpareStep DEF Timed
  <1>3. Timed /\ Spare /\ [Next]_vars =>
            [(stage \in Phases /\ stage' = "writing")
               => cutOff = "cancelled" \/ now + Buffer <= root.until]_vars
    <2> SUFFICES ASSUME Timed, Spare, Next, stage \in Phases, stage' = "writing",
                        cutOff # "cancelled"
                 PROVE  now + Buffer <= root.until
      OBVIOUS
    <2>1. After(stage) = "writing"
      BY DEF Next, Judge, Tick, Cancel, Start, PrimaryAnswers, GuardrailReplies,
             GuardrailFails, GuardrailCut, GuardrailDone, HelperEnds, GatewayAnswers,
             InferenceFails, DatabaseFails, RequestEnds, RollBack, Commit, Phases
    <2> QED
      BY <2>1, PhaseLeft DEF Behind, Timed
  <1> QED
    BY <1>1, <1>2, <1>3, TimedInvariant, PTL DEF Spec, PhasesLeaveBuffer


-----------------------------------------------------------------------------
(***************************************************************************)
(* What is decided and recorded.                                           *)
(***************************************************************************)
Judgement == stage # "judge" => verdict = EvaluatePolicyOutcome(input)

\* The verdict is the one of the rules.
LEMMA JudgementStep == Typed /\ Judgement /\ [Next]_vars => Judgement'
  <1> SUFFICES ASSUME Typed, Judgement, [Next]_vars
               PROVE  Judgement'
    OBVIOUS
  <1>1. input' = input
    BY NextKeepsRequest
  <1>2. CASE Judge
    BY <1>1, <1>2 DEF Judge, Judgement
  <1>3. CASE ~Judge
    <2>1. verdict' = verdict /\ (stage = "judge" => stage' = "judge")
      BY <1>3
         DEF Next, vars, request, Tick, Cancel, Start, PrimaryAnswers, GuardrailReplies,
             GuardrailFails, GuardrailCut, GuardrailDone, HelperEnds, GatewayAnswers,
             InferenceFails, DatabaseFails, RequestEnds, RollBack, Commit, InTransaction
    <2> QED
      BY <1>1, <2>1 DEF Judgement
  <1> QED
    BY <1>2, <1>3

\* For any policy inputs: the rules decide what the rings grant, but for the metadata
\* of ring_0 and the schemes in capitals that AllowIffGranted names.
THEOREM AllowIffGrantedHolds == Spec => []AllowIffGranted
  <1>1. Init => Judgement
    BY DEF Init, Judgement
  <1>2. Timed /\ Judgement /\ [Next]_vars => Judgement'
    BY JudgementStep DEF Timed
  <1>3. Timed /\ Judgement => AllowIffGranted
    <2> SUFFICES ASSUME Timed, Judgement, stage # "judge"
                 PROVE  LET ring == ExecutionRingFromAny(input.ring)
                        IN  verdict.allow <=>
                              /\ ring \in ExecutionRings
                              /\ CodedNeeds(input) \subseteq Granted[ring]
      BY DEF AllowIffGranted, CodedNeeds
    <2>1. input \in PolicyInputs
      BY ExecutionAssumption DEF Timed, Typed
    <2> QED
      BY <2>1, RulesGrant DEF Judgement
  <1> QED
    BY <1>1, <1>2, <1>3, TimedInvariant, PTL DEF Spec

\* An outcome is that of the guardrail's status; nothing is reported before the
\* primary has answered, and then no model can roll back.
Recorded ==
    /\ returned \in ReturnedStatuses /\ guardrail \in GuardrailStatuses
    /\ outcome # "none" => outcome = ExecutionOutcome(input.mode, guardrail)
    /\ stage = "committed" <=> outcome # "none"
    /\ stage \in {"judge", "opening", "primary", "gateway"} => reported = {}
    /\ EvidenceOutlivesModels

\* What a local model's answer is recorded as.
Heard ==
    job.provider = "ollama" /\ input.mode \in InferenceModes =>
        /\ stage # "gateway"
        /\ stage \in {"judge", "opening", "primary", "guardrail"} => reply = NoReply
        /\ stage \in {"judge", "opening", "primary"} =>
               returned = "guardrail_disabled" /\ guardrail = "guardrail_disabled"
        /\ stage \in {"guardrail", "helper", "writing", "committed"} =>
               /\ guardrail = "guardrail_passed" =>
                      /\ job.guardrails /\ reply \in Answers
                      /\ AnswerStatus(reply) = "guardrail_passed"
               /\ job.guardrails /\ SaysNothing(reply) =>
                      IF IsJSON(reply) /\ reply.form # "empty"
                        THEN guardrail = "guardrail_flagged"
                        ELSE guardrail \in GuardrailDeferrals

\* Where there is no answer there is nothing said.
LEMMA NoReplySaysNothing == SaysNothing(NoReply) /\ ~IsJSON(NoReply)
  BY DEF SaysNothing, NoReply, IsJSON

\* The vocabulary of guardrail statuses and what an enabled guardrail makes of each.
LEMMA StatusFacts ==
    /\ ReturnedStatuses = {"guardrail_passed", "guardrail_flagged", "guardrail_timeout",
                           "guardrail_unavailable", "guardrail_disabled", "other"}
    /\ GuardrailDeferrals = {"guardrail_timeout", "guardrail_unavailable"}
    /\ GuardrailStatuses = {"guardrail_passed", "guardrail_flagged", "guardrail_timeout",
                            "guardrail_unavailable", "guardrail_disabled"}
    /\ GuardrailVerdicts = {"guardrail_passed", "guardrail_flagged"}
    /\ \A enabled \in BOOLEAN, status \in GuardrailStatuses :
           ResolveGuardrailStatus(enabled, status, "empty") =
               IF ~enabled THEN "guardrail_disabled"
               ELSE IF status = "guardrail_disabled" THEN "guardrail_unavailable" ELSE status
  BY DEF ReturnedStatuses, GuardrailDeferrals, GuardrailStatuses, GuardrailVerdicts,
         ResolveGuardrailStatus

\* What a step of the guardrail phase makes of its status.
LEMMA GuardrailRecorded ==
    ASSUME Typed, Recorded, stage = "guardrail", NEW status \in GuardrailStatuses,
           GuardrailDone(status), status # "guardrail_disabled"
    PROVE  /\ Recorded'
           /\ stage' \in {"helper", "writing"}
           /\ guardrail' = IF job.guardrails THEN status ELSE "guardrail_disabled"
  <1>1. job.guardrails \in BOOLEAN
    BY ExecutionAssumption DEF Typed, JobShape
  <1>2. guardrail' = IF job.guardrails THEN status ELSE "guardrail_disabled"
    BY <1>1, StatusFacts DEF GuardrailDone
  <1>3. /\ stage' \in {"helper", "writing"} /\ outcome' = outcome /\ returned' = status
    BY DEF GuardrailDone, After
  <1>4. guardrail' \in GuardrailStatuses
    BY <1>2, StatusFacts
  <1> QED
    BY <1>2, <1>3, <1>4, StatusFacts DEF Recorded, EvidenceOutlivesModels

\* What the guardrail answered and what is recorded of it agree.
LEMMA RecordedStep == Typed /\ Recorded /\ Heard /\ [Next]_vars => Recorded' /\ Heard'
  <1> SUFFICES ASSUME Typed, Recorded, Heard, [Next]_vars
               PROVE  Recorded' /\ Heard'
    OBVIOUS
  <1>1. input' = input /\ job' = job
    BY NextKeepsRequest
  <1>2. job.guardrails \in BOOLEAN
    BY ExecutionAssumption DEF Typed, JobShape
  <1>3. CASE Judge
    BY <1>1, <1>3 DEF Judge, heard, Recorded, Heard, EvidenceOutlivesModels
  <1>4. CASE Tick \/ Cancel
    BY <1>1, <1>4 DEF Tick, Cancel, heard, Recorded, Heard, EvidenceOutlivesModels
  <1>5. CASE Start
    BY <1>1, <1>5 DEF Start, heard, Recorded, Heard, EvidenceOutlivesModels, InferenceModes
  <1>6. CASE PrimaryAnswers
    <2>1. /\ stage = "primary" /\ stage' \in {"guardrail", "helper", "writing"}
          /\ UNCHANGED <<returned, outcome, reply, reported>>
          /\ guardrail' = ResolveGuardrailStatus(job.guardrails, returned, "empty")
      BY <1>6 DEF PrimaryAnswers, After, heard
    <2>2. guardrail' \in GuardrailStatuses
      BY <1>2, <2>1, StatusResolved DEF Recorded, GuardrailSummaries
    <2>3. Recorded'
      BY <1>1, <2>1, <2>2 DEF Recorded, EvidenceOutlivesModels
    <2>4. ASSUME job.provider = "ollama", input.mode \in InferenceModes
          PROVE  /\ guardrail' \in {"guardrail_unavailable", "guardrail_disabled"}
                 /\ job.guardrails => guardrail' \in GuardrailDeferrals
                 /\ reply' = NoReply
      BY <1>2, <2>1, <2>4, StatusFacts DEF Heard
    <2>5. Heard'
      BY <1>1, <2>1, <2>4, NoReplySaysNothing DEF Heard
    <2> QED
      BY <2>3, <2>5
  <1>7. CASE GuardrailReplies
    <2>1. PICK a \in Replies :
             reply' = a /\ GuardrailDone(AnswerStatus(a)) /\ stage = "guardrail"
      BY <1>7 DEF GuardrailReplies
    <2>2. a \in Answers
      BY ExecutionAssumption
    <2> DEFINE status == AnswerStatus(a)
    <2>3. /\ status \in {"guardrail_flagged", "guardrail_passed", "guardrail_unavailable"}
          /\ SaysNothing(a) => status = IF IsJSON(a) /\ a.form # "empty"
                                           THEN "guardrail_flagged"
                                           ELSE "guardrail_unavailable"
      BY <2>2, AnswersRead
    <2> HIDE DEF status
    <2>4. /\ Recorded' /\ stage' \in {"helper", "writing"}
          /\ guardrail' = IF job.guardrails THEN status ELSE "guardrail_disabled"
      BY <2>1, <2>3, GuardrailRecorded, StatusFacts DEF status
    <2>5. Heard'
      BY <1>1, <1>2, <2>1, <2>2, <2>3, <2>4, StatusFacts DEF Heard, status
    <2> QED
      BY <2>4, <2>5
  <1>8. ASSUME NEW status \in GuardrailDeferrals, GuardrailDone(status),
               stage = "guardrail", reply' = reply
        PROVE  Recorded' /\ Heard'
    <2>1. /\ Recorded' /\ stage' \in {"helper", "writing"}
          /\ guardrail' = IF job.guardrails THEN status ELSE "guardrail_disabled"
      BY <1>8, GuardrailRecorded, StatusFacts
    <2> QED
      BY <1>1, <1>2, <1>8, <2>1, StatusFacts, NoReplySaysNothing DEF Heard
  <1>9. CASE HelperEnds
    BY <1>1, <1>9 DEF HelperEnds, After, heard, Recorded, Heard, EvidenceOutlivesModels
  <1>10. CASE GatewayAnswers
    <2>1. PICK status \in ReturnedStatuses \cup {"blank"}, summary \in GuardrailSummaries :
             /\ returned' = GatewayStatus(status)
             /\ guardrail' = ResolveGuardrailStatus(job.guardrails, returned', summary)
      BY <1>10 DEF GatewayAnswers
    <2>2. stage = "gateway" /\ stage' = "writing" /\ outcome' = outcome
      BY <1>10 DEF GatewayAnswers
    <2>3. returned' \in ReturnedStatuses
      BY <2>1, StatusFacts DEF GatewayStatus
    <2>4. guardrail' \in GuardrailStatuses
      BY <1>2, <2>1, <2>3, StatusResolved
    <2> QED
      BY <1>1, <2>2, <2>3, <2>4 DEF Recorded, Heard, EvidenceOutlivesModels
  <1>11. CASE InferenceFails \/ DatabaseFails \/ RequestEnds
    BY <1>1, <1>11
       DEF InferenceFails, DatabaseFails, RequestEnds, RollBack, heard, Recorded, Heard,
           EvidenceOutlivesModels
  <1>12. CASE Commit
    BY <1>1, <1>12
       DEF Commit, heard, Recorded, Heard, EvidenceOutlivesModels, ExecutionOutcome
  <1>13. CASE UNCHANGED vars
    BY <1>13 DEF vars, request, heard, Recorded, Heard, EvidenceOutlivesModels
  <1>14. CASE GuardrailFails \/ GuardrailCut
    BY <1>8, <1>14, StatusFacts DEF GuardrailFails, GuardrailCut
  <1> QED
    BY <1>3, <1>4, <1>5, <1>6, <1>7, <1>9, <1>10, <1>11, <1>12, <1>13, <1>14 DEF Next

\* The same in every execution.
LEMMA RecordedInvariant == Spec => [](Recorded /\ Heard)
  <1>1. Init => Recorded /\ Heard
    BY StatusFacts DEF Init, Recorded, Heard, EvidenceOutlivesModels
  <1>2. Timed /\ (Recorded /\ Heard) /\ [Next]_vars => (Recorded /\ Heard)'
    BY RecordedStep DEF Timed
  <1> QED
    BY <1>1, <1>2, TimedInvariant, PTL DEF Spec

\* For any jobs: once the primary has answered, no model undoes the execution.
THEOREM EvidenceOutlivesModelsHolds == Spec => []EvidenceOutlivesModels
  BY RecordedInvariant, PTL DEF Recorded

\* For any jobs: no model's output is final without a person, and an execution
\* without a verdict says so in the ledger.
THEOREM InferenceNeverCompletesHolds == Spec => []InferenceNeverCompletes
  <1>1. Recorded => InferenceNeverCompletes
    BY StatusFacts DEF Recorded, InferenceNeverCompletes, ExecutionOutcome, GuardrailEvents
  <1> QED
    BY <1>1, RecordedInvariant, PTL

\* For any jobs and answers of a local guardrail: only an answer that says so, or one
\* of the two that are misread, is recorded as passed; one that says nothing defers the
\* execution or, as JSON, flags it.
THEOREM NoSilentGuardrailSuccessHolds == Spec => []NoSilentGuardrailSuccess
  <1>1. Recorded /\ Heard => NoSilentGuardrailSuccess
    BY AnswersRead
       DEF Recorded, Heard, NoSilentGuardrailSuccess, ExecutionOutcome, InferenceModes
  <1> QED
    BY <1>1, RecordedInvariant, PTL


-----------------------------------------------------------------------------
(***************************************************************************)
(* Where "passed" comes from.                                              *)
(***************************************************************************)
\* A gateway is asked to guard, and its answer leaves the status blank.
BlankFromGateway == job.provider = "gateway" /\ job.guardrails /\ "blank" \in reported

\* "Passed" is what a guardrail reported or what a gateway left blank.
FromReport ==
    /\ stage = "gateway" => job.provider = "gateway"
    /\ stage \in {"judge", "opening", "primary"} => returned = "guardrail_disabled"
    /\ guardrail = "guardrail_passed" =>
           "guardrail_passed" \in reported \/ BlankFromGateway

\* Each step records what is reported.
LEMMA FromReportStep == Typed /\ Recorded /\ FromReport /\ [Next]_vars => FromReport'
  <1> SUFFICES ASSUME Typed, Recorded, FromReport, [Next]_vars
               PROVE  FromReport'
    OBVIOUS
  <1>1. job' = job /\ job.guardrails \in BOOLEAN
    BY NextKeepsRequest, ExecutionAssumption DEF Typed, JobShape
  <1>2. CASE /\ UNCHANGED <<returned, guardrail, reported>>
             /\ stage' = "gateway" => stage = "gateway" \/ job.provider = "gateway"
             /\ stage' \in {"judge", "opening", "primary"} =>
                    stage \in {"judge", "opening", "primary"}
    BY <1>1, <1>2 DEF FromReport, BlankFromGateway
  <1>3. CASE Judge \/ Tick \/ Cancel \/ Start \/ HelperEnds \/ InferenceFails
            \/ DatabaseFails \/ RequestEnds \/ Commit \/ UNCHANGED vars
    BY <1>2, <1>3 DEF Judge, Tick, Cancel, Start, HelperEnds, After, InferenceFails,
                      DatabaseFails, RequestEnds, RollBack, Commit, vars, heard
  <1>4. CASE PrimaryAnswers
    <2>1. /\ guardrail' \in {"guardrail_unavailable", "guardrail_disabled"}
          /\ stage' \in {"guardrail", "helper", "writing"}
      BY <1>1, <1>4, StatusFacts DEF PrimaryAnswers, After, FromReport
    <2> QED
      BY <2>1 DEF FromReport
  <1>5. ASSUME NEW status \in GuardrailStatuses \ {"guardrail_disabled"},
               GuardrailDone(status), reported' = {status} \/ status # "guardrail_passed"
        PROVE  FromReport'
    <2>1. /\ guardrail' \in {status, "guardrail_disabled"}
          /\ stage' \in {"helper", "writing"}
      BY <1>1, <1>5, StatusFacts DEF GuardrailDone, After
    <2> QED
      BY <1>5, <2>1 DEF FromReport
  <1>6. CASE GuardrailReplies
    <2>1. PICK a \in Replies : reported' = {AnswerStatus(a)} /\ GuardrailDone(AnswerStatus(a))
      BY <1>6 DEF GuardrailReplies
    <2>2. AnswerStatus(a) \in GuardrailStatuses \ {"guardrail_disabled"}
      BY AnswersRead, StatusFacts, ExecutionAssumption
    <2> QED
      BY <1>5, <2>1, <2>2
  <1>7. CASE GuardrailFails \/ GuardrailCut
    <2>1. PICK status \in GuardrailDeferrals : GuardrailDone(status)
      BY <1>7, StatusFacts DEF GuardrailFails, GuardrailCut
    <2> QED
      BY <1>5, <2>1, StatusFacts
  <1>8. CASE GatewayAnswers
    <2>1. PICK status \in ReturnedStatuses \cup {"blank"}, summary \in GuardrailSummaries :
             /\ reported' = {status, summary}
             /\ returned' = GatewayStatus(status)
             /\ guardrail' = ResolveGuardrailStatus(job.guardrails, returned', summary)
      BY <1>8 DEF GatewayAnswers
    <2>2. stage = "gateway" /\ stage' = "writing"
      BY <1>8 DEF GatewayAnswers
    <2>3. guardrail' = "guardrail_passed" =>
             /\ job.guardrails
             /\ returned' = "guardrail_passed" \/ summary = "guardrail_passed"
      BY <1>1, <2>1 DEF ResolveGuardrailStatus, GuardrailStatusFromSummary
    <2>4. returned' = "guardrail_passed" => status \in {"guardrail_passed", "blank"}
      BY <2>1 DEF GatewayStatus
    <2> QED
      BY <1>1, <2>1, <2>2, <2>3, <2>4 DEF FromReport, BlankFromGateway
  <1> QED
    BY <1>3, <1>4, <1>6, <1>7, <1>8 DEF Next

\* Only a gateway that is asked to guard and leaves its status blank is recorded as
\* passed without a report: nothing else stands behind the finding about
\* PassedWasReported (executeGateway).
PassedUnlessBlank ==
    stage = "committed" /\ guardrail = "guardrail_passed" =>
        "guardrail_passed" \in reported \/ BlankFromGateway

\* For any jobs and answers, local or from a gateway.
THEOREM PassedUnlessBlankHolds == Spec => []PassedUnlessBlank
  <1>1. Init => FromReport
    BY DEF Init, FromReport
  <1>2. Timed /\ (Recorded /\ Heard) /\ FromReport /\ [Next]_vars => FromReport'
    BY FromReportStep DEF Timed
  <1>3. FromReport => PassedUnlessBlank
    BY DEF FromReport, PassedUnlessBlank
  <1> QED
    BY <1>1, <1>2, <1>3, TimedInvariant, RecordedInvariant, PTL DEF Spec

\* Where no gateway is asked to guard, "passed" was always reported.
THEOREM PassedWasReportedLocally ==
    ASSUME \A j \in Jobs : j.provider = "gateway" => ~j.guardrails
    PROVE  Spec => []PassedWasReported
  <1>1. Typed /\ PassedUnlessBlank => PassedWasReported
    BY DEF Typed, PassedUnlessBlank, PassedWasReported, BlankFromGateway
  <1> QED
    BY <1>1, PassedUnlessBlankHolds, TimedInvariant, PTL DEF Timed

-----------------------------------------------------------------------------
(***************************************************************************)
(* RunService makes one step of all the phases, Infer, with a result out   *)
(* of GuardrailResults.  That step leaves out nothing an execution does.   *)
(***************************************************************************)
\* The phases have a guardrail status from GuardrailResults once the primary or the
\* gateway has answered; an execution that asks no model has the one it began with.
Settled ==
    /\ stage \in {"primary", "gateway", "guardrail", "helper"} => input.mode # "deterministic"
    /\ stage = "opening" => guardrail = "guardrail_disabled"
    /\ stage \in {"guardrail", "helper", "writing", "committed"} =>
           guardrail \in IF input.mode = "deterministic" THEN {"guardrail_disabled"}
                         ELSE GuardrailResults(job.guardrails)
    /\ stage = "judge" => guardrail = "guardrail_disabled"

\* What an execution commits is what RunService can commit for its mode and profile.
CommitsAsInferred ==
    stage = "committed" =>
        /\ outcome = ExecutionOutcome(input.mode, guardrail)
        /\ guardrail \in IF input.mode = "deterministic" THEN {"guardrail_disabled"}
                         ELSE GuardrailResults(job.guardrails)

\* Each step settles the status or keeps it.
LEMMA SettledStep == Recorded /\ Settled /\ [Next]_vars => Settled'
  <1> SUFFICES ASSUME Recorded, Settled, [Next]_vars PROVE Settled'
    OBVIOUS
  <1>1. input' = input /\ job' = job
    BY NextKeepsRequest
  <1>2. \A status \in ReturnedStatuses, summary \in GuardrailSummaries :
            ResolveGuardrailStatus(job.guardrails, status, summary)
                \in GuardrailResults(job.guardrails)
    BY DEF GuardrailResults
  <1>3. "empty" \in GuardrailSummaries
    BY DEF GuardrailSummaries
  <1>4. CASE Judge \/ Tick \/ Cancel \/ Start \/ HelperEnds \/ InferenceFails
            \/ DatabaseFails \/ RequestEnds \/ Commit \/ UNCHANGED vars
    BY <1>1, <1>4 DEF Settled, Judge, Tick, Cancel, Start, HelperEnds, After, InferenceFails,
                      DatabaseFails, RequestEnds, RollBack, Commit, vars
  <1>5. CASE PrimaryAnswers
    <2>1. /\ guardrail' \in GuardrailResults(job.guardrails)
          /\ stage = "primary" /\ stage' \in {"guardrail", "helper", "writing"}
      BY <1>2, <1>3, <1>5 DEF PrimaryAnswers, After, Recorded
    <2> QED
      BY <1>1, <2>1 DEF Settled
  <1>6. ASSUME NEW status \in GuardrailStatuses, GuardrailDone(status), stage = "guardrail"
        PROVE  Settled'
    <2>1. /\ guardrail' \in GuardrailResults(job.guardrails)
          /\ stage' \in {"helper", "writing"}
      BY <1>2, <1>3, <1>6, StatusFacts DEF GuardrailDone, After
    <2> QED
      BY <1>1, <1>6, <2>1 DEF Settled
  <1>7. CASE GuardrailReplies
    <2>1. PICK a \in Replies : GuardrailDone(AnswerStatus(a)) /\ stage = "guardrail"
      BY <1>7 DEF GuardrailReplies
    <2>2. AnswerStatus(a) \in GuardrailStatuses
      BY AnswersRead, StatusFacts, ExecutionAssumption
    <2> QED
      BY <1>6, <2>1, <2>2
  <1>8. CASE GuardrailFails \/ GuardrailCut
    <2>1. PICK status \in GuardrailDeferrals : GuardrailDone(status)
      BY <1>8, StatusFacts DEF GuardrailFails, GuardrailCut
    <2> QED
      BY <1>6, <1>8, <2>1, StatusFacts DEF GuardrailFails, GuardrailCut
  <1>9. CASE GatewayAnswers
    <2>1. PICK status \in ReturnedStatuses \cup {"blank"}, summary \in GuardrailSummaries :
             guardrail' = ResolveGuardrailStatus(job.guardrails, GatewayStatus(status), summary)
      BY <1>9 DEF GatewayAnswers
    <2>2. GatewayStatus(status) \in ReturnedStatuses
      BY <2>1, StatusFacts DEF GatewayStatus
    <2>3. stage = "gateway" /\ stage' = "writing"
      BY <1>9 DEF GatewayAnswers
    <2> QED
      BY <1>1, <1>2, <2>1, <2>2, <2>3 DEF Settled
  <1> QED
    BY <1>4, <1>5, <1>7, <1>8, <1>9 DEF Next

\* For any jobs, timeouts and answers: the one step Infer of RunService covers every
\* course of the phases.
THEOREM CommitsAsInferredHolds == Spec => []CommitsAsInferred
  <1>1. Init => Settled
    BY DEF Init, Settled
  <1>2. (Recorded /\ Heard) /\ Settled /\ [Next]_vars => Settled'
    BY SettledStep
  <1>3. (Recorded /\ Heard) /\ Settled => CommitsAsInferred
    BY DEF Recorded, Settled, CommitsAsInferred
  <1> QED
    BY <1>1, <1>2, <1>3, RecordedInvariant, PTL DEF Spec
=============================================================================
