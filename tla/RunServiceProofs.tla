-------------------------- MODULE RunServiceProofs --------------------------
(***************************************************************************)
(* For any requests and any well-formed calls: RunService keeps its types, *)
(* row locks never form a cycle, every governed effect was authorised, and *)
(* each call is one of GovernedCalls.  For calls that leave to the manager *)
(* what only the manager sets: rows have their evidence and their causes,  *)
(* and no model is called outside the ring of the run.                     *)
(***************************************************************************)
EXTENDS RunService, TLAPS

-----------------------------------------------------------------------------
(***************************************************************************)
(* The inductive invariant.  What a transaction commits was read, decided  *)
(* and locked by earlier steps; the invariant says what those steps have   *)
(* established at each stage.                                              *)
(***************************************************************************)
\* A call that was made, or the mark that a refused execution became.
KnownCall(op, body) ==
    \/ \E c \in Calls : c.op = op /\ c.body = body
    \/ op = "markFailed" /\ body \in [cycle : BOOLEAN]

CallsKnown ==
    \A q \in Request :
        pc[q] \in {"asking", "ready", "inTx"} => KnownCall(local[q].op, local[q].body)

\* Rows are never deleted: those a transaction found are there when it writes.
RowsRead ==
    \A q \in Request : pc[q] = "inTx" =>
        /\ local[q].op \notin {"create", "registerProfile"} =>
               run # NoRow /\ local[q].run # NoRow
        /\ NamesCycle(local[q].op, local[q].body) => cycle # NoRow /\ local[q].cycle # NoRow

\* The rows q holds.
Held(q) == {row \in Rows : lock[row] = q}

\* What a call does at most, whatever the mode of the run.
MostNeeded(q) == Needed(local[q].op, local[q].body, "dual")

WorkKnown ==
    \A q \in Request :
        /\ pc[q] # "inTx" => todo[q] = {} /\ Held(q) = {}
        /\ todo[q] \cup Held(q) \subseteq MostNeeded(q)

\* A governed call that is past its decision was allowed, in both records.
AllowedPastDecision ==
    \A q \in Request :
        pc[q] \in {"ready", "inTx"} /\ local[q].op \in Governed =>
            /\ [by |-> q, allow |-> TRUE] \in decisions
            /\ [by |-> q, event |-> "policy"] \in ledger

\* Rows are locked in one order, whatever the operation: run, cycle, comparison.
LocksOrdered ==
    \A q \in Request : \A held \in Held(q), row \in todo[q] \cap Rows :
        Rank(local[q].op, held) < Rank(local[q].op, row)

IInv == TypeOK /\ CallsKnown /\ RowsRead /\ WorkKnown /\ LocksOrdered

-----------------------------------------------------------------------------
\* A well-formed call of each kind.
LEMMA KnownCallShape ==
    ASSUME NEW op, NEW body, KnownCall(op, body)
    PROVE  /\ op \in Ops
           /\ op = "create" => body \in RunRows
           /\ op = "patch" => \A row \in RunRows : Patched(row, body) \in RunRows
           /\ op = "review" => body \in [action : ReviewActions, cycle : BOOLEAN]
           /\ op = "createCycle" => body \in CycleRows
           /\ op \in {"execute", "markFailed"} => body \in [cycle : BOOLEAN]
           /\ op = "compare" => body \in [status : ComparisonReviewStatuses]
           /\ op = "registerProfile" => body \in Profiles
           /\ op \in {"updateCycle", "noteCycle"} =>
                  \A row \in CycleRows : Patched(row, body) \in CycleRows
  BY CallsAssumption DEF KnownCall, WellFormed, Ops, Governed

\* The mode of the run only ever takes work away.
LEMMA NeededIsMost ==
    ASSUME NEW op, NEW body, NEW mode
    PROVE  Needed(op, body, mode) \subseteq Needed(op, body, "dual")
  BY DEF Needed, InferenceModes

\* A review, an execution or its refusal gives a status that a cycle may have too.
LEMMA NewStatusType ==
    ASSUME TypeOK, CallsKnown, RowsRead, NEW q \in Request, pc[q] = "inTx",
           local[q].op \in {"review", "markFailed", "execute"}
    PROVE  NewStatus(q) \in CycleStatuses
  <1>1. KnownCall(local[q].op, local[q].body)
    BY DEF CallsKnown
  <1>2. CASE local[q].op = "review"
    <2>1. local[q].body.action \in ReviewActions
      BY <1>1, <1>2, KnownCallShape
    <2> QED
      BY <1>2, <2>1 DEF NewStatus, ReviewStatusOf, ReviewActions, CycleStatuses, ReviewOutcomes
  <1>3. CASE local[q].op = "markFailed"
    BY <1>3 DEF NewStatus, CycleStatuses
  <1>4. CASE local[q].op = "execute"
    BY <1>4 DEF NewStatus, ExecutionOutcome, CycleStatuses, ExecutionOutcomes
  <1> QED
    BY <1>2, <1>3, <1>4

\* What a transaction puts in the run's row is a run.
LEMMA WrittenRunType ==
    ASSUME IInv, NEW q \in Request, pc[q] = "inTx", lock["run"] = q \/ local[q].op = "create"
    PROVE  WrittenRun(q) \in RunRows
  <1> USE DEF IInv
  <1>1. KnownCall(local[q].op, local[q].body)
    BY DEF CallsKnown
  <1>2. CASE local[q].op = "create"
    BY <1>1, <1>2, KnownCallShape DEF WrittenRun, CreatedRun
  <1>3. CASE local[q].op # "create"
    <2>1. "run" \in MostNeeded(q)
      BY <1>3 DEF WorkKnown, Held, Rows
    <2>2. local[q].op \in {"patch", "review", "attach", "execute", "noteCycle", "markFailed"}
      BY <2>1 DEF MostNeeded, Needed
    <2>3. local[q].run \in RunRows
      BY <2>2 DEF TypeOK, LocalState, RowsRead
    <2>4. local[q].guardrail \in GuardrailStatuses /\ NoteOf(q) \subseteq Request
      BY DEF TypeOK, LocalState, NoteOf
    <2>5. CASE local[q].op = "patch"
      BY <1>1, <2>3, <2>5, KnownCallShape DEF WrittenRun
    <2>6. CASE local[q].op \in {"review", "markFailed"}
      <3>1. NewStatus(q) \in RunStatuses
        BY <2>6, NewStatusType DEF RunStatuses
      <3> QED
        BY <2>3, <2>6, <3>1 DEF WrittenRun, RunRows
    <2>7. CASE local[q].op = "attach"
      BY <2>3, <2>7 DEF WrittenRun, RunRows
    <2>8. CASE local[q].op = "noteCycle"
      BY <2>3, <2>4, <2>8 DEF WrittenRun, RunRows
    <2>9. CASE local[q].op = "execute"
      <3>1. NewStatus(q) \in RunStatuses
        BY <2>9, NewStatusType DEF RunStatuses
      <3> QED
        BY <2>3, <2>4, <2>9, <3>1 DEF WrittenRun, RunRows, NewGuardrail
    <2> QED
      BY <2>2, <2>5, <2>6, <2>7, <2>8, <2>9
  <1> QED
    BY <1>2, <1>3

\* What a transaction puts in the cycle's row is a cycle.
LEMMA WrittenCycleType ==
    ASSUME IInv, NEW q \in Request, pc[q] = "inTx", lock["cycle"] = q
    PROVE  WrittenCycle(q) \in CycleRows
  <1> USE DEF IInv
  <1>1. KnownCall(local[q].op, local[q].body)
    BY DEF CallsKnown
  <1>2. "cycle" \in MostNeeded(q)
    BY DEF WorkKnown, Held, Rows
  <1>3. local[q].op = "createCycle" \/ NamesCycle(local[q].op, local[q].body)
    BY <1>2 DEF MostNeeded, Needed
  <1>4. CASE local[q].op = "createCycle"
    BY <1>1, <1>4, KnownCallShape DEF WrittenCycle
  <1>5. CASE NamesCycle(local[q].op, local[q].body)
    <2>1. local[q].cycle \in CycleRows /\ local[q].guardrail \in GuardrailStatuses
      BY <1>5 DEF RowsRead, TypeOK, LocalState
    <2>2. CASE local[q].op \in {"updateCycle", "noteCycle"}
      <3>1. Patched(local[q].cycle, local[q].body) \in CycleRows
        BY <1>1, <2>1, <2>2, KnownCallShape
      <3> QED
        BY <2>2, <3>1 DEF WrittenCycle, CycleRows
    <2>3. CASE local[q].op \in {"review", "markFailed"}
      <3>1. NewStatus(q) \in CycleStatuses
        BY <2>3, NewStatusType
      <3> QED
        BY <2>1, <2>3, <3>1 DEF WrittenCycle, CycleRows
    <2>4. CASE local[q].op = "execute"
      <3>1. NewStatus(q) \in CycleStatuses
        BY <2>4, NewStatusType
      <3> QED
        BY <2>1, <2>4, <3>1 DEF WrittenCycle, CycleRows
    <2> QED
      BY <1>5, <2>2, <2>3, <2>4 DEF NamesCycle
  <1> QED
    BY <1>3, <1>4, <1>5

-----------------------------------------------------------------------------
(***************************************************************************)
(* Types.                                                                  *)
(***************************************************************************)
\* A request at rest.
LEMMA BlankType ==
    Blank \in LocalState
  BY DEF Blank, LocalState, GuardrailStatuses

\* The vocabulary of initial rows is that of the tables.
LEMMA InitTypeOK ==
    Init => TypeOK
  <1> SUFFICES ASSUME Init PROVE TypeOK
    OBVIOUS
  <1>1. run \in RunRows \cup {NoRow} /\ cycle \in CycleRows \cup {NoRow} /\ profile \in Profiles
    BY InitialAssumption DEF Init
  <1>2. local \in [Request -> LocalState]
    BY BlankType DEF Init
  <1>3. lock \in [Rows -> Request \cup {NoRow}] /\ todo \in [Request -> SUBSET Steps]
    BY DEF Init
  <1>4. pc \in [Request -> Stages]
    BY DEF Init, Stages
  <1> QED
    BY <1>1, <1>2, <1>3, <1>4 DEF Init, TypeOK

\* Whatever the inference service answers is read as a known status.
LEMMA GuardrailResultsKnown ==
    ASSUME NEW enabled
    PROVE  GuardrailResults(enabled) \subseteq GuardrailStatuses
  BY DEF GuardrailResults, ResolveGuardrailStatus, GuardrailStatusFromSummary,
         ReturnedStatuses, GuardrailSummaries, GuardrailStatuses

\* The work of a call is made of the known steps.
LEMMA NeededType ==
    ASSUME NEW op, NEW body, NEW mode
    PROVE  Needed(op, body, mode) \subseteq Steps
  BY DEF Needed, Steps, Rows

\* A call arrives or fails early, or asks the policy: tables are not touched.
LEMMA AskTypeOK ==
    ASSUME IInv, NEW q \in Request, Ask(q)
    PROVE  TypeOK'
  <1> USE DEF IInv, TypeOK
  <1>1. pc' \in [Request -> Stages]
    BY DEF Ask, Stages, Ended
  <1>2. local' \in [Request -> LocalState]
    <2>1. CASE UNCHANGED local
      BY <2>1
    <2>2. ASSUME NEW c \in Calls,
                 local' = [local EXCEPT ![q] =
                     [Blank EXCEPT !.op = c.op, !.body = c.body, !.run = run]]
          PROVE  local' \in [Request -> LocalState]
      <3>1. c.op \in Ops
        BY CallsAssumption
      <3>2. [Blank EXCEPT !.op = c.op, !.body = c.body, !.run = run] \in LocalState
        BY <3>1 DEF Blank, LocalState, GuardrailStatuses
      <3> QED
        BY <2>2, <3>2
    <2> QED
      BY <2>1, <2>2 DEF Ask
  <1> QED
    BY <1>1, <1>2 DEF Ask, tables

\* A decision and its governance event are well formed.
LEMMA DecideTypeOK ==
    ASSUME IInv, NEW q \in Request, Decide(q)
    PROVE  TypeOK'
  <1> USE DEF IInv
  <1> DEFINE allow == EvaluatePolicyOutcome(PolicyInput(q)).allow
             after == AfterVerdict(local[q].op, allow)
             loaded == IF PolicyInput(q).targets = {} THEN NoRow ELSE profile
  <1>1. allow \in BOOLEAN
    BY DEF EvaluatePolicyOutcome, Deny, Allow
  <1>2. local[q] \in LocalState
    BY DEF TypeOK
  <1>3. after.stage \in Stages /\ after.op \in Ops \cup {"none"}
    BY <1>2 DEF AfterVerdict, Stages, Ended, LocalState, Ops
  <1>4. loaded \in Profiles \cup {NoRow}
    BY DEF TypeOK
  <1>5. [by |-> q, event |-> "policy"] \in [by : Request, event : {"policy", "compare",
            "guardrail.deferred", "guardrail.disabled"} \cup Governed]
    OBVIOUS
  <1>6. decisions' = decisions \cup {[by |-> q, allow |-> allow]}
    BY DEF Decide
  <1>7. \/ /\ ledger' = ledger \cup {[by |-> q, event |-> "policy"]}
           /\ pc' = [pc EXCEPT ![q] = after.stage]
           /\ local' = [local EXCEPT ![q] = IF after.stage = "refused" THEN Blank
                           ELSE [local[q] EXCEPT !.op = after.op, !.profile = loaded]]
        \/ /\ pc' = [pc EXCEPT ![q] = "failed"]
           /\ local' = [local EXCEPT ![q] = Blank]
           /\ UNCHANGED ledger
    BY DEF Decide
  <1> HIDE DEF allow, after, loaded
  <1>8. [local[q] EXCEPT !.op = after.op, !.profile = loaded] \in LocalState
    BY <1>2, <1>3, <1>4 DEF LocalState
  <1>9. local' \in [Request -> LocalState]
    BY <1>7, <1>8, BlankType DEF TypeOK
  <1>10. pc' \in [Request -> Stages]
    BY <1>3, <1>7 DEF TypeOK, Stages, Ended
  <1>11. ledger' \subseteq [by : Request, event : {"policy", "compare",
            "guardrail.deferred", "guardrail.disabled"} \cup Governed]
    BY <1>5, <1>7 DEF TypeOK
  <1>12. decisions' \subseteq [by : Request, allow : BOOLEAN]
    BY <1>1, <1>6 DEF TypeOK
  <1> QED
    BY <1>9, <1>10, <1>11, <1>12 DEF Decide, TypeOK, tables

\* A call that gives up forgets what it read.
LEMMA FailTypeOK ==
    ASSUME IInv, NEW q \in Request, Fail(q)
    PROVE  TypeOK'
  BY BlankType DEF IInv, TypeOK, Fail, tables, Stages, Ended

\* The rows read at BEGIN are those of the tables.
LEMMA OpenTypeOK ==
    ASSUME IInv, NEW q \in Request, Open(q)
    PROVE  TypeOK'
  <1> USE DEF IInv
  <1>1. local[q] \in LocalState
    BY DEF TypeOK
  <1>2. [local[q] EXCEPT !.run = run, !.cycle = cycle] \in LocalState
    BY <1>1 DEF TypeOK, LocalState
  <1>3. local' = [local EXCEPT ![q] = [local[q] EXCEPT !.run = run, !.cycle = cycle]]
           \/ local' = [local EXCEPT ![q] = Blank]
    BY DEF Open, TypeOK
  <1>4. local' \in [Request -> LocalState]
    BY <1>2, <1>3, BlankType DEF TypeOK
  <1>5. pc' \in [Request -> Stages]
    BY DEF Open, TypeOK, Stages, Ended
  <1>6. todo' \in [Request -> SUBSET Steps]
    BY NeededType DEF Open, TypeOK
  <1> QED
    BY <1>4, <1>5, <1>6 DEF Open, TypeOK, tables

\* A written row is locked by its writer.
LEMMA WriteTypeOK ==
    ASSUME IInv, NEW q \in Request, NEW row \in Rows, Write(q, row)
    PROVE  TypeOK'
  <1> USE DEF IInv
  <1>1. local[q] \in LocalState
    BY DEF TypeOK
  <1>2. [local[q] EXCEPT !.cycle = cycle] \in LocalState
    BY <1>1 DEF TypeOK, LocalState
  <1>3. local' = [local EXCEPT ![q] = [local[q] EXCEPT !.cycle = cycle]] \/ local' = local
    BY DEF Write, TypeOK
  <1>4. local' \in [Request -> LocalState]
    BY <1>2, <1>3 DEF TypeOK
  <1>5. lock' \in [Rows -> Request \cup {NoRow}] /\ todo' \in [Request -> SUBSET Steps]
    BY DEF Write, TypeOK
  <1> QED
    BY <1>4, <1>5 DEF Write, TypeOK, tables

\* Only an execution asks a model, with the mode and ring of the run it read.
LEMMA InferTypeOK ==
    ASSUME IInv, NEW q \in Request, Infer(q)
    PROVE  TypeOK'
  <1> USE DEF IInv
  <1>1. local[q] \in LocalState /\ ProfileUsed(q) \in Profiles
    BY DEF TypeOK, LocalState, ProfileUsed
  <1>2. local[q].run \in RunRows
    <2>1. pc[q] = "inTx" /\ "infer" \in MostNeeded(q)
      BY DEF Infer, Doing, WorkKnown
    <2>2. local[q].op = "execute"
      BY <2>1 DEF MostNeeded, Needed
    <2> QED
      BY <1>1, <2>1, <2>2 DEF RowsRead, LocalState
  <1>3. inferred' \subseteq [by : Request, mode : ExecutionModes, ring : ExecutionRings,
                             target : Targets]
    BY <1>1, <1>2 DEF Infer, TypeOK, RunRows, Profiles
  <1>4. local' \in [Request -> LocalState]
    <2>1. PICK g \in GuardrailStatuses : local' = [local EXCEPT ![q].guardrail = g]
      BY GuardrailResultsKnown DEF Infer
    <2>2. [local[q] EXCEPT !.guardrail = g] \in LocalState
      BY <1>1 DEF LocalState
    <2>3. local' = [local EXCEPT ![q] = [local[q] EXCEPT !.guardrail = g]]
      BY <2>1 DEF TypeOK
    <2> QED
      BY <2>2, <2>3 DEF TypeOK
  <1>5. todo' \in [Request -> SUBSET Steps]
    BY DEF Infer, TypeOK
  <1> QED
    BY <1>3, <1>4, <1>5 DEF Infer, TypeOK, tables

\* A note is stored for its request.
LEMMA NoteTypeOK ==
    ASSUME IInv, NEW q \in Request, Note(q)
    PROVE  TypeOK'
  BY DEF IInv, TypeOK, Note, tables

\* A transaction that ends releases its locks.
LEMMA RollBackTypeOK ==
    ASSUME IInv, NEW q \in Request, RollBack(q)
    PROVE  TypeOK'
  BY BlankType DEF IInv, TypeOK, RollBack, tables, Stages, Ended

\* What a transaction leaves in each table is a row of that table.
LEMMA CommitTypeOK ==
    ASSUME IInv, NEW q \in Request, Commit(q)
    PROVE  TypeOK'
  <1> USE DEF IInv
  <1>0. pc[q] = "inTx"
    BY DEF Commit
  <1>1. KnownCall(local[q].op, local[q].body)
    BY <1>0 DEF CallsKnown
  <1>2. run' \in RunRows \cup {NoRow}
    BY <1>0, WrittenRunType DEF Commit, TypeOK
  <1>3. cycle' \in CycleRows \cup {NoRow}
    BY <1>0, WrittenCycleType DEF Commit, TypeOK
  <1>4. comparison' \in ComparisonReviewStatuses \cup {NoRow}
    <2>1. ASSUME lock["comparison"] = q, local[q].op # "execute"
          PROVE  local[q].body.status \in ComparisonReviewStatuses
      <3>1. local[q].op = "compare"
        BY <2>1 DEF WorkKnown, MostNeeded, Needed, Held, Rows
      <3> QED
        BY <1>1, <3>1, KnownCallShape
    <2> QED
      BY <2>1 DEF Commit, WrittenComparison, TypeOK, ComparisonReviewStatuses
  <1>5. profile' \in Profiles
    BY <1>1, KnownCallShape DEF Commit, WrittenProfile, TypeOK
  <1>6. artifacts' \subseteq Request /\ audited' \subseteq Request
    BY DEF Commit, WrittenArtifacts, TypeOK
  <1>7. reviews' \subseteq [by : Request, prior : RunStatuses, new : ReviewOutcomes]
    <2>1. ASSUME local[q].op = "review"
          PROVE  [by |-> q, prior |-> local[q].run.status, new |-> NewStatus(q)]
                     \in [by : Request, prior : RunStatuses, new : ReviewOutcomes]
      <3>1. local[q].run.status \in RunStatuses
        BY <1>0, <2>1 DEF RowsRead, TypeOK, LocalState, RunRows
      <3>2. local[q].body.action \in ReviewActions
        BY <1>1, <2>1, KnownCallShape
      <3>3. NewStatus(q) \in ReviewOutcomes
        BY <2>1, <3>2 DEF NewStatus, ReviewStatusOf, ReviewActions, ReviewOutcomes
      <3> QED
        BY <3>1, <3>3
    <2> QED
      BY <2>1 DEF Commit, ReviewRecords, TypeOK
  <1>8. ledger' \subseteq [by : Request, event : {"policy", "compare", "guardrail.deferred",
                                                "guardrail.disabled"} \cup Governed]
    BY DEF Commit, LedgerEvents, GuardrailEvents, TypeOK
  <1>9. lock' \in [Rows -> Request \cup {NoRow}]
    BY DEF Commit, TypeOK
  <1>10. local' \in [Request -> LocalState]
    BY BlankType DEF Commit, TypeOK
  <1>11. pc' \in [Request -> Stages]
    BY DEF Commit, TypeOK, Stages, Ended
  <1> QED
    BY <1>2, <1>3, <1>4, <1>5, <1>6, <1>7, <1>8, <1>9, <1>10, <1>11 DEF Commit, TypeOK

\* Every step keeps the types.
LEMMA StepTypeOK ==
    IInv /\ [Next]_vars => TypeOK'
  <1> SUFFICES ASSUME IInv, [Next]_vars PROVE TypeOK'
    OBVIOUS
  <1>1. CASE UNCHANGED vars
    BY <1>1 DEF IInv, TypeOK, vars, tables
  <1>2. ASSUME NEW q \in Request, Ask(q) \/ Progress(q) \/ Fail(q) \/ Abort(q)
        PROVE  TypeOK'
    BY <1>2, AskTypeOK, DecideTypeOK, FailTypeOK, OpenTypeOK, WriteTypeOK, InferTypeOK,
       NoteTypeOK, RollBackTypeOK, CommitTypeOK DEF Progress, Duplicate, Abort
  <1> QED
    BY <1>1, <1>2 DEF Next

-----------------------------------------------------------------------------
(***************************************************************************)
(* The calls behind the requests, and the rows they have read.             *)
(***************************************************************************)
\* A request goes on with the call it made, except that a refused execution
\* becomes the mark on its run.
LEMMA StepCallsKnown ==
    IInv /\ [Next]_vars => CallsKnown'
  <1> SUFFICES ASSUME IInv, [Next]_vars, NEW p \in Request,
                      pc'[p] \in {"asking", "ready", "inTx"}
               PROVE  KnownCall(local'[p].op, local'[p].body)
    BY DEF CallsKnown, KnownCall
  <1> USE DEF IInv
  <1>same. ASSUME local'[p].op = local[p].op, local'[p].body = local[p].body,
                  pc[p] \in {"asking", "ready", "inTx"}
           PROVE  KnownCall(local'[p].op, local'[p].body)
    BY <1>same DEF CallsKnown
  <1>1. ASSUME NEW q \in Request, Ask(q) PROVE KnownCall(local'[p].op, local'[p].body)
    <2>1. CASE p = q
      <3>1. PICK c \in Calls : local' = [local EXCEPT ![q] =
                [Blank EXCEPT !.op = c.op, !.body = c.body, !.run = run]]
        BY <1>1, <2>1 DEF Ask, TypeOK
      <3>2. local'[p].op = c.op /\ local'[p].body = c.body
        BY <2>1, <3>1 DEF TypeOK, Blank
      <3> QED
        BY <3>2 DEF KnownCall
    <2>2. CASE p # q
      BY <1>1, <2>2, <1>same DEF Ask, TypeOK
    <2> QED
      BY <2>1, <2>2
  <1>2. ASSUME NEW q \in Request, Decide(q) PROVE KnownCall(local'[p].op, local'[p].body)
    <2>1. CASE p # q
      BY <1>2, <2>1, <1>same DEF Decide, TypeOK
    <2>2. CASE p = q
      <3> DEFINE allow == EvaluatePolicyOutcome(PolicyInput(q)).allow
                 after == AfterVerdict(local[q].op, allow)
                 loaded == IF PolicyInput(q).targets = {} THEN NoRow ELSE profile
      <3>1. pc[q] = "asking" /\ after.stage # "refused"
            /\ local' = [local EXCEPT ![q] =
                   IF after.stage = "refused" THEN Blank
                   ELSE [local[q] EXCEPT !.op = after.op, !.profile = loaded]]
        BY <1>2, <2>2 DEF Decide, TypeOK
      <3>2. after.op = local[q].op
               \/ (local[q].op = "execute" /\ after.op = "markFailed")
        BY <3>1 DEF AfterVerdict
      <3>3. KnownCall(local[q].op, local[q].body)
        BY <3>1 DEF CallsKnown
      <3> HIDE DEF allow, after, loaded
      <3>4. local'[p].op = after.op /\ local'[p].body = local[q].body
        BY <2>2, <3>1 DEF TypeOK, LocalState
      <3> QED
        BY <3>2, <3>3, <3>4, KnownCallShape DEF KnownCall
    <2> QED
      BY <2>1, <2>2
  <1>3. ASSUME NEW q \in Request, Fail(q) PROVE KnownCall(local'[p].op, local'[p].body)
    BY <1>3, <1>same DEF Fail, TypeOK
  <1>4. ASSUME NEW q \in Request, Open(q) PROVE KnownCall(local'[p].op, local'[p].body)
    <2>1. CASE p # q
      BY <1>4, <2>1, <1>same DEF Open, TypeOK
    <2>2. CASE p = q
      BY <1>4, <2>2, <1>same DEF Open, TypeOK, LocalState
    <2> QED
      BY <2>1, <2>2
  <1>5. ASSUME NEW q \in Request, NEW row \in Rows, Write(q, row)
        PROVE  KnownCall(local'[p].op, local'[p].body)
    BY <1>5, <1>same DEF Write, Doing, TypeOK, LocalState
  <1>6. ASSUME NEW q \in Request, Infer(q) PROVE KnownCall(local'[p].op, local'[p].body)
    BY <1>6, <1>same DEF Infer, Doing, TypeOK, LocalState
  <1>7. ASSUME NEW q \in Request, Note(q) PROVE KnownCall(local'[p].op, local'[p].body)
    BY <1>7, <1>same DEF Note
  <1>8. ASSUME NEW q \in Request, RollBack(q) PROVE KnownCall(local'[p].op, local'[p].body)
    BY <1>8, <1>same DEF RollBack, TypeOK
  <1>9. ASSUME NEW q \in Request, Commit(q) PROVE KnownCall(local'[p].op, local'[p].body)
    BY <1>9, <1>same DEF Commit, TypeOK
  <1>10. CASE UNCHANGED vars
    BY <1>10, <1>same DEF vars
  <1> QED
    BY <1>1, <1>2, <1>3, <1>4, <1>5, <1>6, <1>7, <1>8, <1>9, <1>10
       DEF Next, Progress, Duplicate, Abort

\* No step deletes a row.
LEMMA RowsStay ==
    ASSUME IInv, [Next]_vars
    PROVE  /\ run # NoRow => run' # NoRow
           /\ cycle # NoRow => cycle' # NoRow
  <1>1. ASSUME NEW q \in Request, Commit(q)
        PROVE  /\ run # NoRow => run' # NoRow
               /\ cycle # NoRow => cycle' # NoRow
    BY <1>1, WrittenRunType, WrittenCycleType, InitialAssumption DEF Commit
  <1> QED
    BY <1>1 DEF Next, Progress, Ask, Decide, Fail, Open, Write, Infer, Note, Duplicate,
                RollBack, Abort, vars, tables

\* What BEGIN found is still there when the transaction writes it.
LEMMA StepRowsRead ==
    IInv /\ [Next]_vars => RowsRead'
  <1> SUFFICES ASSUME IInv, [Next]_vars, NEW p \in Request, pc'[p] = "inTx"
               PROVE  /\ local'[p].op \notin {"create", "registerProfile"} =>
                              run' # NoRow /\ local'[p].run # NoRow
                      /\ NamesCycle(local'[p].op, local'[p].body) =>
                              cycle' # NoRow /\ local'[p].cycle # NoRow
    BY DEF RowsRead, NamesCycle
  <1> DEFINE Goal == /\ local'[p].op \notin {"create", "registerProfile"} =>
                              run' # NoRow /\ local'[p].run # NoRow
                     /\ NamesCycle(local'[p].op, local'[p].body) =>
                              cycle' # NoRow /\ local'[p].cycle # NoRow
  <1> USE DEF IInv
  <1>same. ASSUME pc[p] = "inTx", local'[p].op = local[p].op, local'[p].body = local[p].body,
                  local'[p].run = local[p].run,
                  local'[p].cycle = local[p].cycle \/ local'[p].cycle = cycle
           PROVE  Goal
    BY <1>same, RowsStay DEF RowsRead, NamesCycle
  <1>open. ASSUME Found(local[p].op, local[p].body), UNCHANGED <<run, cycle>>,
                  local'[p].op = local[p].op, local'[p].body = local[p].body,
                  local'[p].run = run, local'[p].cycle = cycle
           PROVE  Goal
    BY <1>open DEF Found, NamesCycle
  <1> HIDE DEF Goal
  <1>1. ASSUME NEW q \in Request, Ask(q) PROVE Goal
    BY <1>1, <1>same DEF Ask, TypeOK
  <1>2. ASSUME NEW q \in Request, Decide(q) PROVE Goal
    BY <1>2, <1>same DEF Decide, AfterVerdict, TypeOK
  <1>3. ASSUME NEW q \in Request, Fail(q) PROVE Goal
    BY <1>3, <1>same DEF Fail, TypeOK
  <1>4. ASSUME NEW q \in Request, Open(q) PROVE Goal
    <2>1. CASE p # q
      BY <1>4, <2>1, <1>same DEF Open, TypeOK
    <2>2. CASE p = q
      BY <1>4, <2>2, <1>open DEF Open, TypeOK, LocalState, tables
    <2> QED
      BY <2>1, <2>2
  <1>5. ASSUME NEW q \in Request, NEW row \in Rows, Write(q, row) PROVE Goal
    BY <1>5, <1>same DEF Write, Doing, TypeOK, LocalState
  <1>6. ASSUME NEW q \in Request, Infer(q) PROVE Goal
    BY <1>6, <1>same DEF Infer, Doing, TypeOK, LocalState
  <1>7. ASSUME NEW q \in Request, Note(q) PROVE Goal
    BY <1>7, <1>same DEF Note
  <1>8. ASSUME NEW q \in Request, RollBack(q) PROVE Goal
    BY <1>8, <1>same DEF RollBack, TypeOK
  <1>9. ASSUME NEW q \in Request, Commit(q) PROVE Goal
    BY <1>9, <1>same DEF Commit, TypeOK
  <1>10. ASSUME UNCHANGED vars PROVE Goal
    BY <1>10, <1>same DEF vars
  <1>11. Goal
    BY <1>1, <1>2, <1>3, <1>4, <1>5, <1>6, <1>7, <1>8, <1>9, <1>10
       DEF Next, Progress, Duplicate, Abort
  <1> QED
    BY <1>11 DEF Goal

-----------------------------------------------------------------------------
(***************************************************************************)
(* Work and locks.  Each request's part of WorkKnown and LocksOrdered       *)
(* depends on its own local[q], todo[q] and locks only.                     *)
(***************************************************************************)
\* A step that takes q's work and locks over leaves q's part intact.
LEMMA StepWorkKnown ==
    IInv /\ [Next]_vars => WorkKnown'
  <1> SUFFICES ASSUME IInv, [Next]_vars, NEW p \in Request
               PROVE  /\ pc'[p] # "inTx" => todo'[p] = {} /\ Held(p)' = {}
                      /\ todo'[p] \cup Held(p)' \subseteq MostNeeded(p)'
    BY DEF WorkKnown, Held, MostNeeded, Needed
  <1> DEFINE Goal == /\ pc'[p] # "inTx" => todo'[p] = {} /\ Held(p)' = {}
                     /\ todo'[p] \cup Held(p)' \subseteq MostNeeded(p)'
  <1> USE DEF IInv
  \* p goes on with no more work and no more locks than before.
  <1>same. ASSUME pc'[p] = "inTx" \/ pc[p] # "inTx",
                  local'[p].op = local[p].op, local'[p].body = local[p].body,
                  todo'[p] \cup Held(p)' \subseteq todo[p] \cup Held(p)
           PROVE  Goal
    <2>1. MostNeeded(p)' = MostNeeded(p)
      BY <1>same DEF MostNeeded, Needed, NamesCycle
    <2> QED
      BY <1>same, <2>1 DEF WorkKnown
  \* p has nothing left to do and holds nothing.
  <1>idle. ASSUME todo'[p] = {}, Held(p)' = {}
           PROVE  Goal
    BY <1>idle
  <1>open. ASSUME NEW mode, pc'[p] = "inTx",
                  todo'[p] = Needed(local'[p].op, local'[p].body, mode), Held(p)' = {}
           PROVE  Goal
    <2>1. todo'[p] \subseteq MostNeeded(p)'
      BY <1>open, NeededIsMost DEF MostNeeded
    <2> QED
      BY <1>open, <2>1
  <1> HIDE DEF Goal
  <1>1. ASSUME NEW q \in Request, Ask(q) PROVE Goal
    BY <1>1, <1>same, <1>idle DEF Ask, TypeOK, WorkKnown, Held
  <1>2. ASSUME NEW q \in Request, Decide(q) PROVE Goal
    BY <1>2, <1>same, <1>idle DEF Decide, TypeOK, WorkKnown, Held
  <1>3. ASSUME NEW q \in Request, Fail(q) PROVE Goal
    BY <1>3, <1>same, <1>idle DEF Fail, TypeOK, WorkKnown, Held
  <1>4. ASSUME NEW q \in Request, Open(q) PROVE Goal
    <2>1. CASE p # q
      BY <1>4, <2>1, <1>same DEF Open, TypeOK, Held
    <2>2. CASE p = q
      <3>1. Held(p)' = {} /\ todo[p] = {}
        BY <1>4, <2>2 DEF Open, WorkKnown, Held
      <3>2. CASE pc'[p] = "inTx"
        <4> DEFINE mode == IF run = NoRow THEN "deterministic" ELSE run.mode
        <4>1. todo'[p] = Needed(local[p].op, local[p].body, mode)
          BY <1>4, <2>2, <3>2 DEF Open, TypeOK
        <4>2. local'[p].op = local[p].op /\ local'[p].body = local[p].body
          BY <1>4, <2>2, <3>2 DEF Open, TypeOK, LocalState
        <4> HIDE DEF mode
        <4> QED
          BY <3>1, <3>2, <4>1, <4>2, <1>open
      <3>3. CASE pc'[p] # "inTx"
        BY <1>4, <2>2, <3>1, <3>3, <1>idle DEF Open, TypeOK
      <3> QED
        BY <3>2, <3>3
    <2> QED
      BY <2>1, <2>2
  <1>5. ASSUME NEW q \in Request, NEW row \in Rows, Write(q, row) PROVE Goal
    <2>1. Held(p)' = Held(p) \cup (IF p = q THEN {row} ELSE {})
      BY <1>5, InitialAssumption DEF Write, Held, TypeOK
    <2>2. todo'[p] = todo[p] \ (IF p = q THEN {row} ELSE {}) /\ row \in todo[q]
      BY <1>5 DEF Write, Doing, TypeOK
    <2>3. local'[p].op = local[p].op /\ local'[p].body = local[p].body
      BY <1>5 DEF Write, TypeOK, LocalState
    <2>4. pc'[p] = pc[p]
      BY <1>5 DEF Write
    <2> QED
      BY <2>1, <2>2, <2>3, <2>4, <1>same
  <1>6. ASSUME NEW q \in Request, Infer(q) PROVE Goal
    <2>1. local'[p].op = local[p].op /\ local'[p].body = local[p].body
      BY <1>6 DEF Infer, TypeOK, LocalState
    <2> QED
      BY <1>6, <2>1, <1>same DEF Infer, TypeOK, Held
  <1>7. ASSUME NEW q \in Request, Note(q) PROVE Goal
    BY <1>7, <1>same DEF Note, TypeOK, Held
  <1>8. ASSUME NEW q \in Request, RollBack(q) PROVE Goal
    <2>1. CASE p = q
      BY <1>8, <2>1, <1>idle, InitialAssumption DEF RollBack, TypeOK, Held
    <2>2. CASE p # q
      BY <1>8, <2>2, <1>same, InitialAssumption DEF RollBack, TypeOK, Held
    <2> QED
      BY <2>1, <2>2
  <1>9. ASSUME NEW q \in Request, Commit(q) PROVE Goal
    <2>1. CASE p = q
      BY <1>9, <2>1, <1>idle, InitialAssumption DEF Commit, TypeOK, Held
    <2>2. CASE p # q
      BY <1>9, <2>2, <1>same, InitialAssumption DEF Commit, TypeOK, Held
    <2> QED
      BY <2>1, <2>2
  <1>10. ASSUME UNCHANGED vars PROVE Goal
    BY <1>10, <1>same DEF vars, Held
  <1>11. Goal
    BY <1>1, <1>2, <1>3, <1>4, <1>5, <1>6, <1>7, <1>8, <1>9, <1>10
       DEF Next, Progress, Duplicate, Abort
  <1> QED
    BY <1>11 DEF Goal

\* The rank of a row does not depend on the operation.
LEMMA RowRanks ==
    ASSUME NEW op, NEW row \in Rows
    PROVE  /\ Rank(op, row) \in 1..4
           /\ row = "run" <=> Rank(op, row) = 1
           /\ row = "cycle" <=> Rank(op, row) = 2
           /\ row = "comparison" <=> Rank(op, row) = 4
           /\ \A other : Rank(other, row) = Rank(op, row)
  BY DEF Rank, Rows

\* The next row locked comes after those held.
LEMMA StepLocksOrdered ==
    IInv /\ [Next]_vars => LocksOrdered'
  <1> SUFFICES ASSUME IInv, [Next]_vars, NEW p \in Request,
                      NEW h \in Rows, NEW t \in Rows, lock'[h] = p, t \in todo'[p]
               PROVE  Rank(local'[p].op, h) < Rank(local'[p].op, t)
    BY DEF LocksOrdered, Held, Rank
  <1> DEFINE Goal == Rank(local'[p].op, h) < Rank(local'[p].op, t)
  <1> USE DEF IInv
  <1>same. ASSUME lock[h] = p, t \in todo[p]
           PROVE  Goal
    <2>1. Rank(local[p].op, h) < Rank(local[p].op, t)
      BY <1>same DEF LocksOrdered, Held
    <2> QED
      BY <2>1, RowRanks
  \* The row that is locked now came before those that remain.
  <1>next. ASSUME Doing(p, h), t \in todo[p], t # h
           PROVE  Goal
    <2>1. Rank(local[p].op, h) <= Rank(local[p].op, t)
      BY <1>next DEF Doing
    <2> QED
      BY <1>next, <2>1, RowRanks DEF Rows
  <1> HIDE DEF Goal
  <1>1. ASSUME NEW q \in Request, Ask(q) PROVE Goal
    BY <1>1, <1>same DEF Ask
  <1>2. ASSUME NEW q \in Request, Decide(q) PROVE Goal
    BY <1>2, <1>same DEF Decide
  <1>3. ASSUME NEW q \in Request, Fail(q) PROVE Goal
    BY <1>3, <1>same DEF Fail
  <1>4. ASSUME NEW q \in Request, Open(q) PROVE Goal
    BY <1>4, <1>same DEF Open, TypeOK, WorkKnown, Held
  <1>5. ASSUME NEW q \in Request, NEW row \in Rows, Write(q, row) PROVE Goal
    BY <1>5, <1>same, <1>next, InitialAssumption DEF Write, TypeOK
  <1>6. ASSUME NEW q \in Request, Infer(q) PROVE Goal
    BY <1>6, <1>same DEF Infer, TypeOK
  <1>7. ASSUME NEW q \in Request, Note(q) PROVE Goal
    BY <1>7, <1>same DEF Note, TypeOK
  <1>8. ASSUME NEW q \in Request, RollBack(q) PROVE Goal
    BY <1>8, <1>same, InitialAssumption DEF RollBack, TypeOK
  <1>9. ASSUME NEW q \in Request, Commit(q) PROVE Goal
    BY <1>9, <1>same, InitialAssumption DEF Commit, TypeOK
  <1>10. ASSUME UNCHANGED vars PROVE Goal
    BY <1>10, <1>same DEF vars
  <1>11. Goal
    BY <1>1, <1>2, <1>3, <1>4, <1>5, <1>6, <1>7, <1>8, <1>9, <1>10
       DEF Next, Progress, Duplicate, Abort
  <1> QED
    BY <1>11 DEF Goal

-----------------------------------------------------------------------------
(***************************************************************************)
(* The theorems.                                                           *)
(***************************************************************************)
\* At the start nobody has read, planned or locked anything.
LEMMA InitIInv ==
    Init => IInv
  <1> SUFFICES ASSUME Init PROVE IInv
    OBVIOUS
  <1>1. \A q \in Request : pc[q] = "idle" /\ todo[q] = {} /\ Held(q) = {}
    BY InitialAssumption DEF Init, Held
  <1> QED
    BY <1>1, InitTypeOK DEF IInv, CallsKnown, RowsRead, WorkKnown, LocksOrdered

\* What a transaction writes is known, wherever the others are.
THEOREM InductiveInvariant ==
    Spec => []IInv
  <1>1. IInv /\ [Next]_vars => IInv'
    BY StepTypeOK, StepCallsKnown, StepRowsRead, StepWorkKnown, StepLocksOrdered DEF IInv
  <1> QED
    BY InitIInv, <1>1, PTL DEF Spec

\* The rows, the records and the locks keep their types: whatever calls overlap,
\* fail or write back stale copies, no row leaves the vocabulary that the
\* validation of the Manager admits.
THEOREM TypeCorrect ==
    Spec => []TypeOK
  <1>1. IInv => TypeOK
    BY DEF IInv
  <1> QED
    BY <1>1, InductiveInvariant, PTL

\* Row locks never form a cycle, for any number of requests: the last row that
\* anybody waits for has a holder that waits for nothing.
LEMMA OrderedLocksDoNotCycle ==
    IInv => NoWaitCycle
  <1> SUFFICES ASSUME IInv, NEW waiting \in SUBSET Request, waiting # {},
                      \A p \in waiting : \E q \in waiting : WaitsFor(p, q)
               PROVE  FALSE
    BY DEF NoWaitCycle
  \* The holder of a row waits for a later one.
  <1>1. ASSUME NEW p \in waiting, NEW row \in Rows, Doing(p, row)
        PROVE  row # "comparison" /\ \E later \in Rows, q \in waiting :
                   Doing(q, later) /\ Rank("none", row) < Rank("none", later)
    <2>1. PICK q \in waiting, wanted \in Rows : Doing(p, wanted) /\ lock[wanted] = q
      BY DEF WaitsFor
    <2>2. wanted = row
      BY <1>1, <2>1, RowRanks DEF Doing, Rows
    <2>3. PICK later \in Rows : Doing(q, later)
      BY DEF WaitsFor
    <2>4. Rank(local[q].op, row) < Rank(local[q].op, later)
      BY <2>1, <2>2, <2>3 DEF IInv, LocksOrdered, Held, Doing
    <2>5. Rank("none", row) < Rank("none", later)
      BY <2>4, RowRanks
    <2> QED
      BY <2>3, <2>5, RowRanks
  <1>2. ~ \E p \in waiting : Doing(p, "comparison")
    BY <1>1 DEF Rows
  <1>3. ~ \E p \in waiting : Doing(p, "cycle")
    BY <1>1, <1>2, RowRanks DEF Rows
  <1>4. ~ \E p \in waiting : Doing(p, "run")
    BY <1>1, <1>2, <1>3, RowRanks DEF Rows
  <1> QED
    BY <1>2, <1>3, <1>4 DEF WaitsFor, Rows

\* No set of transactions ever waits for itself.
THEOREM LocksNeverCycle ==
    Spec => []NoWaitCycle
  BY OrderedLocksDoNotCycle, InductiveInvariant, PTL

-----------------------------------------------------------------------------
(***************************************************************************)
(* Nothing governed without a recorded verdict.  Decisions and governance  *)
(* events are never taken back, so it is enough that a call that has got   *)
(* past its decision was allowed, whatever is committed in between.        *)
(***************************************************************************)
Authorised(q) ==
    /\ [by |-> q, allow |-> TRUE] \in decisions
    /\ [by |-> q, event |-> "policy"] \in ledger

\* No step takes a decision or a governance event back.
LEMMA RecordsStay ==
    ASSUME [Next]_vars
    PROVE  decisions \subseteq decisions' /\ ledger \subseteq ledger'
  BY DEF Next, Progress, Ask, Decide, Fail, Open, Write, Infer, Note, Duplicate, RollBack,
         Abort, Commit, vars

\* A call of a governed kind only gets past its decision when it was allowed.
LEMMA StepAllowedPastDecision ==
    IInv /\ AllowedPastDecision /\ [Next]_vars => AllowedPastDecision'
  <1> SUFFICES ASSUME IInv, AllowedPastDecision, [Next]_vars, NEW p \in Request,
                      pc'[p] \in {"ready", "inTx"}, local'[p].op \in Governed
               PROVE  Authorised(p)'
    BY DEF AllowedPastDecision, Authorised
  <1> USE DEF IInv
  <1>same. ASSUME pc[p] \in {"ready", "inTx"}, local'[p].op = local[p].op
           PROVE  Authorised(p)'
    BY <1>same, RecordsStay DEF AllowedPastDecision, Authorised
  <1>1. ASSUME NEW q \in Request, Ask(q) PROVE Authorised(p)'
    <2>1. CASE p = q
      BY <1>1, <2>1 DEF Ask, TypeOK, Blank, Governed
    <2>2. CASE p # q
      BY <1>1, <2>2, <1>same DEF Ask, TypeOK
    <2> QED
      BY <2>1, <2>2
  <1>2. ASSUME NEW q \in Request, Decide(q) PROVE Authorised(p)'
    <2>1. CASE p # q
      BY <1>2, <2>1, <1>same DEF Decide, TypeOK
    <2>2. CASE p = q
      <3> DEFINE allow == EvaluatePolicyOutcome(PolicyInput(q)).allow
                 after == AfterVerdict(local[q].op, allow)
                 loaded == IF PolicyInput(q).targets = {} THEN NoRow ELSE profile
      <3>1. /\ decisions' = decisions \cup {[by |-> q, allow |-> allow]}
            /\ ledger' = ledger \cup {[by |-> q, event |-> "policy"]}
            /\ after.stage # "refused"
            /\ local' = [local EXCEPT ![q] =
                   IF after.stage = "refused" THEN Blank
                   ELSE [local[q] EXCEPT !.op = after.op, !.profile = loaded]]
        BY <1>2, <2>2 DEF Decide, TypeOK
      <3>2. allow \/ after.op = "markFailed"
        BY <3>1 DEF AfterVerdict
      <3>3. allow \in BOOLEAN
        BY DEF EvaluatePolicyOutcome, Deny, Allow
      <3> HIDE DEF allow, after, loaded
      <3>4. local'[p].op = after.op
        BY <2>2, <3>1 DEF TypeOK, LocalState
      <3>5. allow = TRUE
        BY <3>2, <3>3, <3>4 DEF Governed
      <3> QED
        BY <2>2, <3>1, <3>5 DEF Authorised
    <2> QED
      BY <2>1, <2>2
  <1>3. ASSUME NEW q \in Request, Fail(q) PROVE Authorised(p)'
    BY <1>3, <1>same DEF Fail, TypeOK
  <1>4. ASSUME NEW q \in Request, Open(q) PROVE Authorised(p)'
    <2>1. CASE p # q
      BY <1>4, <2>1, <1>same DEF Open, TypeOK
    <2>2. CASE p = q
      BY <1>4, <2>2, <1>same DEF Open, TypeOK, LocalState
    <2> QED
      BY <2>1, <2>2
  <1>5. ASSUME NEW q \in Request, NEW row \in Rows, Write(q, row) PROVE Authorised(p)'
    BY <1>5, <1>same DEF Write, Doing, TypeOK, LocalState
  <1>6. ASSUME NEW q \in Request, Infer(q) PROVE Authorised(p)'
    BY <1>6, <1>same DEF Infer, Doing, TypeOK, LocalState
  <1>7. ASSUME NEW q \in Request, Note(q) PROVE Authorised(p)'
    BY <1>7, <1>same DEF Note
  <1>8. ASSUME NEW q \in Request, RollBack(q) PROVE Authorised(p)'
    BY <1>8, <1>same DEF RollBack, TypeOK
  <1>9. ASSUME NEW q \in Request, Commit(q) PROVE Authorised(p)'
    BY <1>9, <1>same DEF Commit, TypeOK
  <1>10. ASSUME UNCHANGED vars PROVE Authorised(p)'
    BY <1>10, <1>same DEF vars
  <1> QED
    BY <1>1, <1>2, <1>3, <1>4, <1>5, <1>6, <1>7, <1>8, <1>9, <1>10
       DEF Next, Progress, Duplicate, Abort

\* Governed effects are entered by COMMIT alone, for the committing call.
LEMMA StepEffectsAuthorised ==
    AllowedPastDecision /\ EffectsAuthorised /\ [Next]_vars => EffectsAuthorised'
  <1> SUFFICES ASSUME AllowedPastDecision, EffectsAuthorised, [Next]_vars,
                      NEW e \in ledger', e.event \in Governed
               PROVE  Authorised(e.by)'
    BY DEF EffectsAuthorised, Authorised
  <1>1. CASE e \in ledger
    <2>1. Authorised(e.by)
      BY <1>1 DEF EffectsAuthorised, Authorised
    <2> QED
      BY <2>1, RecordsStay DEF Authorised
  <1>2. CASE e \notin ledger
    <2>1. ASSUME NEW q \in Request, Decide(q) PROVE FALSE
      BY <1>2, <2>1 DEF Decide, Governed
    <2>2. ASSUME NEW q \in Request, Commit(q) PROVE Authorised(e.by)'
      <3>1. e \in LedgerEvents(q)
        BY <1>2, <2>2 DEF Commit
      <3>2. e.by = q /\ e.event = local[q].op
        BY <3>1 DEF LedgerEvents, GuardrailEvents, Governed
      <3>3. Authorised(q)
        BY <2>2, <3>2 DEF Commit, AllowedPastDecision, Authorised
      <3> QED
        BY <3>2, <3>3, RecordsStay DEF Authorised
    <2>3. CASE UNCHANGED ledger
      BY <1>2, <2>3
    <2> QED
      BY <2>1, <2>2, <2>3 DEF Next, Progress, Ask, Fail, Open, Write, Infer, Note, Duplicate,
                              RollBack, Abort, vars
  <1> QED
    BY <1>1, <1>2

\* Every effect a governed call leaves on the ledger was allowed by a decision
\* that the ledger holds too, whichever calls overlap, fail or are refused.
THEOREM EffectsAlwaysAuthorised ==
    Spec => []EffectsAuthorised
  <1>1. Init => AllowedPastDecision /\ EffectsAuthorised
    BY DEF Init, AllowedPastDecision, EffectsAuthorised
  <1>2. IInv /\ AllowedPastDecision /\ EffectsAuthorised /\ [Next]_vars =>
            AllowedPastDecision' /\ EffectsAuthorised'
    BY StepAllowedPastDecision, StepEffectsAuthorised
  <1> QED
    BY <1>1, <1>2, InductiveInvariant, PTL DEF Spec
-----------------------------------------------------------------------------
(***************************************************************************)
(* Sound rows.  What the manager itself makes of a run and its cycle has   *)
(* its cause in the records.  A transaction may write back a copy that is  *)
(* long out of date, so each copy has to be as sound as the row; it stays  *)
(* so because records and notes are never taken back.                      *)
(***************************************************************************)
\* A deferral has no verdict, and what waits for a review has none missing.
GuardrailAgrees(row) ==
    /\ row.status = "guardrail_deferred" => row.guardrail \in GuardrailDeferrals
    /\ row.status = "review_pending" => row.guardrail \notin GuardrailDeferrals

Reviewed(row) == row.status \in ReviewOutcomes => \E r \in reviews : r.new = row.status

SoundRun(row) ==
    /\ RefsLeft => row.refs \subseteq artifacts /\ row.notes \subseteq notes
    /\ ExecutionLeft => Explained(row.status)
    /\ ReviewLeft => Reviewed(row)
    /\ OutcomeLeft => /\ GuardrailAgrees(row)
                      /\ row.status = "completed" => row.mode = "deterministic"

SoundCycle(row) ==
    /\ RefsLeft => row.summary \in artifacts \cup {NoRow} /\ row.snapshot \in notes \cup {NoRow}
    /\ ExecutionLeft => Explained(row.status)
    /\ ReviewLeft => Reviewed(row)
    /\ OutcomeLeft => GuardrailAgrees(row)

SoundRows ==
    /\ run # NoRow => SoundRun(run)
    /\ cycle # NoRow => SoundCycle(cycle)
    /\ \A q \in Request : pc[q] = "inTx" =>
          /\ local[q].run # NoRow => SoundRun(local[q].run)
          /\ local[q].cycle # NoRow => SoundCycle(local[q].cycle)

\* Only an execution that was refused marks the run.
DeniedPast(q) ==
    /\ [by |-> q, allow |-> FALSE] \in decisions
    /\ [by |-> q, event |-> "policy"] \in ledger

MarksDenied ==
    \A q \in Request :
        /\ pc[q] = "asking" => local[q].op \in Governed
        /\ pc[q] \in {"ready", "inTx"} /\ local[q].op = "markFailed" => DeniedPast(q)

\* What is recorded or stored stays.
LEMMA EvidenceStays ==
    ASSUME [Next]_vars
    PROVE  /\ decisions \subseteq decisions' /\ ledger \subseteq ledger'
           /\ artifacts \subseteq artifacts' /\ notes \subseteq notes'
           /\ reviews \subseteq reviews'
  BY DEF Next, Progress, Ask, Decide, Fail, Open, Write, Infer, Note, Duplicate, RollBack,
         Abort, Commit, WrittenArtifacts, vars, tables

\* A sound row stays sound.
LEMMA SoundStays ==
    ASSUME [Next]_vars
    PROVE  /\ \A row : SoundRun(row) => SoundRun(row)'
           /\ \A row : SoundCycle(row) => SoundCycle(row)'
  <1>1. \A status : Explained(status) => Explained(status)'
    BY EvidenceStays DEF Explained
  <1>2. \A row : Reviewed(row) => Reviewed(row)'
    BY EvidenceStays DEF Reviewed
  <1>3. \A row : GuardrailAgrees(row) => GuardrailAgrees(row)'
    BY DEF GuardrailAgrees
  <1> QED
    BY <1>1, <1>2, <1>3, EvidenceStays DEF SoundRun, SoundCycle

\* A status that a client gives needs no cause where clients leave the others alone.
LEMMA GivenStatus ==
    ASSUME NEW body \in Given, "status" \in DOMAIN body
    PROVE  /\ ExecutionLeft => Explained(body.status)
           /\ OutcomeLeft => body.status \notin ExecutionOutcomes
           /\ ReviewLeft => body.status \notin ReviewOutcomes
  BY DEF ExecutionLeft, OutcomeLeft, ReviewLeft, NeverGiven, Explained

\* A row that a client gives whole is sound.
LEMMA GivenRowSound ==
    ASSUME NEW row \in Given
    PROVE  /\ row \in RunRows => SoundRun(row)
           /\ row \in CycleRows => SoundCycle(row)
  <1>1. CASE "status" \in DOMAIN row
    <2>1. /\ ExecutionLeft => Explained(row.status)
          /\ ReviewLeft => Reviewed(row)
          /\ OutcomeLeft => GuardrailAgrees(row) /\ row.status # "completed"
      BY <1>1, GivenStatus DEF Reviewed, GuardrailAgrees, ExecutionOutcomes
    <2>2. row \in RunRows /\ RefsLeft => row.refs = {} /\ row.notes = {}
      BY DEF RefsLeft, RunRows
    <2>3. row \in CycleRows /\ RefsLeft => row.summary = NoRow /\ row.snapshot = NoRow
      BY DEF RefsLeft, CycleRows
    <2> QED
      BY <2>1, <2>2, <2>3 DEF SoundRun, SoundCycle
  <1>2. CASE "status" \notin DOMAIN row
    BY <1>2 DEF RunRows, CycleRows
  <1> QED
    BY <1>1, <1>2

\* What a call gives.
LEMMA CallGives ==
    ASSUME NEW op \in Patches \cup {"create", "createCycle"}, NEW body, KnownCall(op, body)
    PROVE  body \in Given
  BY DEF KnownCall, Given, Patches

\* A PATCH of a column that it may not give leaves it alone.
LEMMA PatchLeaves ==
    ASSUME NEW op \in Patches, NEW body, KnownCall(op, body), OutcomeLeft
    PROVE  DOMAIN body \cap {"guardrail", "mode"} = {}
  BY DEF KnownCall, Patches, OutcomeLeft, NeverPatched

\* A refusal is on record before the run is marked.
LEMMA StepMarksDenied ==
    IInv /\ MarksDenied /\ [Next]_vars => MarksDenied'
  <1> SUFFICES ASSUME IInv, MarksDenied, [Next]_vars, NEW p \in Request
               PROVE  /\ pc'[p] = "asking" => local'[p].op \in Governed
                      /\ pc'[p] \in {"ready", "inTx"} /\ local'[p].op = "markFailed"
                             => DeniedPast(p)'
    BY DEF MarksDenied, DeniedPast
  <1> DEFINE Goal == /\ pc'[p] = "asking" => local'[p].op \in Governed
                     /\ pc'[p] \in {"ready", "inTx"} /\ local'[p].op = "markFailed"
                             => DeniedPast(p)'
  <1> USE DEF IInv
  <1>same. ASSUME pc'[p] = "asking" => pc[p] = "asking",
                  pc'[p] \in {"ready", "inTx"} => pc[p] \in {"ready", "inTx"},
                  pc'[p] \in {"asking", "ready", "inTx"} => local'[p].op = local[p].op
           PROVE  Goal
    BY <1>same, EvidenceStays DEF MarksDenied, DeniedPast
  <1> HIDE DEF Goal
  <1>1. ASSUME NEW q \in Request, Ask(q) PROVE Goal
    <2>1. CASE p = q
      <3>1. CASE pc'[p] = "failed"
        BY <3>1 DEF Goal
      <3>2. CASE pc'[p] # "failed"
        <4>1. PICK c \in Calls :
                  /\ pc' = [pc EXCEPT ![q] = IF c.op \in Governed THEN "asking" ELSE "ready"]
                  /\ local' = [local EXCEPT ![q] =
                        [Blank EXCEPT !.op = c.op, !.body = c.body, !.run = run]]
          BY <1>1, <2>1, <3>2 DEF Ask, TypeOK
        <4>2. local'[p].op = c.op /\ c.op # "markFailed"
          BY <2>1, <4>1, CallsAssumption DEF TypeOK, Blank
        <4> QED
          BY <2>1, <4>1, <4>2 DEF Goal, TypeOK
      <3> QED
        BY <3>1, <3>2
    <2>2. CASE p # q
      BY <1>1, <2>2, <1>same DEF Ask, TypeOK
    <2> QED
      BY <2>1, <2>2
  <1>2. ASSUME NEW q \in Request, Decide(q) PROVE Goal
    <2>1. CASE p # q
      BY <1>2, <2>1, <1>same DEF Decide, TypeOK
    <2>2. CASE p = q
      <3> DEFINE allow == EvaluatePolicyOutcome(PolicyInput(q)).allow
                 after == AfterVerdict(local[q].op, allow)
                 loaded == IF PolicyInput(q).targets = {} THEN NoRow ELSE profile
      <3>1. CASE pc'[p] \in {"asking", "failed"}
        <4>1. pc'[p] # "asking"
          BY <1>2, <2>2 DEF Decide, TypeOK, AfterVerdict
        <4> QED
          BY <3>1, <4>1 DEF Goal
      <3>2. CASE pc'[p] \notin {"asking", "failed"}
        <4>1. /\ decisions' = decisions \cup {[by |-> q, allow |-> allow]}
              /\ ledger' = ledger \cup {[by |-> q, event |-> "policy"]}
              /\ pc' = [pc EXCEPT ![q] = after.stage]
              /\ local' = [local EXCEPT ![q] =
                     IF after.stage = "refused" THEN Blank
                     ELSE [local[q] EXCEPT !.op = after.op, !.profile = loaded]]
          BY <1>2, <2>2, <3>2 DEF Decide, TypeOK
        <4>2. local[q].op # "markFailed"
          BY <1>2 DEF Decide, MarksDenied, Governed
        <4>3. after.op = "markFailed" => ~allow
          BY <4>2 DEF AfterVerdict
        <4>4. allow \in BOOLEAN
          BY DEF EvaluatePolicyOutcome, Deny, Allow
        <4> HIDE DEF allow, after, loaded
        <4>5. local'[p].op = after.op \/ pc'[p] = "refused"
          BY <2>2, <4>1 DEF TypeOK, LocalState
        <4>6. local'[p].op = "markFailed" /\ pc'[p] # "refused" => DeniedPast(p)'
          BY <2>2, <4>1, <4>3, <4>4, <4>5 DEF DeniedPast
        <4> QED
          BY <3>2, <4>6 DEF Goal
      <3> QED
        BY <3>1, <3>2
    <2> QED
      BY <2>1, <2>2
  <1>3. ASSUME NEW q \in Request, Fail(q) PROVE Goal
    BY <1>3, <1>same DEF Fail, TypeOK
  <1>4. ASSUME NEW q \in Request, Open(q) PROVE Goal
    <2>1. CASE p # q
      BY <1>4, <2>1, <1>same DEF Open, TypeOK
    <2>2. CASE p = q
      BY <1>4, <2>2, <1>same DEF Open, TypeOK, LocalState
    <2> QED
      BY <2>1, <2>2
  <1>5. ASSUME NEW q \in Request, NEW row \in Rows, Write(q, row) PROVE Goal
    BY <1>5, <1>same DEF Write, TypeOK, LocalState
  <1>6. ASSUME NEW q \in Request, Infer(q) PROVE Goal
    BY <1>6, <1>same DEF Infer, TypeOK, LocalState
  <1>7. ASSUME NEW q \in Request, Note(q) PROVE Goal
    BY <1>7, <1>same DEF Note
  <1>8. ASSUME NEW q \in Request, RollBack(q) PROVE Goal
    BY <1>8, <1>same DEF RollBack, TypeOK
  <1>9. ASSUME NEW q \in Request, Commit(q) PROVE Goal
    BY <1>9, <1>same DEF Commit, TypeOK
  <1>10. ASSUME UNCHANGED vars PROVE Goal
    BY <1>10, <1>same DEF vars
  <1>11. Goal
    BY <1>1, <1>2, <1>3, <1>4, <1>5, <1>6, <1>7, <1>8, <1>9, <1>10
       DEF Next, Progress, Duplicate, Abort
  <1> QED
    BY <1>11 DEF Goal

\* What a transaction gives the run has its cause in what it enters with it.
LEMMA WrittenRunSound ==
    ASSUME IInv, SoundRows, MarksDenied, [Next]_vars, NEW q \in Request,
           Commit(q), lock["run"] = q \/ local[q].op = "create",
           NEW row, row = WrittenRun(q)
    PROVE  SoundRun(row)'
  <1> USE DEF IInv
  <1>1. pc[q] = "inTx" /\ KnownCall(local[q].op, local[q].body)
    BY DEF Commit, CallsKnown
  <1>2. artifacts' = WrittenArtifacts(q) /\ notes' = notes
        /\ reviews' = reviews \cup ReviewRecords(q) /\ ledger' = ledger \cup LedgerEvents(q)
    BY DEF Commit
  <1>3. CASE local[q].op = "create"
    <2>1. row \in Given /\ row \in RunRows
      BY <1>1, <1>3, CallGives, KnownCallShape DEF WrittenRun, CreatedRun
    <2>2. SoundRun(row)
      BY <2>1, GivenRowSound
    <2> QED
      BY <2>2, SoundStays
  <1>4. CASE local[q].op # "create"
    <2>0. PICK old : old = local[q].run
      OBVIOUS
    <2>1. local[q].op \in {"patch", "review", "attach", "execute", "noteCycle", "markFailed"}
      BY <1>4 DEF WorkKnown, Held, Rows, MostNeeded, Needed
    <2>2. old \in RunRows /\ SoundRun(old)
      BY <1>1, <2>0, <2>1 DEF TypeOK, LocalState, RowsRead, SoundRows
    <2>3. SoundRun(old)'
      BY <2>2, SoundStays
    <2>4. NoteOf(q) \subseteq notes'
      BY <1>2 DEF NoteOf
    <2>5. CASE local[q].op = "patch"
      <3>0. PICK body : body = local[q].body
        OBVIOUS
      <3>1. row = Patched(old, body) /\ body \in Given /\ KnownCall("patch", body)
        BY <1>1, <2>0, <2>5, <3>0, CallGives DEF WrittenRun, Patches
      <3>2. \A f \in {"refs", "notes", "status", "guardrail", "mode"} :
                row[f] = old[f] \/ (f \in DOMAIN body /\ row[f] = body[f])
        BY <2>2, <3>1 DEF Patched, RunRows
      <3>3. RefsLeft => row.refs \subseteq artifacts' /\ row.notes \subseteq notes'
        BY <2>3, <3>1, <3>2 DEF SoundRun, RefsLeft
      <3>4. CASE row.status = old.status
        <4>1. OutcomeLeft => row.guardrail = old.guardrail /\ row.mode = old.mode
          BY <3>1, <3>2, PatchLeaves DEF Patches
        <4> QED
          BY <2>3, <3>3, <3>4, <4>1 DEF SoundRun, GuardrailAgrees, Reviewed
      <3>5. CASE row.status # old.status
        <4>1. "status" \in DOMAIN body /\ row.status = body.status
          BY <3>2, <3>5
        <4>2. /\ ExecutionLeft => Explained(row.status)
              /\ OutcomeLeft => row.status \notin ExecutionOutcomes
              /\ ReviewLeft => row.status \notin ReviewOutcomes
          BY <3>1, <4>1, GivenStatus
        <4>3. ExecutionLeft => Explained(row.status)'
          BY <4>2, EvidenceStays DEF Explained
        <4> QED
          BY <3>3, <4>2, <4>3 DEF SoundRun, GuardrailAgrees, Reviewed, ExecutionOutcomes
      <3> QED
        BY <3>4, <3>5
    <2>6. CASE local[q].op = "review"
      <3>1. row = [old EXCEPT !.status = NewStatus(q)]
        BY <2>0, <2>6 DEF WrittenRun
      <3>2. row.refs = old.refs /\ row.notes = old.notes /\ row.status = NewStatus(q)
        BY <2>2, <3>1 DEF RunRows
      <3>3. NewStatus(q) \in ReviewOutcomes
        BY <1>1, <2>6, KnownCallShape
           DEF NewStatus, ReviewStatusOf, ReviewActions, ReviewOutcomes
      <3>4. \E r \in reviews' : r.new = NewStatus(q)
        <4> DEFINE r == [by |-> q, prior |-> local[q].run.status, new |-> NewStatus(q)]
        <4>1. r \in reviews'
          BY <1>2, <2>6 DEF ReviewRecords
        <4> QED
          BY <4>1
      <3> QED
        BY <2>3, <3>2, <3>3, <3>4
           DEF SoundRun, Explained, GuardrailAgrees, Reviewed, ReviewOutcomes, ExecutionOutcomes
    <2>7. CASE local[q].op = "markFailed"
      <3>1. row = [old EXCEPT !.status = "failed_policy"]
        BY <2>0, <2>7 DEF WrittenRun, NewStatus
      <3>2. row.refs = old.refs /\ row.notes = old.notes /\ row.status = "failed_policy"
        BY <2>2, <3>1 DEF RunRows
      <3>3. DeniedPast(q)
        BY <1>1, <2>7 DEF MarksDenied
      <3>4. Explained("failed_policy")'
        BY <3>3, EvidenceStays DEF DeniedPast, Explained, ExecutionOutcomes
      <3> QED
        BY <2>3, <3>2, <3>4 DEF SoundRun, GuardrailAgrees, Reviewed, ReviewOutcomes
    <2>8. CASE local[q].op = "attach"
      <3>1. row = [old EXCEPT !.refs = @ \cup {q}] /\ q \in artifacts'
        BY <1>2, <2>0, <2>8 DEF WrittenRun, WrittenArtifacts
      <3>2. /\ row.refs = old.refs \cup {q} /\ row.notes = old.notes /\ row.mode = old.mode
            /\ row.guardrail = old.guardrail /\ row.status = old.status
        BY <2>2, <3>1 DEF RunRows
      <3> QED
        BY <2>3, <3>1, <3>2 DEF SoundRun, GuardrailAgrees, Reviewed
    <2>9. CASE local[q].op = "noteCycle"
      <3>1. row = [old EXCEPT !.notes = @ \cup NoteOf(q)]
        BY <2>0, <2>9 DEF WrittenRun
      <3>2. /\ row.refs = old.refs /\ row.notes = old.notes \cup NoteOf(q)
            /\ row.mode = old.mode
            /\ row.guardrail = old.guardrail /\ row.status = old.status
        BY <2>2, <3>1 DEF RunRows
      <3> QED
        BY <2>3, <2>4, <3>2 DEF SoundRun, GuardrailAgrees, Reviewed
    <2>10. CASE local[q].op = "execute"
      <3>1. row = [old EXCEPT !.refs = @ \cup {q}, !.status = NewStatus(q),
                              !.guardrail = local[q].guardrail, !.notes = @ \cup NoteOf(q)]
        BY <2>0, <2>2, <2>10 DEF WrittenRun, NewGuardrail, RunRows
      <3>2. /\ row.refs = old.refs \cup {q} /\ row.notes = old.notes \cup NoteOf(q)
            /\ row.mode = old.mode /\ row.guardrail = local[q].guardrail
            /\ row.status = NewStatus(q)
        BY <2>2, <3>1 DEF RunRows
      <3>3. NewStatus(q) = ExecutionOutcome(old.mode, local[q].guardrail)
        BY <2>0, <2>10 DEF NewStatus
      <3>4. q \in artifacts' /\ [by |-> q, event |-> "execute"] \in ledger'
        BY <1>2, <2>10 DEF WrittenArtifacts, LedgerEvents, Governed
      <3>5. /\ NewStatus(q) \in ExecutionOutcomes /\ GuardrailAgrees(row)
            /\ NewStatus(q) = "completed" => old.mode = "deterministic"
        BY <3>2, <3>3 DEF ExecutionOutcome, ExecutionOutcomes, GuardrailAgrees
      <3>6. \A status \in ExecutionOutcomes : Explained(status)'
        BY <3>4 DEF Explained, ExecutionOutcomes
      <3> QED
        BY <2>3, <2>4, <3>2, <3>4, <3>5, <3>6
           DEF SoundRun, GuardrailAgrees, Reviewed, ReviewOutcomes, ExecutionOutcomes
    <2> QED
      BY <2>1, <2>5, <2>6, <2>7, <2>8, <2>9, <2>10
  <1> QED
    BY <1>3, <1>4

\* What a transaction gives the cycle likewise.
LEMMA WrittenCycleSound ==
    ASSUME IInv, SoundRows, MarksDenied, [Next]_vars, NEW q \in Request,
           Commit(q), lock["cycle"] = q, NEW row, row = WrittenCycle(q)
    PROVE  SoundCycle(row)'
  <1> USE DEF IInv
  <1>1. pc[q] = "inTx" /\ KnownCall(local[q].op, local[q].body)
    BY DEF Commit, CallsKnown
  <1>2. artifacts' = WrittenArtifacts(q) /\ notes' = notes
        /\ reviews' = reviews \cup ReviewRecords(q) /\ ledger' = ledger \cup LedgerEvents(q)
    BY DEF Commit
  <1>3. local[q].op = "createCycle" \/ NamesCycle(local[q].op, local[q].body)
    BY DEF WorkKnown, Held, Rows, MostNeeded, Needed
  <1>4. CASE local[q].op = "createCycle"
    <2>1. row \in Given /\ row \in CycleRows
      BY <1>1, <1>4, CallGives, KnownCallShape DEF WrittenCycle
    <2>2. SoundCycle(row)
      BY <2>1, GivenRowSound
    <2> QED
      BY <2>2, SoundStays
  <1>5. CASE NamesCycle(local[q].op, local[q].body)
    <2>0. PICK old : old = local[q].cycle
      OBVIOUS
    <2>1. local[q].op \in {"updateCycle", "noteCycle", "review", "markFailed", "execute"}
      BY <1>5 DEF NamesCycle
    <2>2. old \in CycleRows /\ SoundCycle(old)
      BY <1>1, <1>5, <2>0 DEF TypeOK, LocalState, RowsRead, SoundRows
    <2>3. SoundCycle(old)'
      BY <2>2, SoundStays
    <2>4. PICK snapshot : snapshot = IF NoteOf(q) = {} THEN old.snapshot ELSE q
      OBVIOUS
    <2>9. RefsLeft => snapshot \in notes' \cup {NoRow}
      BY <1>2, <2>3, <2>4 DEF NoteOf, SoundCycle
    <2>5. CASE local[q].op \in {"updateCycle", "noteCycle"}
      <3>0. PICK body : body = local[q].body
        OBVIOUS
      <3>1. body \in Given /\ KnownCall(local[q].op, body) /\ local[q].op \in Patches
        BY <1>1, <2>5, <3>0, CallGives DEF Patches
      <3>2. PICK patched : patched = Patched(old, body)
        OBVIOUS
      <3>3. /\ \A f \in {"status", "guardrail", "summary", "snapshot"} :
                   patched[f] = old[f] \/ (f \in DOMAIN body /\ patched[f] = body[f])
            /\ patched = [f \in {"status", "guardrail", "summary", "snapshot"} |-> patched[f]]
        BY <2>2, <3>2 DEF Patched, CycleRows
      <3>4. row = [patched EXCEPT !.snapshot = IF NoteOf(q) = {} THEN @ ELSE q]
        BY <2>0, <2>5, <3>0, <3>2 DEF WrittenCycle
      <3>5. /\ row.status = patched.status /\ row.guardrail = patched.guardrail
            /\ row.summary = patched.summary
            /\ row.snapshot = IF NoteOf(q) = {} THEN patched.snapshot ELSE q
        BY <3>3, <3>4
      <3>6. RefsLeft => row.summary \in artifacts' \cup {NoRow} /\ row.snapshot \in notes' \cup {NoRow}
        <4>1. ASSUME RefsLeft
              PROVE  patched.summary \in {old.summary, NoRow} /\ patched.snapshot \in {old.snapshot, NoRow}
          BY <3>1, <3>3, <4>1 DEF RefsLeft
        <4> QED
          BY <1>2, <2>3, <3>5, <4>1 DEF SoundCycle, NoteOf
      <3>7. CASE row.status = old.status
        <4>1. OutcomeLeft => row.guardrail = old.guardrail
          BY <3>1, <3>3, <3>5, PatchLeaves
        <4> QED
          BY <2>3, <3>6, <3>7, <4>1 DEF SoundCycle, GuardrailAgrees, Reviewed
      <3>8. CASE row.status # old.status
        <4>1. "status" \in DOMAIN body /\ row.status = body.status
          BY <3>3, <3>5, <3>8
        <4>2. /\ ExecutionLeft => Explained(row.status)
              /\ OutcomeLeft => row.status \notin ExecutionOutcomes
              /\ ReviewLeft => row.status \notin ReviewOutcomes
          BY <3>1, <4>1, GivenStatus
        <4>3. ExecutionLeft => Explained(row.status)'
          BY <4>2, EvidenceStays DEF Explained
        <4> QED
          BY <3>6, <4>2, <4>3 DEF SoundCycle, GuardrailAgrees, Reviewed, ExecutionOutcomes
      <3> QED
        BY <3>7, <3>8
    <2>6. CASE local[q].op = "review"
      <3>1. row = [old EXCEPT !.status = NewStatus(q)]
        BY <2>0, <2>6 DEF WrittenCycle
      <3>2. /\ row.summary = old.summary /\ row.snapshot = old.snapshot
            /\ row.status = NewStatus(q)
        BY <2>2, <3>1 DEF CycleRows
      <3>3. NewStatus(q) \in ReviewOutcomes
        BY <1>1, <2>6, KnownCallShape
           DEF NewStatus, ReviewStatusOf, ReviewActions, ReviewOutcomes
      <3>4. \E r \in reviews' : r.new = NewStatus(q)
        <4> DEFINE r == [by |-> q, prior |-> local[q].run.status, new |-> NewStatus(q)]
        <4>1. r \in reviews'
          BY <1>2, <2>6 DEF ReviewRecords
        <4> QED
          BY <4>1
      <3> QED
        BY <2>3, <3>2, <3>3, <3>4
           DEF SoundCycle, Explained, GuardrailAgrees, Reviewed, ReviewOutcomes,
               ExecutionOutcomes
    <2>7. CASE local[q].op = "markFailed"
      <3>1. row = [old EXCEPT !.status = "failed_policy"]
        BY <2>0, <2>7 DEF WrittenCycle, NewStatus
      <3>2. /\ row.summary = old.summary /\ row.snapshot = old.snapshot
            /\ row.status = "failed_policy"
        BY <2>2, <3>1 DEF CycleRows
      <3>3. DeniedPast(q)
        BY <1>1, <2>7 DEF MarksDenied
      <3>4. Explained("failed_policy")'
        BY <3>3, EvidenceStays DEF DeniedPast, Explained, ExecutionOutcomes
      <3> QED
        BY <2>3, <3>2, <3>4 DEF SoundCycle, GuardrailAgrees, Reviewed, ReviewOutcomes
    <2>8. CASE local[q].op = "execute"
      <3>1. row = [old EXCEPT !.status = NewStatus(q), !.guardrail = local[q].guardrail,
                              !.summary = IF @ = NoRow THEN q ELSE @,
                              !.snapshot = snapshot]
        BY <2>0, <2>2, <2>4, <2>8 DEF WrittenCycle, CycleRows
      <3>2. /\ row.summary \in {old.summary, q} /\ row.snapshot = snapshot
            /\ row.guardrail = local[q].guardrail /\ row.status = NewStatus(q)
        BY <2>2, <3>1 DEF CycleRows
      <3>3. NewStatus(q) = ExecutionOutcome(local[q].run.mode, local[q].guardrail)
        BY <2>8 DEF NewStatus
      <3>4. q \in artifacts' /\ [by |-> q, event |-> "execute"] \in ledger'
        BY <1>2, <2>8 DEF WrittenArtifacts, LedgerEvents, Governed
      <3>5. NewStatus(q) \in ExecutionOutcomes /\ GuardrailAgrees(row)
        BY <3>2, <3>3 DEF ExecutionOutcome, ExecutionOutcomes, GuardrailAgrees
      <3>6. \A status \in ExecutionOutcomes : Explained(status)'
        BY <3>4 DEF Explained, ExecutionOutcomes
      <3> QED
        BY <2>3, <2>9, <3>2, <3>4, <3>5, <3>6
           DEF SoundCycle, GuardrailAgrees, Reviewed, ReviewOutcomes, ExecutionOutcomes
    <2> QED
      BY <2>1, <2>5, <2>6, <2>7, <2>8
  <1> QED
    BY <1>3, <1>4, <1>5

\* Copies are taken from the rows, and only COMMIT changes a row.
LEMMA CopiesOfRows ==
    ASSUME IInv, [Next]_vars, NEW p \in Request, pc'[p] = "inTx"
    PROVE  /\ \/ local'[p].run = run
              \/ pc[p] = "inTx" /\ local'[p].run = local[p].run
           /\ \/ local'[p].cycle = cycle
              \/ pc[p] = "inTx" /\ local'[p].cycle = local[p].cycle
  <1> DEFINE Goal == /\ \/ local'[p].run = run
                        \/ pc[p] = "inTx" /\ local'[p].run = local[p].run
                     /\ \/ local'[p].cycle = cycle
                        \/ pc[p] = "inTx" /\ local'[p].cycle = local[p].cycle
  <1> USE DEF IInv
  <1>same. ASSUME pc[p] = "inTx", local'[p] = local[p] PROVE Goal
    BY <1>same
  <1> HIDE DEF Goal
  <1>1. ASSUME NEW q \in Request, Ask(q) PROVE Goal
    BY <1>1, <1>same DEF Ask, TypeOK
  <1>2. ASSUME NEW q \in Request, Decide(q) PROVE Goal
    BY <1>2, <1>same DEF Decide, AfterVerdict, TypeOK
  <1>3. ASSUME NEW q \in Request, Fail(q) PROVE Goal
    BY <1>3, <1>same DEF Fail, TypeOK
  <1>4. ASSUME NEW q \in Request, Open(q) PROVE Goal
    <2>1. CASE p # q
      BY <1>4, <2>1, <1>same DEF Open, TypeOK
    <2>2. CASE p = q
      BY <1>4, <2>2 DEF Open, TypeOK, LocalState, Goal
    <2> QED
      BY <2>1, <2>2
  <1>5. ASSUME NEW q \in Request, NEW row \in Rows, Write(q, row) PROVE Goal
    BY <1>5 DEF Write, Doing, TypeOK, LocalState, Goal
  <1>6. ASSUME NEW q \in Request, Infer(q) PROVE Goal
    BY <1>6 DEF Infer, Doing, TypeOK, LocalState, Goal
  <1>7. ASSUME NEW q \in Request, Note(q) PROVE Goal
    BY <1>7, <1>same DEF Note
  <1>8. ASSUME NEW q \in Request, RollBack(q) PROVE Goal
    BY <1>8, <1>same DEF RollBack, TypeOK
  <1>9. ASSUME NEW q \in Request, Commit(q) PROVE Goal
    BY <1>9, <1>same DEF Commit, TypeOK
  <1>10. ASSUME UNCHANGED vars PROVE Goal
    BY <1>10, <1>same DEF vars
  <1>11. Goal
    BY <1>1, <1>2, <1>3, <1>4, <1>5, <1>6, <1>7, <1>8, <1>9, <1>10
       DEF Next, Progress, Duplicate, Abort
  <1> QED
    BY <1>11 DEF Goal

\* Rows and copies stay sound.
LEMMA StepSoundRows ==
    ASSUME IInv, SoundRows, MarksDenied, [Next]_vars
    PROVE  SoundRows'
  <1>1. (run' # NoRow => SoundRun(run)') /\ (cycle' # NoRow => SoundCycle(cycle)')
    <2>1. CASE run' = run /\ cycle' = cycle
      <3>1. (run # NoRow => SoundRun(run)) /\ (cycle # NoRow => SoundCycle(cycle))
        BY DEF SoundRows
      <3>2. /\ \A row : SoundRun(row) => SoundRun(row)'
            /\ \A row : SoundCycle(row) => SoundCycle(row)'
        BY SoundStays
      <3>3. ASSUME NEW row, row = run, row # NoRow PROVE SoundRun(row)'
        BY <3>1, <3>2, <3>3
      <3>4. ASSUME NEW row, row = cycle, row # NoRow PROVE SoundCycle(row)'
        BY <3>1, <3>2, <3>4
      <3> QED
        BY <2>1, <3>3, <3>4 DEF SoundRun, SoundCycle, GuardrailAgrees, Reviewed
    <2>2. ASSUME NEW q \in Request, Commit(q)
          PROVE  (run' # NoRow => SoundRun(run)') /\ (cycle' # NoRow => SoundCycle(cycle)')
      <3>1. ASSUME NEW row, row = run', row # NoRow PROVE SoundRun(row)'
        <4>1. CASE lock["run"] = q \/ local[q].op = "create"
          BY <2>2, <3>1, <4>1, WrittenRunSound DEF Commit
        <4>2. CASE ~(lock["run"] = q \/ local[q].op = "create")
          BY <2>2, <3>1, <4>2, SoundStays DEF Commit, SoundRows
        <4> QED
          BY <4>1, <4>2
      <3>2. ASSUME NEW row, row = cycle', row # NoRow PROVE SoundCycle(row)'
        <4>1. CASE lock["cycle"] = q
          BY <2>2, <3>2, <4>1, WrittenCycleSound DEF Commit
        <4>2. CASE lock["cycle"] # q
          BY <2>2, <3>2, <4>2, SoundStays DEF Commit, SoundRows
        <4> QED
          BY <4>1, <4>2
      <3> QED
        BY <3>1, <3>2 DEF SoundRun, SoundCycle, GuardrailAgrees, Reviewed
    <2> QED
      BY <2>1, <2>2 DEF Next, Progress, Ask, Decide, Fail, Open, Write, Infer, Note,
                        Duplicate, RollBack, Abort, vars, tables
  <1>2. ASSUME NEW p \in Request, pc'[p] = "inTx", NEW row, row = local'[p].run, row # NoRow
        PROVE  SoundRun(row)'
    <2>1. SoundRun(row)
      BY <1>2, CopiesOfRows DEF SoundRows
    <2> QED
      BY <2>1, SoundStays
  <1>3. ASSUME NEW p \in Request, pc'[p] = "inTx", NEW row, row = local'[p].cycle, row # NoRow
        PROVE  SoundCycle(row)'
    <2>1. SoundCycle(row)
      BY <1>3, CopiesOfRows DEF SoundRows
    <2> QED
      BY <2>1, SoundStays
  <1> QED
    BY <1>1, <1>2, <1>3 DEF SoundRows, SoundRun, SoundCycle, GuardrailAgrees, Reviewed

\* Rows and copies are always sound.
LEMMA SoundInvariant == Spec => []SoundRows
  <1>1. Init => SoundRows /\ MarksDenied
    <2> SUFFICES ASSUME Init PROVE SoundRows /\ MarksDenied
      OBVIOUS
    <2>1. ASSUME NEW row, row = run, row # NoRow PROVE SoundRun(row)
      BY <2>1, GivenRowSound, InitialAssumption DEF Init, Given
    <2>2. ASSUME NEW row, row = cycle, row # NoRow PROVE SoundCycle(row)
      BY <2>2, GivenRowSound, InitialAssumption DEF Init, Given
    <2> QED
      BY <2>1, <2>2 DEF Init, SoundRows, MarksDenied
  <1>2. IInv /\ SoundRows /\ MarksDenied /\ [Next]_vars => SoundRows' /\ MarksDenied'
    BY StepSoundRows, StepMarksDenied
  <1> QED
    BY <1>1, <1>2, InductiveInvariant, PTL DEF Spec

\* Where clients name no references, no row names an artifact or a snapshot that does
\* not exist, for any number of requests and however stale the copies they write back;
\* what else clients set does not matter.
THEOREM RefsAlwaysBacked ==
    ASSUME RefsLeft
    PROVE  Spec => []RefsBacked
  <1>1. SoundRows => RefsBacked
    BY DEF SoundRows, SoundRun, SoundCycle, RefsBacked
  <1> QED
    BY <1>1, SoundInvariant, PTL

\* Where clients set no such status, no outcome of an execution and no refusal without
\* its records, and never a run that is left running.
THEOREM StatusesAlwaysExplained ==
    ASSUME ExecutionLeft
    PROVE  Spec => []StatusesExplained
  <1>1. SoundRows => StatusesExplained
    BY DEF SoundRows, SoundRun, SoundCycle, StatusesExplained
  <1> QED
    BY <1>1, SoundInvariant, PTL

\* Where clients leave an execution's outcome to it, status and guardrail status of a
\* row are of one execution.
THEOREM OutcomeAlwaysMatches ==
    ASSUME OutcomeLeft
    PROVE  Spec => []OutcomeMatchesGuardrail
  <1>1. SoundRows => OutcomeMatchesGuardrail
    BY DEF SoundRows, SoundRun, SoundCycle, GuardrailAgrees, OutcomeMatchesGuardrail
  <1> QED
    BY <1>1, SoundInvariant, PTL

\* Where clients set no review outcome themselves, a row that shows a review has its
\* review action.
THEOREM ReviewsAlwaysAttributable ==
    ASSUME ReviewLeft
    PROVE  Spec => []ReviewsAttributable
  <1>1. SoundRows => ReviewsAttributable
    BY DEF SoundRows, SoundRun, SoundCycle, Reviewed, ReviewsAttributable
  <1> QED
    BY <1>1, SoundInvariant, PTL

-----------------------------------------------------------------------------
(***************************************************************************)
(* The ring of a model call.  The policy judges a copy of the run; the     *)
(* call is made with a later one.  They agree in mode and ring as long as  *)
(* no PATCH changes these, because nothing else does.                      *)
(***************************************************************************)
\* One create at a time, and none once there is a run.
CreatesAlone ==
    \A q \in Request : local[q].op = "create" =>
        run = NoRow /\ \A p \in Request : local[p].op = "create" => p = q

\* A request at rest makes no call.
AtRest(q) == pc[q] \notin {"asking", "ready", "inTx"} => local[q].op = "none"

\* A copy has the mode and the ring of the row.
Agrees(q) ==
    pc[q] \in {"asking", "ready", "inTx"} /\ local[q].run # NoRow =>
        run # NoRow /\ local[q].run.mode = run.mode /\ local[q].run.ring = run.ring

\* What the policy found of an execution that it let pass.
Judged(row, judged) ==
    /\ RingRank(row.ring) >= RingRank(MinimumRingForMode(row.mode))
    /\ row.mode \in InferenceModes =>
           judged # NoRow /\ (IsExternalTarget(judged.target) => row.ring = "ring_3")

JudgedCall(q) ==
    pc[q] \in {"asking", "ready", "inTx"} /\ local[q].op = "execute" =>
        /\ local[q].run # NoRow
        /\ pc[q] # "asking" => Judged(local[q].run, local[q].profile)
        /\ "infer" \in todo[q] => local[q].run.mode \in InferenceModes

CopiesJudged == \A q \in Request : AtRest(q) /\ Agrees(q) /\ JudgedCall(q)

\* Each step makes a call of one request and leaves those of the others.
LEMMA OthersKept ==
    ASSUME IInv, NEW q \in Request, Ask(q) \/ Progress(q) \/ Fail(q) \/ Abort(q),
           NEW p \in Request \ {q}
    PROVE  pc'[p] = pc[p] /\ local'[p] = local[p] /\ todo'[p] = todo[p]
  <1> USE DEF IInv, TypeOK
  <1>1. CASE Ask(q)
    BY <1>1 DEF Ask
  <1>2. CASE Decide(q)
    BY <1>2 DEF Decide
  <1>3. CASE Fail(q)
    BY <1>3 DEF Fail
  <1>4. CASE Open(q)
    BY <1>4 DEF Open
  <1>5. ASSUME NEW row \in Rows, Write(q, row)
        PROVE  pc'[p] = pc[p] /\ local'[p] = local[p] /\ todo'[p] = todo[p]
    BY <1>5 DEF Write
  <1>6. CASE Infer(q)
    BY <1>6 DEF Infer
  <1>7. CASE Note(q)
    BY <1>7 DEF Note
  <1>8. CASE RollBack(q)
    BY <1>8 DEF RollBack
  <1>9. CASE Commit(q)
    BY <1>9 DEF Commit
  <1> QED
    BY <1>1, <1>2, <1>3, <1>4, <1>5, <1>6, <1>7, <1>8, <1>9 DEF Progress, Duplicate, Abort

\* Only COMMIT changes the run.
LEMMA RunUntouched ==
    ASSUME NEW q \in Request, Ask(q) \/ Progress(q) \/ Fail(q) \/ Abort(q), ~Commit(q)
    PROVE  run' = run
  BY DEF Progress, Ask, Decide, Fail, Open, Write, Infer, Note, Duplicate, RollBack, Abort,
         tables

\* Who holds the run at COMMIT found it, and has a copy.
LEMMA RunHolder ==
    ASSUME IInv, NEW q \in Request, Commit(q), lock["run"] = q
    PROVE  /\ local[q].op \in {"patch", "review", "attach", "execute", "noteCycle", "markFailed"}
           /\ run # NoRow /\ local[q].run \in RunRows
           /\ run' = WrittenRun(q) /\ run' # NoRow
  <1> USE DEF IInv
  <1>1. pc[q] = "inTx" /\ KnownCall(local[q].op, local[q].body) /\ run' = WrittenRun(q)
    BY DEF Commit, CallsKnown
  <1>2. local[q].op \in {"patch", "review", "attach", "execute", "noteCycle", "markFailed"}
    BY DEF WorkKnown, Held, Rows, MostNeeded, Needed
  <1>3. run # NoRow /\ local[q].run \in RunRows
    BY <1>1, <1>2 DEF RowsRead, TypeOK, LocalState
  <1>4. run' # NoRow
    BY <1>3, RowsStay DEF Next, Progress
  <1> QED
    BY <1>1, <1>2, <1>3, <1>4

\* Nothing but a create makes the run appear.
LEMMA NoRunAppears ==
    ASSUME IInv, run = NoRow, NEW q \in Request, local[q].op # "create",
           Ask(q) \/ Progress(q) \/ Fail(q) \/ Abort(q)
    PROVE  run' = NoRow
  <1>1. CASE Commit(q)
    BY <1>1, RunHolder DEF Commit
  <1> QED
    BY <1>1, RunUntouched

\* A committed row keeps its mode and its ring.
LEMMA ModeKept ==
    ASSUME RingLeft, IInv, CopiesJudged, NEW q \in Request, Commit(q), lock["run"] = q
    PROVE  /\ run # NoRow /\ run' # NoRow /\ local[q].op # "create"
           /\ run'.mode = run.mode /\ run'.ring = run.ring
  <1> USE DEF IInv
  <1>1. pc[q] = "inTx" /\ KnownCall(local[q].op, local[q].body) /\ run' = WrittenRun(q)
    BY DEF Commit, CallsKnown
  <1>2. local[q].op \in {"patch", "review", "attach", "execute", "noteCycle", "markFailed"}
    BY RunHolder
  <1>3. /\ run # NoRow /\ run' # NoRow /\ local[q].run \in RunRows
        /\ local[q].run.mode = run.mode /\ local[q].run.ring = run.ring
    BY <1>1, RunHolder, InitialAssumption DEF CopiesJudged, Agrees
  <1>4. CASE local[q].op = "patch"
    <2>1. DOMAIN local[q].body \cap {"mode", "ring"} = {}
      BY <1>1, <1>4 DEF KnownCall, RingLeft, NeverPatched
    <2> QED
      BY <1>1, <1>3, <1>4, <2>1 DEF WrittenRun, Patched, RunRows
  <1>5. CASE local[q].op # "patch"
    BY <1>1, <1>2, <1>3, <1>5 DEF WrittenRun, RunRows
  <1> QED
    BY <1>2, <1>3, <1>4, <1>5

\* What becomes of the run in a step of q.
LEMMA RunMoves ==
    ASSUME RingLeft, IInv, CopiesJudged, CreatesAlone, NEW q \in Request,
           Ask(q) \/ Progress(q) \/ Fail(q) \/ Abort(q)
    PROVE  \/ run' = run
           \/ Commit(q) /\ local[q].op = "create" /\ run = NoRow
           \/ /\ Commit(q) /\ run # NoRow /\ run' # NoRow
              /\ run'.mode = run.mode /\ run'.ring = run.ring
  <1>1. CASE Commit(q)
    <2>1. CASE lock["run"] = q
      BY <1>1, <2>1, ModeKept
    <2>2. CASE lock["run"] # q
      BY <1>1, <2>2 DEF Commit, CreatesAlone
    <2> QED
      BY <2>1, <2>2
  <1> QED
    BY <1>1, RunUntouched

\* An execution that is allowed has the ring for its mode and its address.
LEMMA AllowedIsJudged ==
    ASSUME IInv, NEW q \in Request, local[q].op = "execute", local[q].run # NoRow,
           EvaluatePolicyOutcome(PolicyInput(q)).allow,
           NEW row, row = local[q].run,
           NEW judged, judged = IF PolicyInput(q).targets = {} THEN NoRow ELSE profile
    PROVE  Judged(row, judged)
  <1>1. row \in RunRows /\ profile \in Profiles
    BY DEF IInv, TypeOK, LocalState
  <1>2. PICK input : input = PolicyInput(q)
    OBVIOUS
  <1>3. /\ input.ring = row.ring /\ input.mode = row.mode
        /\ input.targets = IF row.mode \in InferenceModes THEN {profile.target} ELSE {}
    BY <1>2 DEF PolicyInput
  <1>4. row.ring \in ExecutionRings /\ ExecutionRingFromAny(row.ring) = row.ring
    BY <1>1 DEF RunRows, ExecutionRingFromAny, ExecutionRings
  <1>5. /\ RingRank(row.ring) \in 0 .. 3
        /\ RingRank(row.ring) >= RingRank("ring_3") => row.ring = "ring_3"
        /\ RingRank(MinimumRingForMode(row.mode)) \in 0 .. 3 /\ RingRank("ring_3") = 3
    BY <1>4 DEF RingRank, ExecutionRings, MinimumRingForMode
  <1>6. EvaluatePolicyOutcome(input).allow
    BY <1>2
  <1>7. /\ ~(RingRank(row.ring) < RingRank(MinimumRingForMode(row.mode)))
        /\ ~(RingRank(row.ring) < RingRank("ring_3")
                /\ \E t \in input.targets : IsExternalTarget(t))
    BY <1>3, <1>4, <1>6 DEF EvaluatePolicyOutcome, Deny
  <1>8. RingRank(row.ring) >= RingRank(MinimumRingForMode(row.mode))
    BY <1>5, <1>7
  <1>9. ASSUME row.mode \in InferenceModes
        PROVE  judged # NoRow /\ (IsExternalTarget(judged.target) => row.ring = "ring_3")
    <2>1. judged = profile /\ input.targets = {profile.target}
      BY <1>2, <1>3, <1>9
    <2>2. profile # NoRow
      BY <1>1, InitialAssumption
    <2>3. IsExternalTarget(profile.target) => row.ring = "ring_3"
      BY <1>5, <1>7, <2>1
    <2> QED
      BY <2>1, <2>2, <2>3
  <1> QED
    BY <1>8, <1>9 DEF Judged

\* One create at a time: another is refused its turn while one is under way.
LEMMA StepCreatesAlone ==
    ASSUME IInv, CreatesAlone, NEW q \in Request,
           Ask(q) \/ Progress(q) \/ Fail(q) \/ Abort(q)
    PROVE  CreatesAlone'
  <1> USE DEF IInv, TypeOK
  <1>1. \A p \in Request \ {q} : local'[p] = local[p]
    BY OthersKept
  <1>2. CASE local'[q].op = "create"
    <2>1. CASE local[q].op = "create"
      <3>1. ~Commit(q)
        BY <1>2 DEF Commit, Blank
      <3>2. run' = run
        BY <3>1, RunUntouched
      <3> QED
        BY <1>1, <1>2, <2>1, <3>2 DEF CreatesAlone
    <2>2. CASE local[q].op # "create"
      <3>1. Ask(q)
        <4>1. ASSUME Decide(q) PROVE FALSE
          <5>1. PICK allow : allow = EvaluatePolicyOutcome(PolicyInput(q)).allow
            OBVIOUS
          <5>2. PICK loaded : loaded = IF PolicyInput(q).targets = {} THEN NoRow ELSE profile
            OBVIOUS
          <5>3. PICK after : after = AfterVerdict(local[q].op, allow)
            OBVIOUS
          <5>4. after.op # "create"
            BY <2>2, <5>3 DEF AfterVerdict
          <5>5. \/ local'[q] = Blank
                \/ local'[q] = [local[q] EXCEPT !.op = after.op, !.profile = loaded]
            BY <4>1, <5>1, <5>2, <5>3 DEF Decide
          <5>6. local'[q] = Blank \/ local'[q].op = after.op
            BY <5>5 DEF LocalState
          <5> QED
            BY <1>2, <5>4, <5>6 DEF Blank
        <4>2. ~Open(q) /\ ~Infer(q) /\ ~Note(q) /\ ~\E row \in Rows : Write(q, row)
          BY <1>2, <2>2 DEF Open, Infer, Note, Write, Blank, LocalState
        <4>3. ~Fail(q) /\ ~RollBack(q) /\ ~Commit(q)
          BY <1>2 DEF Fail, RollBack, Commit, Blank
        <4> QED
          BY <4>1, <4>2, <4>3 DEF Progress, Duplicate, Abort
      <3>2. run = NoRow /\ \A p \in Request : local[p].op # "create"
        BY <1>2, <2>2, <3>1 DEF Ask, Blank
      <3> QED
        BY <1>1, <3>1, <3>2 DEF CreatesAlone, Ask, tables
    <2> QED
      BY <2>1, <2>2
  <1>3. CASE local'[q].op # "create"
    <2>1. ASSUME NEW p \in Request, local'[p].op = "create"
          PROVE  run' = NoRow /\ \A r \in Request : local'[r].op = "create" => r = p
      <3>1. p # q /\ local[p].op = "create"
        BY <1>1, <1>3, <2>1
      <3>2. local[q].op # "create" /\ run = NoRow
        BY <3>1 DEF CreatesAlone
      <3>3. run' = NoRow
        BY <3>2, NoRunAppears
      <3>4. \A r \in Request : local'[r].op = "create" => local[r].op = "create"
        BY <1>1, <1>3
      <3> QED
        BY <3>1, <3>3, <3>4 DEF CreatesAlone
    <2> QED
      BY <2>1 DEF CreatesAlone
  <1> QED
    BY <1>2, <1>3

\* The copy, the verdict and the work of the request that takes the step.
LEMMA OwnJudged ==
    ASSUME RingLeft, IInv, CopiesJudged, NEW q \in Request,
           Ask(q) \/ Progress(q) \/ Fail(q) \/ Abort(q)
    PROVE  AtRest(q)' /\ Agrees(q)' /\ JudgedCall(q)'
  <1> DEFINE Goal == AtRest(q)' /\ Agrees(q)' /\ JudgedCall(q)'
  <1> USE DEF IInv, TypeOK
  <1>0. AtRest(q) /\ Agrees(q) /\ JudgedCall(q)
    BY DEF CopiesJudged
  <1>blank. ASSUME pc'[q] \in Ended, local'[q] = Blank PROVE Goal
    BY <1>blank DEF AtRest, Agrees, JudgedCall, Ended, Blank
  <1>same. ASSUME pc[q] = "inTx", pc'[q] = pc[q], run' = run,
                  local'[q].op = local[q].op, local'[q].run = local[q].run,
                  local'[q].profile = local[q].profile, todo'[q] \subseteq todo[q]
           PROVE  Goal
    BY <1>0, <1>same DEF AtRest, Agrees, JudgedCall
  <1> SUFFICES Goal
    OBVIOUS
  <1> HIDE DEF Goal
  <1>1. CASE Ask(q)
    <2>1. pc[q] = "idle" /\ local[q].op = "none" /\ todo[q] = {} /\ todo' = todo /\ run' = run
      BY <1>0, <1>1 DEF Ask, AtRest, WorkKnown, tables
    <2>2. PICK c \in Calls :
              IF c.op \in Governed /\ ~Found(c.op, c.body)
                THEN /\ pc' = [pc EXCEPT ![q] = "failed"]
                     /\ local' = local
                ELSE /\ pc' = [pc EXCEPT ![q] = IF c.op \in Governed THEN "asking" ELSE "ready"]
                     /\ local' = [local EXCEPT ![q] =
                           [Blank EXCEPT !.op = c.op, !.body = c.body, !.run = run]]
      BY <1>1 DEF Ask
    <2>3. CASE c.op \in Governed /\ ~Found(c.op, c.body)
      BY <2>1, <2>2, <2>3 DEF Goal, AtRest, Agrees, JudgedCall
    <2>4. CASE ~(c.op \in Governed /\ ~Found(c.op, c.body))
      <3>1. /\ local'[q].op = c.op /\ local'[q].run = run
            /\ pc'[q] = IF c.op \in Governed THEN "asking" ELSE "ready"
        BY <2>2, <2>4 DEF Blank
      <3>2. c.op = "execute" => run # NoRow /\ pc'[q] = "asking"
        BY <2>4, <3>1 DEF Found, Governed
      <3> QED
        BY <2>1, <3>1, <3>2 DEF Goal, AtRest, Agrees, JudgedCall
    <2> QED
      BY <2>3, <2>4
  <1>2. CASE Decide(q)
    <2>1. pc[q] = "asking" /\ todo[q] = {} /\ todo' = todo /\ run' = run
      BY <1>2 DEF Decide, WorkKnown, tables
    <2>2. PICK allow : allow = EvaluatePolicyOutcome(PolicyInput(q)).allow
      OBVIOUS
    <2>3. PICK loaded : loaded = IF PolicyInput(q).targets = {} THEN NoRow ELSE profile
      OBVIOUS
    <2>4. PICK after : after = AfterVerdict(local[q].op, allow)
      OBVIOUS
    <2>5. CASE pc'[q] = "failed" \/ after.stage = "refused"
      <3>1. pc'[q] \in Ended /\ local'[q] = Blank
        BY <1>2, <2>2, <2>4, <2>5 DEF Decide, AfterVerdict, Ended
      <3> QED
        BY <3>1, <1>blank
    <2>6. CASE ~(pc'[q] = "failed" \/ after.stage = "refused")
      <3>1. /\ pc'[q] = after.stage
            /\ local'[q] = [local[q] EXCEPT !.op = after.op, !.profile = loaded]
        BY <1>2, <2>2, <2>3, <2>4, <2>6 DEF Decide
      <3>2. /\ local'[q].op = after.op /\ local'[q].run = local[q].run
            /\ local'[q].profile = loaded
        BY <3>1 DEF LocalState
      <3>3. after.stage = "ready"
            /\ (after.op = "execute" => allow /\ local[q].op = "execute")
        BY <2>4, <2>6 DEF AfterVerdict
      <3>4. after.op = "execute" => Judged(local[q].run, loaded)
        BY <1>0, <2>1, <2>2, <2>3, <3>3, AllowedIsJudged DEF JudgedCall
      <3> QED
        BY <1>0, <2>1, <3>1, <3>2, <3>3, <3>4 DEF Goal, AtRest, Agrees, JudgedCall
    <2> QED
      BY <2>5, <2>6
  <1>3. CASE Fail(q)
    BY <1>3, <1>blank DEF Fail, Ended
  <1>4. CASE Open(q)
    <2>1. CASE Found(local[q].op, local[q].body) /\ Admitted(local[q].op, local[q].body)
      <3>0. PICK mode : mode = IF run = NoRow THEN "deterministic" ELSE run.mode
        OBVIOUS
      <3>1. /\ pc[q] = "ready" /\ pc'[q] = "inTx" /\ run' = run
            /\ todo'[q] = Needed(local[q].op, local[q].body, mode)
            /\ local'[q].op = local[q].op /\ local'[q].run = run
            /\ local'[q].profile = local[q].profile
        BY <1>4, <2>1, <3>0 DEF Open, tables, LocalState
      <3>2. local[q].op = "execute" => run # NoRow
        BY <2>1 DEF Found
      <3>3. "infer" \in todo'[q] => mode \in InferenceModes
        BY <3>1 DEF Needed
      <3>4. local[q].op = "execute" =>
                /\ local[q].run # NoRow /\ Judged(local[q].run, local[q].profile)
                /\ local[q].run.mode = run.mode /\ local[q].run.ring = run.ring
        BY <1>0, <3>1 DEF JudgedCall, Agrees
      <3>5. local[q].op = "execute" => Judged(run, local[q].profile)
        BY <3>4 DEF Judged
      <3> QED
        BY <3>0, <3>1, <3>2, <3>3, <3>5 DEF Goal, AtRest, Agrees, JudgedCall
    <2>2. CASE ~(Found(local[q].op, local[q].body) /\ Admitted(local[q].op, local[q].body))
      BY <1>4, <2>2, <1>blank DEF Open, Ended
    <2> QED
      BY <2>1, <2>2
  <1>5. ASSUME NEW row \in Rows, Write(q, row) PROVE Goal
    BY <1>5, <1>same DEF Write, Doing, tables, LocalState
  <1>6. CASE Infer(q)
    BY <1>6, <1>same DEF Infer, Doing, tables, LocalState
  <1>7. CASE Note(q)
    BY <1>7, <1>same DEF Note, Doing, tables
  <1>8. CASE RollBack(q)
    BY <1>8, <1>blank DEF RollBack, Ended
  <1>9. CASE Commit(q)
    BY <1>9, <1>blank DEF Commit, Ended
  <1> QED
    BY <1>1, <1>2, <1>3, <1>4, <1>5, <1>6, <1>7, <1>8, <1>9 DEF Progress, Duplicate, Abort

\* The copies of the others stay in step with the run.
LEMMA OthersJudged ==
    ASSUME RingLeft, IInv, CopiesJudged, CreatesAlone, NEW q \in Request,
           Ask(q) \/ Progress(q) \/ Fail(q) \/ Abort(q), NEW p \in Request \ {q}
    PROVE  AtRest(p)' /\ Agrees(p)' /\ JudgedCall(p)'
  <1>1. pc'[p] = pc[p] /\ local'[p] = local[p] /\ todo'[p] = todo[p]
    BY OthersKept
  <1>2. AtRest(p) /\ Agrees(p) /\ JudgedCall(p)
    BY DEF CopiesJudged
  <1>3. AtRest(p)' /\ JudgedCall(p)'
    BY <1>1, <1>2 DEF AtRest, JudgedCall, Judged
  <1>4. Agrees(p)'
    BY <1>1, <1>2, RunMoves DEF Agrees
  <1> QED
    BY <1>3, <1>4

\* What is sent to a model is what the policy judged.
LEMMA StepWithinRing ==
    ASSUME IInv, CopiesJudged, InferenceWithinRing, NEW q \in Request,
           Ask(q) \/ Progress(q) \/ Fail(q) \/ Abort(q)
    PROVE  InferenceWithinRing'
  <1> USE DEF IInv, TypeOK
  <1>1. CASE Infer(q)
    <2>0. PICK target : target = ProfileUsed(q).target
      OBVIOUS
    <2>1. /\ pc[q] = "inTx" /\ "infer" \in todo[q]
          /\ inferred' = inferred \cup {[by |-> q, mode |-> local[q].run.mode,
                                         ring |-> local[q].run.ring, target |-> target]}
      BY <1>1, <2>0 DEF Infer, Doing
    <2>2. local[q].op = "execute"
      BY <2>1 DEF WorkKnown, MostNeeded, Needed
    <2>3. Judged(local[q].run, local[q].profile) /\ local[q].run.mode \in InferenceModes
      BY <2>1, <2>2 DEF CopiesJudged, JudgedCall
    <2>4. target = local[q].profile.target
      BY <2>0, <2>3 DEF Judged, ProfileUsed
    <2>5. ASSUME NEW i \in inferred'
          PROVE  /\ RingRank(i.ring) >= RingRank(MinimumRingForMode(i.mode))
                 /\ IsExternalTarget(i.target) => i.ring = "ring_3"
      BY <2>1, <2>3, <2>4, <2>5 DEF Judged, InferenceWithinRing
    <2> QED
      BY <2>5 DEF InferenceWithinRing
  <1>2. CASE ~Infer(q)
    <2>1. inferred' = inferred
      BY <1>2 DEF Progress, Ask, Decide, Fail, Open, Write, Note, Duplicate, RollBack,
                  Abort, Commit
    <2> QED
      BY <2>1 DEF InferenceWithinRing
  <1> QED
    BY <1>1, <1>2

\* As long as no PATCH changes the mode or the ring of a run, no model is called below
\* the ring that its mode and its address need, whatever becomes of the profile between
\* the verdict and the call and however many calls overlap.
THEOREM InferenceAlwaysWithinRing ==
    ASSUME RingLeft
    PROVE  Spec => []InferenceWithinRing
  <1> DEFINE Inv == CopiesJudged /\ CreatesAlone /\ InferenceWithinRing
  <1>1. Init => Inv
    BY DEF Init, Blank, CopiesJudged, AtRest, Agrees, JudgedCall, CreatesAlone,
           InferenceWithinRing
  <1>2. IInv /\ Inv /\ [Next]_vars => Inv'
    <2> SUFFICES ASSUME IInv, Inv, [Next]_vars PROVE Inv'
      OBVIOUS
    <2>1. CASE UNCHANGED vars
      BY <2>1 DEF vars, tables, CopiesJudged, AtRest, Agrees, JudgedCall, CreatesAlone,
                  InferenceWithinRing
    <2>2. ASSUME NEW q \in Request, Ask(q) \/ Progress(q) \/ Fail(q) \/ Abort(q)
          PROVE  Inv'
      <3>1. \A p \in Request : AtRest(p)' /\ Agrees(p)' /\ JudgedCall(p)'
        BY <2>2, OwnJudged, OthersJudged
      <3>2. CopiesJudged'
        BY <3>1 DEF CopiesJudged
      <3>3. CreatesAlone' /\ InferenceWithinRing'
        BY <2>2, StepCreatesAlone, StepWithinRing
      <3> QED
        BY <3>2, <3>3
    <2> QED
      BY <2>1, <2>2 DEF Next
  <1> HIDE DEF Inv
  <1>3. Inv => InferenceWithinRing
    BY DEF Inv
  <1> QED
    BY <1>1, <1>2, <1>3, InductiveInvariant, PTL DEF Spec

-----------------------------------------------------------------------------
(***************************************************************************)
(* Each call is one of GovernedCalls.  Deciding judges it, COMMIT makes    *)
(* public what it leaves, every other step stutters: until it commits, a   *)
(* request has no record but its decision and the event of that.           *)
(***************************************************************************)
Unpublished(q) ==
    /\ pc[q] # "committed" =>
           /\ q \notin audited \cup artifacts
           /\ \A r \in reviews : r.by # q
           /\ \A e \in ledger : e.by = q => e.event = "policy"
    /\ pc[q] \in {"idle", "asking"} => \A d \in decisions : d.by # q

NothingEarly == \A q \in Request : Unpublished(q)

\* A step records something for its own request only.
LEMMA OwnRecordsOnly ==
    ASSUME IInv, NEW q \in Request, Ask(q) \/ Progress(q) \/ Fail(q) \/ Abort(q)
    PROVE  /\ \A d \in decisions' : d \in decisions \/ d.by = q
           /\ \A e \in ledger' : e \in ledger \/ e.by = q
           /\ \A r \in reviews' : r \in reviews \/ r.by = q
           /\ \A p \in Request \ {q} : p \in audited' <=> p \in audited
           /\ \A p \in Request \ {q} : p \in artifacts' <=> p \in artifacts
  <1>1. CASE Commit(q)
    <2>1. /\ \A e \in LedgerEvents(q) : e.by = q
          /\ \A r \in ReviewRecords(q) : r.by = q
      BY DEF LedgerEvents, ReviewRecords
    <2> QED
      BY <1>1, <2>1 DEF Commit, WrittenArtifacts
  <1>2. CASE Decide(q)
    BY <1>2 DEF Decide, tables
  <1>3. CASE ~Commit(q) /\ ~Decide(q)
    BY <1>3 DEF Progress, Ask, Fail, Open, Write, Infer, Note, Duplicate, RollBack, Abort,
                tables
  <1> QED
    BY <1>1, <1>2, <1>3

\* The records and the verdict of another request are as before.
LEMMA OthersAsBefore ==
    ASSUME IInv, NEW q \in Request, Ask(q) \/ Progress(q) \/ Fail(q) \/ Abort(q),
           NEW p \in Request \ {q}
    PROVE  RecordsOf(p)' = RecordsOf(p) /\ VerdictOf(p)' = VerdictOf(p)
           /\ (Unpublished(p) => Unpublished(p)')
  <1>0. [Next]_vars
    BY DEF Next
  <1>1. /\ p \in audited' <=> p \in audited
        /\ p \in artifacts' <=> p \in artifacts
        /\ \A e : e.by = p => (e \in ledger' <=> e \in ledger)
        /\ \A r : r.by = p => (r \in reviews' <=> r \in reviews)
        /\ \A d : d.by = p => (d \in decisions' <=> d \in decisions)
    BY <1>0, OwnRecordsOnly, EvidenceStays
  <1>2. /\ (\E e \in ledger' : e.by = p /\ e.event \in Governed)
               <=> (\E e \in ledger : e.by = p /\ e.event \in Governed)
        /\ [by |-> p, event |-> "compare"] \in ledger'
               <=> [by |-> p, event |-> "compare"] \in ledger
        /\ (\E r \in reviews' : r.by = p) <=> (\E r \in reviews : r.by = p)
    BY <1>1
  <1>3. RecordsOf(p)' = RecordsOf(p)
    BY <1>1, <1>2 DEF RecordsOf
  <1>4. VerdictOf(p)' = VerdictOf(p)
    BY <1>1 DEF VerdictOf
  <1>5. pc'[p] = pc[p]
    BY OthersKept
  <1>6. Unpublished(p) => Unpublished(p)'
    BY <1>1, <1>5 DEF Unpublished
  <1> QED
    BY <1>3, <1>4, <1>6

\* A request that has not committed has left nothing.
LEMMA NothingBefore ==
    ASSUME NEW q \in Request, Unpublished(q), pc[q] # "committed"
    PROVE  RecordsOf(q) = {}
  BY DEF Unpublished, RecordsOf, Governed

\* Each step is a step of the abstract specification, or none.
LEMMA StepOfGovernance ==
    ASSUME IInv, AllowedPastDecision, NothingEarly, NEW q \in Request,
           Ask(q) \/ Progress(q) \/ Fail(q) \/ Abort(q)
    PROVE  /\ NothingEarly'
           /\ \/ Governance!Next
              \/ UNCHANGED <<[p \in Request |-> VerdictOf(p)], [p \in Request |-> RecordsOf(p)]>>
  <1> USE DEF IInv, TypeOK
  <1>0. /\ Unpublished(q)
        /\ \A p \in Request \ {q} : /\ RecordsOf(p)' = RecordsOf(p)
                                    /\ VerdictOf(p)' = VerdictOf(p)
                                    /\ Unpublished(p)'
    BY OthersAsBefore DEF NothingEarly
  <1> DEFINE Goal == /\ Unpublished(q)'
                     /\ \/ Governance!Next
                        \/ RecordsOf(q)' = RecordsOf(q) /\ VerdictOf(q)' = VerdictOf(q)
  <1> SUFFICES Goal
    BY <1>0 DEF NothingEarly
  <1>1. CASE Decide(q)
    <2>1. /\ pc[q] = "asking" /\ pc'[q] # "committed" /\ pc'[q] \notin {"idle", "asking"}
      BY <1>1 DEF Decide, AfterVerdict
    <2>2. Unpublished(q)'
      BY <1>0, <1>1, <2>1 DEF Decide, Unpublished, tables
    <2>3. RecordsOf(q) = {} /\ RecordsOf(q)' = {}
      BY <1>0, <2>1, <2>2, NothingBefore DEF Unpublished, RecordsOf, Governed
    <2>4. VerdictOf(q) = "none"
      BY <1>0, <2>1 DEF Unpublished, VerdictOf
    <2>5. PICK allow \in BOOLEAN : decisions' = decisions \cup {[by |-> q, allow |-> allow]}
      BY <1>1 DEF Decide, EvaluatePolicyOutcome, Deny, Allow
    <2>6. VerdictOf(q)' \in {"allow", "deny"}
      BY <2>5 DEF VerdictOf
    <2>7. Governance!Judge(q)
      BY <1>0, <2>3, <2>4, <2>6 DEF Governance!Judge
    <2> QED
      BY <2>2, <2>7 DEF Governance!Next
  <1>2. CASE Commit(q)
    <2>1. pc[q] = "inTx" /\ pc'[q] = "committed" /\ decisions' = decisions
      BY <1>2 DEF Commit
    <2>2. Unpublished(q)'
      BY <2>1 DEF Unpublished
    <2>3. RecordsOf(q) = {} /\ VerdictOf(q)' = VerdictOf(q)
      BY <1>0, <2>1, NothingBefore DEF VerdictOf
    <2>4. /\ audited' = IF local[q].op = "markFailed" THEN audited ELSE audited \cup {q}
          /\ artifacts' = WrittenArtifacts(q) /\ reviews' = reviews \cup ReviewRecords(q)
          /\ ledger' = ledger \cup LedgerEvents(q)
      BY <1>2 DEF Commit
    <2>5. /\ q \notin audited \cup artifacts /\ \A r \in reviews : r.by # q
          /\ \A e \in ledger : e.by = q => e.event = "policy"
      BY <1>0, <2>1 DEF Unpublished
    <2>6. CASE local[q].op = "markFailed"
      <3>1. LedgerEvents(q) = {} /\ ReviewRecords(q) = {} /\ WrittenArtifacts(q) = artifacts
        BY <2>6 DEF LedgerEvents, ReviewRecords, WrittenArtifacts, Governed
      <3>2. RecordsOf(q)' = RecordsOf(q)
        BY <2>4, <2>6, <3>1 DEF RecordsOf
      <3> QED
        BY <2>2, <2>3, <3>2
    <2>7. CASE local[q].op # "markFailed"
      <3>0. PICK records : records = RecordsOf(q)'
        OBVIOUS
      <3>1. "audit" \in records /\ records \in SUBSET Governance!Evidence
        BY <2>4, <2>7, <3>0 DEF RecordsOf, Governance!Evidence
      <3>2. local[q].op \in Governed => "effect" \in records
        <4>1. local[q].op \in Governed => [by |-> q, event |-> local[q].op] \in LedgerEvents(q)
          BY DEF LedgerEvents
        <4>2. local[q].op \in Governed => \E e \in ledger' : e.by = q /\ e.event \in Governed
          BY <2>4, <4>1
        <4> QED
          BY <3>0, <4>2 DEF RecordsOf
      <3>3. {"artifact", "review"} \cap records # {} => local[q].op \in Governed
        BY <2>4, <2>5, <3>0 DEF RecordsOf, WrittenArtifacts, ReviewRecords, Governed
      <3>4. "effect" \in records => local[q].op \in Governed
        <4>1. \A e \in LedgerEvents(q) : e.event \in Governed => e.event = local[q].op
          BY DEF LedgerEvents, GuardrailEvents, Governed
        <4>2. "effect" \in records => \E e \in ledger' : e.by = q /\ e.event \in Governed
          BY <3>0 DEF RecordsOf
        <4> QED
          BY <2>4, <2>5, <4>1, <4>2 DEF Governed
      <3>5. local[q].op \in Governed => VerdictOf(q) = "allow"
        BY <2>1 DEF AllowedPastDecision, VerdictOf
      <3>6. Governance!Publish(q, records)
        BY <1>0, <2>3, <3>0, <3>1, <3>2, <3>3, <3>4, <3>5 DEF Governance!Publish
      <3> QED
        BY <2>2, <3>1, <3>6 DEF Governance!Next
    <2> QED
      BY <2>6, <2>7
  <1>3. CASE ~Decide(q) /\ ~Commit(q)
    <2>1. /\ decisions' = decisions /\ ledger' = ledger /\ reviews' = reviews
          /\ audited' = audited /\ artifacts' = artifacts
      BY <1>3 DEF Progress, Ask, Fail, Open, Write, Infer, Note, Duplicate, RollBack, Abort,
                  tables
    <2>2. RecordsOf(q)' = RecordsOf(q) /\ VerdictOf(q)' = VerdictOf(q)
      BY <2>1 DEF RecordsOf, VerdictOf
    <2>3. pc[q] # "committed" /\ (pc'[q] \in {"idle", "asking"} => pc[q] \in {"idle", "asking"})
      BY <1>3 DEF Progress, Ask, Fail, Open, Write, Infer, Note, Duplicate, RollBack, Abort,
                  Doing
    <2>4. Unpublished(q)'
      BY <1>0, <2>1, <2>3 DEF Unpublished
    <2> QED
      BY <2>2, <2>4
  <1> QED
    BY <1>1, <1>2, <1>3

\* Whatever calls overlap, fail or are refused: each is judged at most once, leaves
\* what it leaves in one step, and nothing governed without a verdict that allowed it.
THEOREM CallsImplementGoverned ==
    Spec => ImplementsGovernedCalls
  <1>1. Init => NothingEarly /\ AllowedPastDecision /\ Governance!Init
    <2> SUFFICES ASSUME Init PROVE NothingEarly /\ AllowedPastDecision /\ Governance!Init
      OBVIOUS
    <2>1. NothingEarly /\ AllowedPastDecision
      BY DEF Init, NothingEarly, Unpublished, AllowedPastDecision
    <2>2. \A q \in Request : VerdictOf(q) = "none" /\ RecordsOf(q) = {}
      BY DEF Init, VerdictOf, RecordsOf
    <2> QED
      BY <2>1, <2>2 DEF Governance!Init
  <1>2. IInv /\ AllowedPastDecision /\ NothingEarly /\ [Next]_vars =>
            /\ NothingEarly' /\ AllowedPastDecision'
            /\ [Governance!Next]_<<[q \in Request |-> VerdictOf(q)],
                                   [q \in Request |-> RecordsOf(q)]>>
    <2> SUFFICES ASSUME IInv, AllowedPastDecision, NothingEarly, [Next]_vars
                 PROVE  /\ NothingEarly'
                        /\ [Governance!Next]_<<[q \in Request |-> VerdictOf(q)],
                                               [q \in Request |-> RecordsOf(q)]>>
      BY StepAllowedPastDecision
    <2>1. CASE UNCHANGED vars
      BY <2>1 DEF vars, tables, NothingEarly, Unpublished, VerdictOf, RecordsOf
    <2>2. ASSUME NEW q \in Request, Ask(q) \/ Progress(q) \/ Fail(q) \/ Abort(q)
          PROVE  /\ NothingEarly'
                 /\ [Governance!Next]_<<[p \in Request |-> VerdictOf(p)],
                                        [p \in Request |-> RecordsOf(p)]>>
      BY <2>2, StepOfGovernance
    <2> QED
      BY <2>1, <2>2 DEF Next
  <1> QED
    BY <1>1, <1>2, InductiveInvariant, PTL DEF Spec, ImplementsGovernedCalls, Governance!Spec

-----------------------------------------------------------------------------
(***************************************************************************)
(* The end of an approval.  ApprovalStands fails because a row is written  *)
(* back whole; the theorems say which calls can do that to an approval,    *)
(* and that it stands where there are none of them.                        *)
(***************************************************************************)
\* The row q writes has a status of q's making, though q is no review, or that of a
\* copy it read before the approval.
SetsStatus(q) ==
    \/ local[q].op \in {"execute", "markFailed"}
    \/ local[q].op = "patch" /\ "status" \in DOMAIN local[q].body
    \/ local[q].op \in {"patch", "attach", "noteCycle"} /\ local[q].run.status # "approved"

\* An approval ends with a review that decides otherwise, with an execution or its
\* refusal, with a PATCH that sets the status, or under a copy older than itself.
RevertsExplained ==
    [][(run # NoRow /\ run.status = "approved" /\ run'.status # "approved")
         => \/ \E r \in reviews' \ reviews : r.new # "approved"
            \/ \E q \in Request : Commit(q) /\ SetsStatus(q)]_vars

\* What that needs of a state: one create, and records that a commit does not repeat.
OnceRecorded == IInv /\ AllowedPastDecision /\ NothingEarly /\ CreatesAlone

\* OnceRecorded is inductive.
LEMMA AlwaysOnceRecorded == Spec => []OnceRecorded
  <1>1. Init => NothingEarly /\ AllowedPastDecision /\ CreatesAlone
    BY DEF Init, Blank, CreatesAlone, NothingEarly, Unpublished, AllowedPastDecision
  <1>2. IInv /\ OnceRecorded /\ [Next]_vars
            => NothingEarly' /\ AllowedPastDecision' /\ CreatesAlone'
    <2> SUFFICES ASSUME IInv, AllowedPastDecision, NothingEarly, CreatesAlone, [Next]_vars
                 PROVE  NothingEarly' /\ CreatesAlone'
      BY StepAllowedPastDecision DEF OnceRecorded
    <2>1. CASE UNCHANGED vars
      BY <2>1 DEF vars, tables, CreatesAlone, NothingEarly, Unpublished
    <2>2. ASSUME NEW q \in Request, Ask(q) \/ Progress(q) \/ Fail(q) \/ Abort(q)
          PROVE  NothingEarly' /\ CreatesAlone'
      BY <2>2, StepCreatesAlone, StepOfGovernance
    <2> QED
      BY <2>1, <2>2 DEF Next
  <1> QED
    BY <1>1, <1>2, InductiveInvariant, PTL DEF Spec, OnceRecorded

\* A step that ends an approval.
LEMMA ApprovalEnds ==
    ASSUME OnceRecorded, [Next]_vars, run # NoRow, run.status = "approved",
           run'.status # "approved", ~ \E q \in Request : Commit(q) /\ SetsStatus(q)
    PROVE  \E r \in reviews' \ reviews : r.new # "approved"
  <1> USE DEF OnceRecorded
  <1>1. PICK q \in Request : Commit(q)
    BY RunUntouched DEF Next, vars, tables
  <1>2. lock["run"] = q
    BY <1>1 DEF Commit, CreatesAlone
  <1>3. /\ local[q].op \in {"patch", "review", "attach", "execute", "noteCycle", "markFailed"}
        /\ local[q].run \in RunRows /\ run' = WrittenRun(q)
    BY <1>1, <1>2, RunHolder
  <1>4. ~SetsStatus(q)
    BY <1>1
  <1>5. local[q].op \notin {"attach", "noteCycle"}
    BY <1>3, <1>4 DEF SetsStatus, WrittenRun, RunRows
  <1>6. local[q].op # "patch"
    BY <1>3, <1>4 DEF SetsStatus, WrittenRun, Patched, RunRows
  <1>7. local[q].op = "review"
    BY <1>3, <1>4, <1>5, <1>6 DEF SetsStatus
  <1>8. PICK given : given = NewStatus(q)
    OBVIOUS
  <1>9. run' = [local[q].run EXCEPT !.status = given]
    BY <1>3, <1>7, <1>8 DEF WrittenRun
  <1>10. given # "approved"
    BY <1>3, <1>9 DEF RunRows
  <1>11. PICK record : record = [by |-> q, prior |-> local[q].run.status, new |-> given]
    OBVIOUS
  <1>12. record \in ReviewRecords(q) /\ record.by = q /\ record.new = given
    BY <1>7, <1>8, <1>11 DEF ReviewRecords
  <1>13. \A r \in reviews : r.by # q
    BY <1>1 DEF NothingEarly, Unpublished, Commit
  <1> QED
    BY <1>1, <1>10, <1>12, <1>13 DEF Commit

\* Whatever overlaps and whatever clients PATCH: no approval is lost in another way.
THEOREM RevertsAlwaysExplained ==
    Spec => RevertsExplained
  <1>1. OnceRecorded /\ [Next]_vars
        => [(run # NoRow /\ run.status = "approved" /\ run'.status # "approved")
              => \/ \E r \in reviews' \ reviews : r.new # "approved"
                 \/ \E q \in Request : Commit(q) /\ SetsStatus(q)]_vars
    BY ApprovalEnds
  <1> QED
    BY <1>1, AlwaysOnceRecorded, PTL DEF Spec, RevertsExplained

\* Of the calls that write a run that exists, reviews alone.
ReviewsOnly == \A c \in Calls : c.op \notin {"patch", "attach", "noteCycle", "execute"}

NoneOverwrites ==
    \A q \in Request :
        local[q].op \notin {"patch", "attach", "noteCycle", "execute", "markFailed"}

\* Where reviews alone write runs, an approval stands until another review decides
\* otherwise.
THEOREM ApprovalStandsForReviews ==
    ASSUME ReviewsOnly
    PROVE  Spec => ApprovalStands
  <1>1. Init => NoneOverwrites
    BY DEF Init, Blank, NoneOverwrites
  <1>2. OnceRecorded /\ NoneOverwrites /\ [Next]_vars => NoneOverwrites'
    <2> SUFFICES ASSUME IInv, NoneOverwrites, [Next]_vars PROVE NoneOverwrites'
      BY DEF OnceRecorded
    <2> USE DEF IInv, TypeOK
    <2>1. CASE UNCHANGED vars
      BY <2>1 DEF vars, NoneOverwrites
    <2>2. ASSUME NEW q \in Request, Ask(q) \/ Progress(q) \/ Fail(q) \/ Abort(q)
          PROVE  NoneOverwrites'
      <3>1. \A p \in Request \ {q} : local'[p] = local[p]
        BY <2>2, OthersKept
      <3>2. local'[q].op \notin {"patch", "attach", "noteCycle", "execute", "markFailed"}
        <4>1. CASE Ask(q)
          <5>1. PICK c \in Calls :
                    \/ local' = local
                    \/ local' = [local EXCEPT ![q] =
                                   [Blank EXCEPT !.op = c.op, !.body = c.body, !.run = run]]
            BY <4>1 DEF Ask
          <5>2. local'[q] = local[q] \/ local'[q].op = c.op
            BY <5>1 DEF Blank
          <5> QED
            BY <5>2, CallsAssumption DEF ReviewsOnly, NoneOverwrites
        <4>2. CASE Decide(q)
          <5>1. PICK allow : allow = EvaluatePolicyOutcome(PolicyInput(q)).allow
            OBVIOUS
          <5>2. PICK loaded : loaded = IF PolicyInput(q).targets = {} THEN NoRow ELSE profile
            OBVIOUS
          <5>3. PICK after : after = AfterVerdict(local[q].op, allow)
            OBVIOUS
          <5>4. after.op \notin {"patch", "attach", "noteCycle", "execute", "markFailed"}
            BY <5>3 DEF AfterVerdict, NoneOverwrites
          <5>5. \/ local'[q] = Blank
                \/ local'[q] = [local[q] EXCEPT !.op = after.op, !.profile = loaded]
            BY <4>2, <5>1, <5>2, <5>3 DEF Decide
          <5>6. local'[q] = Blank \/ local'[q].op = after.op
            BY <5>5 DEF LocalState
          <5> QED
            BY <5>4, <5>6 DEF Blank
        <4>3. ~Ask(q) /\ ~Decide(q) => local'[q] = Blank \/ local'[q].op = local[q].op
          BY <2>2 DEF Progress, Fail, Open, Write, Infer, Note, Duplicate, RollBack, Abort,
                      Commit, LocalState
        <4> QED
          BY <4>1, <4>2, <4>3 DEF Blank, NoneOverwrites
      <3> QED
        BY <3>1, <3>2 DEF NoneOverwrites
    <2> QED
      BY <2>1, <2>2 DEF Next
  <1>3. OnceRecorded /\ NoneOverwrites /\ [Next]_vars
        => [(run # NoRow /\ run.status = "approved" /\ run'.status # "approved")
              => \E r \in reviews' \ reviews : r.new # "approved"]_vars
    BY ApprovalEnds DEF NoneOverwrites, SetsStatus
  <1> QED
    BY <1>1, <1>2, <1>3, AlwaysOnceRecorded, PTL DEF Spec, ApprovalStands

-----------------------------------------------------------------------------
(***************************************************************************)
(* The transitions of a cycle.  A PATCH checks the table against the row   *)
(* it reads and writes when it has the lock: two that overlap can make a   *)
(* move that is not in the table.  Nothing else can, but what does not ask *)
(* the table at all.                                                       *)
(***************************************************************************)
\* A PATCH in its transaction may go where it goes from the row it has read.
MovesChecked ==
    \A q \in Request :
        /\ pc[q] = "inTx" /\ local[q].op \in {"updateCycle", "noteCycle"}
        /\ "status" \in DOMAIN local[q].body
        => IsValidCycleTransition(local[q].cycle.status, local[q].body.status)

\* Who creates the cycle finds none, and keeps others from making one.
OneCyclePerKey ==
    \A q \in Request : lock["cycle"] = q /\ local[q].op = "createCycle" => cycle = NoRow

\* q does not ask the table, or asked it about a row that has changed since.
MovesFreely(q) ==
    \/ local[q].op \in {"review", "execute", "markFailed"}
    \/ local[q].cycle.status # cycle.status

\* A cycle moves as the table has it, or with a review, an execution or its refusal,
\* or under a copy that is out of date (UpdateCycle).
CycleMovesExplained ==
    [][(cycle # NoRow /\ cycle'.status # cycle.status)
         => \/ IsValidCycleTransition(cycle.status, cycle'.status)
            \/ \E q \in Request : Commit(q) /\ MovesFreely(q)]_vars

\* MovesChecked is inductive.
LEMMA StepMovesChecked ==
    ASSUME IInv, MovesChecked, NEW q \in Request,
           Ask(q) \/ Progress(q) \/ Fail(q) \/ Abort(q)
    PROVE  MovesChecked'
  <1> USE DEF IInv, TypeOK
  <1>1. \A p \in Request \ {q} : pc'[p] = pc[p] /\ local'[p] = local[p]
    BY OthersKept
  <1> DEFINE Goal == /\ pc'[q] = "inTx" /\ local'[q].op \in {"updateCycle", "noteCycle"}
                     /\ "status" \in DOMAIN local'[q].body
                     => IsValidCycleTransition(local'[q].cycle.status, local'[q].body.status)
  <1> SUFFICES Goal
    BY <1>1 DEF MovesChecked
  <1>same. ASSUME pc[q] = "inTx", local'[q].op = local[q].op, local'[q].body = local[q].body,
                  local'[q].cycle = local[q].cycle
           PROVE  Goal
    BY <1>same DEF MovesChecked
  <1> HIDE DEF Goal
  <1>2. CASE pc'[q] # "inTx"
    BY <1>2 DEF Goal
  <1>3. CASE Open(q)
    <2>1. CASE Found(local[q].op, local[q].body) /\ Admitted(local[q].op, local[q].body)
      <3>1. local'[q].op = local[q].op /\ local'[q].body = local[q].body
            /\ local'[q].cycle = cycle
        BY <1>3, <2>1 DEF Open, LocalState
      <3> QED
        BY <2>1, <3>1 DEF Admitted, Goal
    <2>2. CASE ~(Found(local[q].op, local[q].body) /\ Admitted(local[q].op, local[q].body))
      BY <1>2, <1>3, <2>2 DEF Open
    <2> QED
      BY <2>1, <2>2
  <1>4. ASSUME NEW row \in Rows, Write(q, row) PROVE Goal
    <2>1. CASE local[q].op \in {"review", "markFailed"}
      <3>1. local'[q].op = local[q].op
        BY <1>4 DEF Write, LocalState
      <3> QED
        BY <2>1, <3>1 DEF Goal
    <2>2. CASE local[q].op \notin {"review", "markFailed"}
      BY <1>4, <1>same, <2>2 DEF Write, Doing
    <2> QED
      BY <2>1, <2>2
  <1>5. CASE Infer(q)
    BY <1>5, <1>same DEF Infer, Doing, LocalState
  <1>6. CASE Note(q)
    BY <1>6, <1>same DEF Note, Doing
  <1>7. CASE Ask(q) \/ Decide(q) \/ Fail(q) \/ Commit(q) \/ Duplicate(q) \/ Abort(q)
    <2>1. Ask(q) => pc'[q] # "inTx"
      BY DEF Ask
    <2>2. Decide(q) => pc'[q] # "inTx"
      BY DEF Decide, AfterVerdict
    <2>3. Fail(q) \/ Commit(q) \/ Duplicate(q) \/ Abort(q) => pc'[q] # "inTx"
      BY DEF Fail, Commit, Duplicate, Abort, RollBack
    <2> QED
      BY <1>2, <1>7, <2>1, <2>2, <2>3
  <1> QED
    BY <1>3, <1>4, <1>5, <1>6, <1>7 DEF Progress

\* OneCyclePerKey is inductive.
LEMMA StepOneCyclePerKey ==
    ASSUME IInv, OneCyclePerKey, NEW q \in Request,
           Ask(q) \/ Progress(q) \/ Fail(q) \/ Abort(q)
    PROVE  OneCyclePerKey'
  <1> USE DEF IInv, TypeOK
  <1>1. \A p \in Request \ {q} : local'[p] = local[p]
    BY OthersKept
  <1>2. ~Commit(q) => cycle' = cycle
    BY DEF Progress, Ask, Decide, Fail, Open, Write, Infer, Note, Duplicate, RollBack, Abort,
           tables
  <1>3. lock["cycle"] # q => (Commit(q) => cycle' = cycle)
    BY DEF Commit
  <1>4. \A p \in Request \ {q} : lock'["cycle"] = p => lock["cycle"] = p
    <2>1. CASE Commit(q) \/ Duplicate(q) \/ Abort(q)
      <3>1. lock' = [row \in Rows |-> IF lock[row] = q THEN NoRow ELSE lock[row]]
        BY <2>1 DEF Commit, Duplicate, Abort, RollBack
      <3> QED
        BY <3>1, InitialAssumption DEF Rows
    <2>2. ASSUME NEW row \in Rows, Write(q, row)
          PROVE  \A p \in Request \ {q} : lock'["cycle"] = p => lock["cycle"] = p
      BY <2>2 DEF Write, Rows
    <2>3. CASE Ask(q) \/ Decide(q) \/ Fail(q) \/ Open(q) \/ Infer(q) \/ Note(q)
      <3>1. lock' = lock
        BY <2>3 DEF Ask, Decide, Fail, Open, Infer, Note
      <3> QED
        BY <3>1
    <2> QED
      BY <2>1, <2>2, <2>3 DEF Progress
  <1>5. lock'["cycle"] = q /\ local'[q].op = "createCycle" => cycle' = NoRow
    <2> SUFFICES ASSUME lock'["cycle"] = q, local'[q].op = "createCycle" PROVE cycle' = NoRow
      OBVIOUS
    <2>1. ~Fail(q) /\ ~Commit(q) /\ ~Duplicate(q) /\ ~Abort(q)
      BY DEF Fail, Commit, Duplicate, Abort, RollBack, Blank
    <2>2. pc[q] # "inTx" => lock["cycle"] # q
      BY DEF WorkKnown, Held, Rows
    <2>3. ~Ask(q) /\ ~Decide(q) /\ ~Open(q)
      BY <2>2 DEF Ask, Decide, Open
    <2>4. CASE Write(q, "cycle")
      BY <2>4 DEF Write, tables, LocalState
    <2>5. ASSUME NEW row \in Rows, row # "cycle", Write(q, row) PROVE cycle' = NoRow
      BY <2>5 DEF Write, tables, LocalState, OneCyclePerKey, Rows
    <2>6. CASE Infer(q) \/ Note(q)
      BY <2>6 DEF Infer, Note, tables, LocalState, OneCyclePerKey
    <2> QED
      BY <2>1, <2>3, <2>4, <2>5, <2>6 DEF Progress
  <1>6. ASSUME NEW p \in Request \ {q}, lock'["cycle"] = p, local'[p].op = "createCycle"
        PROVE  cycle' = NoRow
    BY <1>1, <1>2, <1>3, <1>4, <1>6 DEF OneCyclePerKey
  <1> QED
    BY <1>5, <1>6 DEF OneCyclePerKey

\* A step that moves the cycle.
LEMMA CycleMoves ==
    ASSUME IInv, MovesChecked, OneCyclePerKey, [Next]_vars, cycle # NoRow,
           cycle'.status # cycle.status,
           ~ \E q \in Request : Commit(q) /\ MovesFreely(q)
    PROVE  IsValidCycleTransition(cycle.status, cycle'.status)
  <1> USE DEF IInv
  <1>1. PICK q \in Request : Commit(q)
    BY DEF Next, vars, Progress, Ask, Decide, Fail, Open, Write, Infer, Note, Duplicate,
           RollBack, Abort, tables
  <1>2. /\ lock["cycle"] = q /\ pc[q] = "inTx" /\ cycle' = WrittenCycle(q)
        /\ KnownCall(local[q].op, local[q].body)
    BY <1>1 DEF Commit, CallsKnown
  <1>3. local[q].op = "createCycle" \/ NamesCycle(local[q].op, local[q].body)
    BY <1>2 DEF WorkKnown, Held, Rows, MostNeeded, Needed
  <1>4. /\ local[q].op \in {"updateCycle", "noteCycle"}
        /\ local[q].cycle.status = cycle.status
    BY <1>1, <1>2, <1>3 DEF OneCyclePerKey, NamesCycle, MovesFreely
  <1>5. local[q].cycle \in CycleRows
    BY <1>2, <1>3, <1>4 DEF RowsRead, TypeOK, LocalState
  <1>6. cycle'.status = Patched(local[q].cycle, local[q].body).status
    BY <1>2, <1>4, <1>5 DEF WrittenCycle, Patched, CycleRows
  <1>7. /\ "status" \in DOMAIN local[q].body
        /\ cycle'.status = local[q].body.status
    BY <1>4, <1>5, <1>6 DEF Patched, CycleRows
  <1> QED
    BY <1>2, <1>4, <1>7 DEF MovesChecked

\* Whatever overlaps: no cycle leaves the table in another way.
THEOREM CycleMovesAlwaysExplained ==
    Spec => CycleMovesExplained
  <1>1. Init => MovesChecked /\ OneCyclePerKey
    BY DEF Init, Blank, MovesChecked, OneCyclePerKey
  <1>2. IInv /\ (MovesChecked /\ OneCyclePerKey) /\ [Next]_vars
            => MovesChecked' /\ OneCyclePerKey'
    <2> SUFFICES ASSUME IInv, MovesChecked, OneCyclePerKey, [Next]_vars
                 PROVE  MovesChecked' /\ OneCyclePerKey'
      OBVIOUS
    <2>1. CASE UNCHANGED vars
      BY <2>1 DEF vars, tables, MovesChecked, OneCyclePerKey
    <2>2. ASSUME NEW q \in Request, Ask(q) \/ Progress(q) \/ Fail(q) \/ Abort(q)
          PROVE  MovesChecked' /\ OneCyclePerKey'
      BY <2>2, StepMovesChecked, StepOneCyclePerKey
    <2> QED
      BY <2>1, <2>2 DEF Next
  <1>3. IInv /\ (MovesChecked /\ OneCyclePerKey) /\ [Next]_vars
        => [(cycle # NoRow /\ cycle'.status # cycle.status)
              => \/ IsValidCycleTransition(cycle.status, cycle'.status)
                 \/ \E q \in Request : Commit(q) /\ MovesFreely(q)]_vars
    BY CycleMoves
  <1> QED
    BY <1>1, <1>2, <1>3, InductiveInvariant, PTL DEF Spec, CycleMovesExplained
=============================================================================
