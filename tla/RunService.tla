----------------------------- MODULE RunService -----------------------------
(***************************************************************************)
(* The runs Manager (internal/platform/runs/service.go) over Postgres:     *)
(* concurrent calls about one run, its cycle, its comparison and the model *)
(* profile it uses.  No operation of the Manager touches two runs.         *)
(*                                                                         *)
(* A governed call reads what the policy judges, records the decision and  *)
(* its governance event on the pool, and only then opens a transaction.    *)
(* Inside it, at READ COMMITTED, it reads the rows again without locking   *)
(* them, and writes them back whole: an UPDATE waits for the row's lock,   *)
(* then stores the values computed from what was read before the wait.     *)
(* What a transaction writes is therefore a function of local[q], and      *)
(* nobody sees it before COMMIT.  The memory service and the inference     *)
(* service are called with the transaction open and know nothing of it.    *)
(*                                                                         *)
(* Abstracted: timestamps, descriptive columns and the contents of         *)
(* payloads.  A request stands for the artifacts, the memory note and the  *)
(* records it makes.  The chain among governance events is the subject of  *)
(* GovernanceChain.                                                        *)
(***************************************************************************)
EXTENDS PolicyRules

CONSTANTS Request,        \* calls in flight or to come; each is made once
          Calls,          \* what a request may ask: [op, body]
          InitialRuns,    \* the run in the database at the start, or NoRow
          InitialCycles,  \* likewise its cycle
          InitialProfiles,
          NoRow

Profiles == [target : Targets, guardrails : BOOLEAN]

RunRows ==
    [status : RunStatuses, mode : ExecutionModes, ring : ExecutionRings, type : RunTypes,
     guardrail : GuardrailStatuses, refs : SUBSET Request, notes : SUBSET Request]

CycleRows ==
    [status : CycleStatuses, guardrail : GuardrailStatuses,
     summary : Request \cup {NoRow}, snapshot : Request \cup {NoRow}]

\* Calls that ask for a policy decision first.
Governed == {"create", "review", "createCycle", "attach", "execute"}

\* noteCycle is the PATCH of a cycle that carries a memory note; markFailed is
\* what a denied execution turns into.
Ops == Governed \cup
    {"patch", "updateCycle", "noteCycle", "compare", "registerProfile", "markFailed"}

\* The columns of a PATCH replace those of the row.
Patched(row, body) ==
    [f \in DOMAIN row |-> IF f \in DOMAIN body THEN body[f] ELSE row[f]]

\* What the validation of each endpoint lets through.
WellFormed(c) ==
    CASE c.op = "create"          -> c.body \in RunRows
      [] c.op = "patch"           -> \A row \in RunRows : Patched(row, c.body) \in RunRows
      [] c.op = "review"          -> c.body \in [action : ReviewActions, cycle : BOOLEAN]
      [] c.op = "createCycle"     -> c.body \in CycleRows
      [] c.op = "attach"          -> c.body \in [uri : Targets]
      [] c.op = "execute"         -> c.body \in [cycle : BOOLEAN]
      [] c.op = "compare"         -> c.body \in [status : ComparisonReviewStatuses]
      [] c.op = "registerProfile" -> c.body \in Profiles
      [] c.op \in {"updateCycle", "noteCycle"} ->
             \A row \in CycleRows : Patched(row, c.body) \in CycleRows
      [] OTHER                    -> FALSE

ASSUME CallsAssumption ==
    \A c \in Calls :
        /\ c.op \in Ops \ {"markFailed"}
        /\ WellFormed(c)

ASSUME InitialAssumption ==
    /\ NoRow \notin Request \cup RunRows \cup CycleRows \cup Profiles
    /\ InitialRuns \subseteq RunRows \cup {NoRow}
    /\ InitialCycles \subseteq CycleRows \cup {NoRow}
    /\ InitialProfiles \subseteq Profiles

VARIABLES run, cycle,   \* the rows, or NoRow
          comparison,   \* review status of the run's comparison, or NoRow
          profile,      \* the model profile the run names
          artifacts,    \* requests whose artifact rows exist
          reviews,      \* review_actions: [by, prior, new]
          audited,      \* requests with an audit event
          ledger,       \* governance events: [by, event]
          decisions,    \* policy decisions: [by, allow]
          notes,        \* requests whose note the memory service has stored
          inferred,     \* what the inference service was sent (history)
          lock,         \* per row: the transaction that has written it
          todo,         \* per request: what its transaction still has to do
          pc, local     \* per request: where it is and its local variables

tables == <<run, cycle, comparison, profile, artifacts, reviews, audited>>

vars == <<tables, ledger, decisions, notes, inferred, lock, todo, pc, local>>

Rows == {"run", "cycle", "comparison"}

Steps == Rows \cup {"infer", "note"}

Ended == {"refused", "failed", "rolledBack", "committed"}

Stages == {"idle", "asking", "ready", "inTx"} \cup Ended

Blank ==
    [op |-> "none", body |-> [cycle |-> FALSE], run |-> NoRow, cycle |-> NoRow,
     profile |-> NoRow, guardrail |-> "guardrail_disabled"]

Init ==
    /\ run \in InitialRuns
    /\ cycle \in (IF run = NoRow THEN {NoRow} ELSE InitialCycles)
    /\ comparison = NoRow
    /\ profile \in InitialProfiles
    /\ artifacts = {} /\ reviews = {} /\ audited = {}
    /\ ledger = {} /\ decisions = {} /\ notes = {} /\ inferred = {}
    /\ lock = [row \in Rows |-> NoRow]
    /\ todo = [q \in Request |-> {}]
    /\ pc = [q \in Request |-> "idle"]
    /\ local = [q \in Request |-> Blank]

-----------------------------------------------------------------------------
\* The call names the cycle.
NamesCycle(op, body) ==
    \/ op \in {"updateCycle", "noteCycle"}
    \/ op \in {"review", "execute", "markFailed"} /\ body.cycle

\* The lookups every call makes: the run, the cycle it names, and for an
\* execution that exactly a week_run comes with a cycle.
Found(op, body) ==
    /\ op \notin {"create", "registerProfile"} => run # NoRow
    /\ op = "execute" => (body.cycle <=> run.type = "week_run")
    /\ NamesCycle(op, body) => cycle # NoRow

\* What the transaction checks on top of that before it writes.
Admitted(op, body) ==
    /\ op = "createCycle" => run.type = "week_run"
    /\ op = "execute" => run.type \in {"agent_run", "week_run"}
    /\ op \in {"updateCycle", "noteCycle"} /\ "status" \in DOMAIN body =>
           IsValidCycleTransition(cycle.status, body.status)

\* A call arrives.  A governed one reads what the policy will judge; another
\* create would make another run.
Ask(q) ==
    /\ pc[q] = "idle"
    /\ \E c \in Calls :
        /\ c.op = "create" => run = NoRow /\ \A p \in Request : local[p].op # "create"
        /\ IF c.op \in Governed /\ ~Found(c.op, c.body)
             THEN /\ pc' = [pc EXCEPT ![q] = "failed"]
                  /\ UNCHANGED local
             ELSE /\ pc' = [pc EXCEPT ![q] = IF c.op \in Governed THEN "asking" ELSE "ready"]
                  /\ local' = [local EXCEPT ![q] =
                        [Blank EXCEPT !.op = c.op, !.body = c.body, !.run = run]]
    /\ UNCHANGED <<tables, ledger, decisions, notes, inferred, lock, todo>>

\* The action, the run's own ring and mode, the profile's base URL and an artifact's
\* URI are what the policy looks at.
PolicyInput(q) ==
    LET judged == IF local[q].op = "create" THEN local[q].body ELSE local[q].run IN
    [action  |-> local[q].op,
     ring    |-> judged.ring,
     mode    |-> judged.mode,
     targets |-> IF local[q].op = "execute" /\ judged.mode \in InferenceModes
                   THEN {profile.target} ELSE {},
     uri     |-> IF local[q].op = "attach" THEN local[q].body.uri ELSE NoTarget]

\* Mutant: a refusal is honoured for executions only.
OnlyExecutionsRefused(op, allow) ==
    IF allow \/ op # "execute" THEN [stage |-> "ready", op |-> op]
    ELSE [stage |-> "ready", op |-> "markFailed"]

\* A refused call ends, except that a refused execution marks the run.
AfterVerdict(op, allow) ==
    IF allow THEN [stage |-> "ready", op |-> op]
    ELSE IF op = "execute" THEN [stage |-> "ready", op |-> "markFailed"]
    ELSE [stage |-> "refused", op |-> "none"]

\* Decision and governance event are two statements on the pool: the second can
\* fail and leave the first.
Decide(q) ==
    /\ pc[q] = "asking"
    /\ LET allow == EvaluatePolicyOutcome(PolicyInput(q)).allow
           after == AfterVerdict(local[q].op, allow)
           loaded == IF PolicyInput(q).targets = {} THEN NoRow ELSE profile
       IN  /\ decisions' = decisions \cup {[by |-> q, allow |-> allow]}
           /\ \/ /\ ledger' = ledger \cup {[by |-> q, event |-> "policy"]}
                 /\ pc' = [pc EXCEPT ![q] = after.stage]
                 /\ local' = [local EXCEPT ![q] = IF after.stage = "refused" THEN Blank
                                ELSE [@ EXCEPT !.op = after.op, !.profile = loaded]]
              \/ /\ pc' = [pc EXCEPT ![q] = "failed"]
                 /\ local' = [local EXCEPT ![q] = Blank]
                 /\ UNCHANGED ledger
    /\ UNCHANGED <<tables, notes, inferred, lock, todo>>

\* The database or the caller gives up before the transaction.
Fail(q) ==
    /\ pc[q] \in {"asking", "ready"}
    /\ pc' = [pc EXCEPT ![q] = "failed"]
    /\ local' = [local EXCEPT ![q] = Blank]
    /\ UNCHANGED <<tables, ledger, decisions, notes, inferred, lock, todo>>

-----------------------------------------------------------------------------
(***************************************************************************)
(* Inside the transaction.                                                 *)
(***************************************************************************)
\* The rows a transaction writes and the services it calls.  An execution of a
\* run that is not dual leaves the comparison alone.
Needed(op, body, mode) ==
    (IF op \in {"patch", "review", "attach", "execute", "noteCycle", "markFailed"}
       THEN {"run"} ELSE {})
    \cup (IF op = "createCycle" \/ NamesCycle(op, body) THEN {"cycle"} ELSE {})
    \cup (IF op = "execute" /\ mode \in InferenceModes THEN {"infer"} ELSE {})
    \cup (IF op = "compare" \/ (op = "execute" /\ mode = "dual") THEN {"comparison"} ELSE {})
    \cup (IF op \in {"execute", "noteCycle"} THEN {"note"} ELSE {})

\* Mutant: a PATCH of a cycle with a note writes the cycle before the run.
CycleBeforeRun(op, step) ==
    CASE step = "run"        -> 1
      [] step = "cycle"      -> IF op = "noteCycle" THEN 0 ELSE 2
      [] step = "infer"      -> 3
      [] step = "comparison" -> 4
      [] step = "note"       -> 5

\* The order of the code: the note of an execution comes last, that of a PATCH
\* of the cycle before anything is written.
Rank(op, step) ==
    CASE step = "run"        -> 1
      [] step = "cycle"      -> 2
      [] step = "infer"      -> 3
      [] step = "comparison" -> 4
      [] step = "note"       -> IF op = "noteCycle" THEN 0 ELSE 5

\* step is the next thing q's transaction does.
Doing(q, step) ==
    /\ pc[q] = "inTx"
    /\ step \in todo[q]
    /\ \A other \in todo[q] : Rank(local[q].op, step) <= Rank(local[q].op, other)

\* BEGIN and the reads: rows as they are committed now, whatever the policy saw.  Run
\* and cycle are two SELECTs; a COMMIT between them would only make the copy of the
\* cycle the newer one, as it may be in a review, which reads it after its first write.
Open(q) ==
    /\ pc[q] = "ready"
    /\ IF Found(local[q].op, local[q].body) /\ Admitted(local[q].op, local[q].body)
         THEN /\ pc' = [pc EXCEPT ![q] = "inTx"]
              /\ todo' = [todo EXCEPT ![q] =
                    Needed(local[q].op, local[q].body,
                           IF run = NoRow THEN "deterministic" ELSE run.mode)]
              /\ local' = [local EXCEPT ![q].run = run, ![q].cycle = cycle]
         ELSE /\ pc' = [pc EXCEPT ![q] = "rolledBack"]
              /\ local' = [local EXCEPT ![q] = Blank]
              /\ UNCHANGED todo
    /\ UNCHANGED <<tables, ledger, decisions, notes, inferred, lock>>

\* The first write of a row waits for the lock.  A review and a denied execution
\* read the cycle only now, after the run is written.
Write(q, row) ==
    /\ Doing(q, row)
    /\ lock[row] = NoRow
    /\ row = "cycle" /\ local[q].op = "createCycle" => cycle = NoRow
    /\ lock' = [lock EXCEPT ![row] = q]
    /\ todo' = [todo EXCEPT ![q] = @ \ {row}]
    /\ local' = IF row = "run" /\ local[q].op \in {"review", "markFailed"}
                  THEN [local EXCEPT ![q].cycle = cycle]
                  ELSE local
    /\ UNCHANGED <<tables, ledger, decisions, notes, inferred, pc>>

\* Mutant: the profile is loaded again for the call.
ReloadedProfile(q) == profile

\* The profile the policy judged, or the current one when the policy saw a
\* deterministic run and judged none.
ProfileUsed(q) == IF local[q].profile = NoRow THEN profile ELSE local[q].profile

Infer(q) ==
    /\ Doing(q, "infer")
    /\ inferred' = inferred \cup {[by |-> q, mode |-> local[q].run.mode,
                                   ring |-> local[q].run.ring,
                                   target |-> ProfileUsed(q).target]}
    /\ \E g \in GuardrailResults(ProfileUsed(q).guardrails) :
           local' = [local EXCEPT ![q].guardrail = g]
    /\ todo' = [todo EXCEPT ![q] = @ \ {"infer"}]
    /\ UNCHANGED <<tables, ledger, decisions, notes, lock, pc>>

\* The memory service stores the note, or there is none and no snapshot either:
\* then a PATCH of the cycle does not touch the run.
Note(q) ==
    /\ Doing(q, "note")
    /\ \/ /\ notes' = notes \cup {q}
          /\ todo' = [todo EXCEPT ![q] = @ \ {"note"}]
       \/ /\ todo' = [todo EXCEPT ![q] = @ \ {"note", "run"}]
          /\ UNCHANGED notes
    /\ UNCHANGED <<tables, ledger, decisions, inferred, lock, pc, local>>

\* Mutant: the first UPDATE of an execution goes through the pool.
RunningSurvives(q) ==
    /\ run' = IF lock["run"] = q /\ local[q].op = "execute"
                THEN [run EXCEPT !.status = "running"] ELSE run
    /\ pc' = [pc EXCEPT ![q] = "rolledBack"]
    /\ lock' = [row \in Rows |-> IF lock[row] = q THEN NoRow ELSE lock[row]]
    /\ todo' = [todo EXCEPT ![q] = {}]
    /\ local' = [local EXCEPT ![q] = Blank]
    /\ UNCHANGED <<cycle, comparison, profile, artifacts, reviews, audited,
                   ledger, decisions, notes, inferred>>

\* Mutant: artifact rows are inserted through the pool.
ArtifactsSurvive(q) ==
    /\ artifacts' = IF lock["run"] = q /\ local[q].op \in {"attach", "execute"}
                      THEN artifacts \cup {q} ELSE artifacts
    /\ pc' = [pc EXCEPT ![q] = "rolledBack"]
    /\ lock' = [row \in Rows |-> IF lock[row] = q THEN NoRow ELSE lock[row]]
    /\ todo' = [todo EXCEPT ![q] = {}]
    /\ local' = [local EXCEPT ![q] = Blank]
    /\ UNCHANGED <<run, cycle, comparison, profile, reviews, audited,
                   ledger, decisions, notes, inferred>>

\* Nothing the transaction wrote remains; what the services did does.
RollBack(q) ==
    /\ pc' = [pc EXCEPT ![q] = "rolledBack"]
    /\ lock' = [row \in Rows |-> IF lock[row] = q THEN NoRow ELSE lock[row]]
    /\ todo' = [todo EXCEPT ![q] = {}]
    /\ local' = [local EXCEPT ![q] = Blank]
    /\ UNCHANGED <<tables, ledger, decisions, notes, inferred>>

\* A second cycle with the same key violates UNIQUE (run_id, cycle_key).
Duplicate(q) ==
    /\ Doing(q, "cycle") /\ local[q].op = "createCycle"
    /\ lock["cycle"] = NoRow
    /\ cycle # NoRow
    /\ RollBack(q)

\* An error of any statement or service, a cancelled request, a lost
\* connection, the end of the process.
Abort(q) == pc[q] = "inTx" /\ RollBack(q)

-----------------------------------------------------------------------------
(***************************************************************************)
(* What a transaction wrote, from what it had read.                        *)
(***************************************************************************)
\* Mutant: a snapshot is recorded whether or not the service returned one.
AlwaysSnapshots(q) == {q}

\* The snapshots a stored note gives.
NoteOf(q) == {q} \cap notes

\* Mutant: a refused execution is marked with the name the documents use.
MarkedPolicyDenied(q) ==
    CASE local[q].op = "review"     -> ReviewStatusOf[local[q].body.action]
      [] local[q].op = "markFailed" -> "policy_denied"
      [] local[q].op = "execute"    ->
             ExecutionOutcome(local[q].run.mode, local[q].guardrail)

\* The status that a review, an execution or its refusal gives the run and the
\* cycle; a cycle follows the mode of its run.
NewStatus(q) ==
    CASE local[q].op = "review"     -> ReviewStatusOf[local[q].body.action]
      [] local[q].op = "markFailed" -> "failed_policy"
      [] local[q].op = "execute"    ->
             ExecutionOutcome(local[q].run.mode, local[q].guardrail)

\* Mutant: a run keeps the guardrail status of an earlier execution.
KeepsGuardrail(q) == local[q].run.guardrail

NewGuardrail(q) == local[q].guardrail

\* A new run has the columns of the request.
CreatedRun(q) == local[q].body

WrittenRun(q) ==
    LET old == local[q].run
        op == local[q].op
        attached == [old EXCEPT !.refs = @ \cup {q}]
    IN  CASE op = "create"     -> CreatedRun(q)
          [] op = "patch"      -> Patched(old, local[q].body)
          [] op \in {"review", "markFailed"} -> [old EXCEPT !.status = NewStatus(q)]
          [] op = "attach"     -> attached
          [] op = "noteCycle"  -> [old EXCEPT !.notes = @ \cup NoteOf(q)]
          [] op = "execute"    ->
                 [attached EXCEPT !.status = NewStatus(q), !.guardrail = NewGuardrail(q),
                                  !.notes = @ \cup NoteOf(q)]

\* carry_forward_summary_ref gets the snapshot's value where an execution sets it.
WrittenCycle(q) ==
    LET old == local[q].cycle
        op == local[q].op
        SnapshotOr(ref) == IF NoteOf(q) = {} THEN ref ELSE q
    IN  CASE op = "createCycle" -> local[q].body
          [] op \in {"updateCycle", "noteCycle"} ->
                 [Patched(old, local[q].body) EXCEPT !.snapshot = SnapshotOr(@)]
          [] op \in {"review", "markFailed"} -> [old EXCEPT !.status = NewStatus(q)]
          [] op = "execute" ->
                 [old EXCEPT !.status = NewStatus(q), !.guardrail = local[q].guardrail,
                             !.summary = IF @ = NoRow THEN q ELSE @,
                             !.snapshot = SnapshotOr(@)]

\* An upsert, also of a comparison somebody has reviewed since.
WrittenComparison(q) ==
    IF lock["comparison"] # q THEN comparison
    ELSE IF local[q].op = "execute" THEN "review_pending"
    ELSE local[q].body.status

WrittenProfile(q) == IF local[q].op = "registerProfile" THEN local[q].body ELSE profile

WrittenArtifacts(q) ==
    IF local[q].op \in {"attach", "execute"} THEN artifacts \cup {q} ELSE artifacts

\* Governance events of the transaction: a PATCH, a model profile and the mark
\* of a refused execution have none.
LedgerEvents(q) ==
    LET op == local[q].op
        events == (IF op \in Governed \cup {"compare"} THEN {op} ELSE {})
                      \cup (IF op = "execute" THEN GuardrailEvents(local[q].guardrail) ELSE {})
    IN  {[by |-> q, event |-> e] : e \in events}

\* Mutant: a review that names a cycle is not recorded.
RunReviewsOnly(q) ==
    IF local[q].op = "review" /\ ~local[q].body.cycle
      THEN {[by |-> q, prior |-> local[q].run.status, new |-> NewStatus(q)]}
      ELSE {}

ReviewRecords(q) ==
    IF local[q].op = "review"
      THEN {[by |-> q, prior |-> local[q].run.status, new |-> NewStatus(q)]}
      ELSE {}

\* COMMIT.  Whether the client hears of it is not modelled.
Commit(q) ==
    /\ pc[q] = "inTx"
    /\ todo[q] = {}
    /\ run' = IF lock["run"] = q \/ local[q].op = "create" THEN WrittenRun(q) ELSE run
    /\ cycle' = IF lock["cycle"] = q THEN WrittenCycle(q) ELSE cycle
    /\ comparison' = WrittenComparison(q)
    /\ profile' = WrittenProfile(q)
    /\ artifacts' = WrittenArtifacts(q)
    /\ reviews' = reviews \cup ReviewRecords(q)
    /\ audited' = IF local[q].op = "markFailed" THEN audited ELSE audited \cup {q}
    /\ ledger' = ledger \cup LedgerEvents(q)
    /\ lock' = [row \in Rows |-> IF lock[row] = q THEN NoRow ELSE lock[row]]
    /\ pc' = [pc EXCEPT ![q] = "committed"]
    /\ local' = [local EXCEPT ![q] = Blank]
    /\ UNCHANGED <<decisions, notes, inferred, todo>>

-----------------------------------------------------------------------------
\* What the program does of its own accord once a call has come: the statements of
\* its handler, executeRun's the longest.
Progress(q) ==
    \/ Decide(q)
    \/ Open(q)
    \/ \E row \in Rows : Write(q, row)
    \/ Duplicate(q)
    \/ Infer(q)
    \/ Note(q)
    \/ Commit(q)

Next == \E q \in Request : Ask(q) \/ Progress(q) \/ Fail(q) \/ Abort(q)

Spec == Init /\ [][Next]_vars

\* Every call to a service is bounded by a timeout, and a lock is held by a
\* transaction that itself goes on: a request that can take a step takes one.
FairSpec == Spec /\ \A q \in Request : WF_vars(Progress(q))
-----------------------------------------------------------------------------
LocalState ==
    [op : Ops \cup {"none"}, body : {c.body : c \in Calls} \cup {Blank.body},
     run : RunRows \cup {NoRow}, cycle : CycleRows \cup {NoRow},
     profile : Profiles \cup {NoRow}, guardrail : GuardrailStatuses]

(***************************************************************************)
(* Types: the rows keep to the vocabulary the validation admits.           *)
(***************************************************************************)
TypeOK ==
    /\ run \in RunRows \cup {NoRow}
    /\ cycle \in CycleRows \cup {NoRow}
    /\ comparison \in ComparisonReviewStatuses \cup {NoRow}
    /\ profile \in Profiles
    /\ artifacts \subseteq Request
    /\ reviews \subseteq [by : Request, prior : RunStatuses, new : ReviewOutcomes]
    /\ audited \subseteq Request
    /\ ledger \subseteq [by : Request, event : {"policy", "compare", "guardrail.deferred",
                                              "guardrail.disabled"} \cup Governed]
    /\ decisions \subseteq [by : Request, allow : BOOLEAN]
    /\ notes \subseteq Request
    /\ inferred \subseteq [by : Request, mode : ExecutionModes, ring : ExecutionRings,
                          target : Targets]
    /\ lock \in [Rows -> Request \cup {NoRow}]
    /\ todo \in [Request -> SUBSET Steps]
    /\ pc \in [Request -> Stages]
    /\ local \in [Request -> LocalState]

-----------------------------------------------------------------------------
(***************************************************************************)
(* What the properties of a row's values leave to the client.  A create or *)
(* a PATCH may set any valid status, guardrail status, mode, ring or       *)
(* reference; what the manager makes of a row is its own work only as far  *)
(* as nobody does.                                                         *)
(***************************************************************************)
Patches == {"patch", "updateCycle", "noteCycle"}

\* The columns clients give, and the rows there are at the start.
Given ==
    {c.body : c \in {d \in Calls : d.op \in Patches \cup {"create", "createCycle"}}}
        \cup ((InitialRuns \cup InitialCycles) \ {NoRow})

NeverGiven(statuses) ==
    \A row \in Given : "status" \in DOMAIN row => row.status \notin statuses

NeverPatched(ops, columns) ==
    \A c \in Calls : c.op \in ops => DOMAIN c.body \cap columns = {}

\* No artifact, note or snapshot is named by a client.
RefsLeft ==
    \A row \in Given :
        /\ "refs" \in DOMAIN row => row.refs = {}
        /\ "notes" \in DOMAIN row => row.notes = {}
        /\ "summary" \in DOMAIN row => row.summary = NoRow
        /\ "snapshot" \in DOMAIN row => row.snapshot = NoRow

\* No client sets a status that tells of an execution or its refusal.
ExecutionLeft == NeverGiven(ExecutionOutcomes \cup {"running", "failed_policy"})

\* Nor changes what goes with such an outcome.
OutcomeLeft == NeverGiven(ExecutionOutcomes) /\ NeverPatched(Patches, {"guardrail", "mode"})

\* No client sets a status that tells of a review.
ReviewLeft == NeverGiven(ReviewOutcomes)

\* No client changes what the policy judges a run by.
RingLeft == NeverPatched({"patch"}, {"mode", "ring"})

\* Row locks never form a cycle, so no transaction ends on a deadlock error:
\* among waiting requests there is always one whose row's holder is not waiting.
WaitsFor(p, q) == \E row \in Rows : Doing(p, row) /\ lock[row] = q

NoWaitCycle ==
    ~ \E waiting \in SUBSET Request :
        /\ waiting # {}
        /\ \A p \in waiting : \E q \in waiting : WaitsFor(p, q)

\* Every effect a governed call has on the ledger was allowed, and the decision
\* was itself entered in the ledger: nothing slips in between a refusal and the
\* end of the call, or after a decision whose event could not be recorded.
EffectsAuthorised ==
    \A e \in ledger : e.event \in Governed =>
        /\ [by |-> e.by, allow |-> TRUE] \in decisions
        /\ [by |-> e.by, event |-> "policy"] \in ledger

\* No row names an artifact that is not in its table or a snapshot the memory
\* service does not have, although rows are written back from stale copies,
\* other transactions roll back and notes are stored before the commit.  (RefsLeft.)
RefsBacked ==
    /\ run # NoRow => run.refs \subseteq artifacts /\ run.notes \subseteq notes
    /\ cycle # NoRow => /\ cycle.summary \in artifacts \cup {NoRow}
                        /\ cycle.snapshot \in notes \cup {NoRow}

\* No status without its cause.  An execution's outcome has an execution in the
\* ledger, "failed_policy" a refusal that the ledger holds, whatever rolled back and
\* whichever stale copy was written last; "running" has none, because the transaction
\* that writes it replaces it before it commits.  (ExecutionLeft.)
Explained(status) ==
    /\ status # "running"
    /\ status \in ExecutionOutcomes => \E e \in ledger : e.event = "execute"
    /\ status = "failed_policy" =>
           \E d \in decisions : ~d.allow /\ [by |-> d.by, event |-> "policy"] \in ledger

StatusesExplained ==
    /\ run # NoRow => Explained(run.status)
    /\ cycle # NoRow => Explained(cycle.status)

\* Status and guardrail status of a row tell the same story about one execution,
\* however executions, reviews and stale copies overlap: a deferral names a
\* guardrail that gave no verdict, a completed run asked no model.  (OutcomeLeft.)
OutcomeMatchesGuardrail ==
    /\ run # NoRow =>
        /\ run.status = "guardrail_deferred" => run.guardrail \in GuardrailDeferrals
        /\ run.status = "review_pending" => run.guardrail \notin GuardrailDeferrals
        /\ run.status = "completed" => run.mode = "deterministic"
    /\ cycle # NoRow =>
        /\ cycle.status = "guardrail_deferred" => cycle.guardrail \in GuardrailDeferrals
        /\ cycle.status = "review_pending" => cycle.guardrail \notin GuardrailDeferrals

\* docs/REVIEWER_WORKFLOW_STATES.md: every approval, rejection, override or
\* deferral can be attributed.  A run or a cycle that shows one has a review
\* action that set it.  (ReviewLeft.)
ReviewsAttributable ==
    /\ run # NoRow /\ run.status \in ReviewOutcomes => \E r \in reviews : r.new = run.status
    /\ cycle # NoRow /\ cycle.status \in ReviewOutcomes => \E r \in reviews : r.new = cycle.status

\* docs/EXECUTION_RINGS.md, Rule 1 and "mode/ring mismatches are denied by
\* policy": no model is called below the ring its mode and its address need, even
\* when the profile is replaced between the decision and the call.  (RingLeft.)
InferenceWithinRing ==
    \A i \in inferred :
        /\ RingRank(i.ring) >= RingRank(MinimumRingForMode(i.mode))
        /\ IsExternalTarget(i.target) => i.ring = "ring_3"

-----------------------------------------------------------------------------
(***************************************************************************)
(* Under FairSpec.                                                         *)
(***************************************************************************)
\* Every request that arrives is answered, however the others hold their locks.
EveryCallEnds == \A q \in Request : pc[q] \in {"asking", "ready"} ~> pc[q] \in Ended

-----------------------------------------------------------------------------
(***************************************************************************)
(* Each call as GovernedCalls has it.                                      *)
(***************************************************************************)
VerdictOf(q) ==
    IF [by |-> q, allow |-> TRUE] \in decisions THEN "allow"
    ELSE IF [by |-> q, allow |-> FALSE] \in decisions THEN "deny"
    ELSE "none"

RecordsOf(q) ==
    (IF q \in audited THEN {"audit"} ELSE {})
    \cup (IF \E e \in ledger : e.by = q /\ e.event \in Governed THEN {"effect"} ELSE {})
    \cup (IF [by |-> q, event |-> "compare"] \in ledger THEN {"comparison"} ELSE {})
    \cup (IF q \in artifacts THEN {"artifact"} ELSE {})
    \cup (IF \E r \in reviews : r.by = q THEN {"review"} ELSE {})

Governance == INSTANCE GovernedCalls
    WITH verdict <- [q \in Request |-> VerdictOf(q)],
         published <- [q \in Request |-> RecordsOf(q)]

ImplementsGovernedCalls == Governance!Spec

-----------------------------------------------------------------------------
(***************************************************************************)
(* What the documents say and overlapping or failing calls do not keep.    *)
(***************************************************************************)
\* docs/REVIEWER_WORKFLOW_STATES.md: "`approved` should not silently revert
\* without an explicit override event".
ApprovalStands ==
    [][(run # NoRow /\ run.status = "approved" /\ run'.status # "approved")
         => \E r \in reviews' \ reviews : r.new # "approved"]_vars
=============================================================================
