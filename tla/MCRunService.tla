---------------------------- MODULE MCRunService ----------------------------
(***************************************************************************)
(* Instances of RunService.  A run starts as POST /runs could have made it;*)
(* the calls are those that meet on its rows.                              *)
(***************************************************************************)
EXTENDS RunService, TLC

CONSTANTS p, q, r

TwoRequests == {p, q}

ThreeRequests == {p, q, r}

Fresh(type, mode, ring) ==
    [status |-> "pending", mode |-> mode, ring |-> ring, type |-> type,
     guardrail |-> "guardrail_disabled", refs |-> {}, notes |-> {}]

WeekRun == Fresh("week_run", "dual", "ring_2")

\* A week run in every mode, an agent run, and one whose ring was written without
\* a decision (by a PATCH) and is too low to execute.
SeveralRuns ==
    {WeekRun,
     Fresh("week_run", "deterministic", "ring_1"),
     Fresh("agent_run", "llm", "ring_3"),
     Fresh("agent_run", "dual", "ring_1")}

PendingCycle ==
    [status |-> "pending", guardrail |-> "guardrail_disabled",
     summary |-> NoRow, snapshot |-> NoRow]

LocalProfile == [target |-> [scheme |-> "http", localHost |-> TRUE], guardrails |-> TRUE]

ExternalProfile == [target |-> [scheme |-> "https", localHost |-> FALSE], guardrails |-> FALSE]

Call(op, body) == [op |-> op, body |-> body]

Create == Call("create", Fresh("week_run", "dual", "ring_2"))

CreateTooLow == Call("create", Fresh("agent_run", "llm", "ring_1"))

CloseRun == Call("patch", [status |-> "closed"])

CreateCycle == Call("createCycle", PendingCycle)

CancelCycle == Call("updateCycle", [status |-> "cancelled"])

NoteCycle == Call("noteCycle", [summary |-> NoRow])

Attach == Call("attach", [uri |-> NoTarget])

AttachExternal == Call("attach", [uri |-> [scheme |-> "https", localHost |-> FALSE]])

Review(action, cycled) == Call("review", [action |-> action, cycle |-> cycled])

Compare == Call("compare", [status |-> "approved"])

Execute(cycled) == Call("execute", [cycle |-> cycled])

Register(profileRow) == Call("registerProfile", profileRow)

\* Every operation of the Manager.
EveryCall ==
    {Create, CreateTooLow, CloseRun, CreateCycle, CancelCycle, NoteCycle, Attach,
     AttachExternal, Review("approve", TRUE), Review("reject", FALSE), Compare,
     Execute(TRUE), Execute(FALSE), Register(ExternalProfile)}

\* The calls that write the run and its cycle, for three at a time.
MeetingCalls ==
    {CloseRun, NoteCycle, Attach, Review("approve", TRUE), Review("reject", FALSE),
     Execute(TRUE), CancelCycle, Compare}

\* An approval and a call that does not set the status.
ApproveAndAttach == {Review("approve", FALSE), Attach}

\* An execution, and a PATCH that makes a deterministic run ask a model.
ExecuteAndEscalate == {Execute(FALSE), Call("patch", [mode |-> "llm"])}

MCInitialRuns == SeveralRuns \cup {NoRow}

MCInitialCycles == {PendingCycle, NoRow}

MCInitialProfiles == {LocalProfile, ExternalProfile}

OneRun == {WeekRun}

DeterministicRun == {Fresh("agent_run", "deterministic", "ring_1")}

OneCycle == {PendingCycle}

OneProfile == {LocalProfile}

RequestSymmetry == Permutations(Request)

\* The calls leave to the manager what the properties take it to do, except that
\* ExecuteAndEscalate changes a mode.
ASSUME CallsLeave ==
    /\ RefsLeft /\ ExecutionLeft /\ ReviewLeft
    /\ Calls # ExecuteAndEscalate => OutcomeLeft /\ RingLeft
=============================================================================
