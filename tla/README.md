# Verification of clawbot-server

TLA+ models of the parts of clawbot-server that keep state under concurrency, failure and
time, the TLC configurations that check them on small instances, and TLAPS proofs of the
properties that matter most for any number of requests.

The server is a Go control plane over Postgres. Operators and agents create *runs*, attach
artifacts, execute runs against local or gateway models, and review the results. Policy
decides each governed call; decisions and effects are entered in a governance ledger.

## 1. The system

| Part | State | Operations | What is hard |
|---|---|---|---|
| Runs manager (`internal/platform/runs`) | tables `runs`, `run_cycles`, `run_artifacts`, `run_comparisons`, `model_profiles`, `review_actions` | create, patch, review, cycles, attach, compare, register profile, execute | transactions at READ COMMITTED that read without locking and write whole rows; services called inside; policy asked outside |
| Policy rules (same package) | none | `evaluatePolicyOutcome`, guardrail status, outcome of an execution | a fixed order of comparisons must agree with the ring definitions |
| Governance ledger (`repository.go`) | `policy_decisions`, `governance_audit_events` | `RecordPolicyDecision`, `AppendGovernanceAuditEvent` | read-then-insert with no lock, timestamps of transaction start |
| Inference client (`clients.go`) | none of its own | up to three model calls in turn, or one gateway call; reading a guardrail's answer | per-phase timeouts, a root context that may be detached from the request; a chain of fallbacks over the text |
| Memory client (`clients.go`) | the memory service's notes | fetch, persist | a store outside the transaction |
| Transactor (`store/postgres.go`) | the transaction | `InTx` | rollback on every error; the answer of COMMIT |
| Migrations (`internal/db`) | `schema_migrations`, the schema | `ApplyAll`, `DownOne` | several servers start at once; crashes |
| Audit recorder (`platform/audit`) | `audit_events` | `Record` | none of its own: always inside the caller's transaction |
| Operations manager (`platform/ops`) | maps of services and schedulers, 50 events, in memory | maintenance, pause, resume, run once, reads | one lock, several reads per page, restart |
| Bot and policy records (`platform/bots`, `policies`) | their tables | create, update | lost updates |
| Event consumer (`events/identity`), runtime (`app`) | subscriptions | log | a subscription fails after others were made |
| Start and shutdown (`app.go`, `main.go`) | the process | migrate, serve, stop | 10 s of grace against 3 min requests |
| Scheduler placeholder, dashboard, proxies, config, handlers, `stack-smoke` | none | - | none |

How they meet: an HTTP handler calls the runs manager with the request's context, which the
router ends after three minutes. The manager asks the policy rules, writes the decision and its
ledger event on the pool, opens a transaction, and inside it calls repository, memory client,
inference client and audit recorder. The bot and policy managers open a transaction at once. Any
number of requests do this together; what they share is the database's rows and locks, and the
pool of connections of their process. The process starts with the migrations and the event
runtime, and when it is told to stop it waits ten seconds for the requests, closes the event runtime
and then the pool.

## 2. Modules

| Module | Models | State and actions |
|---|---|---|
| `RunVocabulary` | the status, mode and ring vocabularies and the cycle's transition table | constants only |
| `PolicyRules` | `evaluatePolicyOutcome`, `resolveGuardrailStatus`, the outcome and the guardrail events of an execution | operators only |
| `GuardrailAnswers` | `parseLocalGuardrailContent` and what it calls: the text of a guardrail's answer becomes a status | operators only |
| `Execution` | one `executeRun` in time | clock, the request's context (`cutOff`), the phase root (`root`), the phase in progress (`stage`, `since`); an action per answer, failure, timeout and cancellation |
| `AuditForest` | what the ledger promises | a growing set of links |
| `GovernanceChain` | `AppendGovernanceAuditEvent` on the pool and in transactions | rows others can see (`committed`), rows of open transactions (`pending`), the hash each append has read (`head`); SELECT and INSERT are actions of their own |
| `GovernedCalls` | what the manager promises of each call | a verdict and the records it has left |
| `RunService` | the whole runs manager on one run, its cycle, comparison and profile | committed rows, row locks, per request the stage (`pc`), the rows it has read (`local`) and what its transaction still has to do (`todo`) |
| `Migrations` | starting servers and `migrate down` | `schema_migrations` (`recorded`), the schema (`present`), the process whose transaction holds the tables (`holder`) and what its rollback restores (`saved`) |
| `AtomicMigrations` | what the migrations promise whoever looks at the database | the versions recorded and the tables there, which move together by one |
| `RecordManager` | the bot and policy managers: create and update of any record | tables (`rows`), audit events per record (`audits`), row locks, the clock of `created_at`, per request its stage and merged copy; one action per arrival, BEGIN with the reads, write, COMMIT, rollback, and the end of a COMMIT in flight |
| `ServerProcess` | `RunServer` around the requests of `RecordManager` and executions | phase of the process, a signal, connections held (`conns`), what each client was told (`answer`), broker connection and subscriptions |
| `AnsweredCalls` | what the process promises its clients | per call where its client stands (`client`), how often it took effect (`effects`), and the calls the server has lost track of (`lost`) |
| `OpsManager` | the operations console and its pages | maintenance modes, schedulers, the capped event list, and per viewer what its page has read; an action per operation under the lock |
| `ExecutionProofs`, `GovernanceChainProofs`, `GovernanceForksProofs`, `RunServiceProofs`, `MigrationsProofs`, `RecordManagerProofs`, `ServerProcessProofs`, `OpsManagerProofs` | theorems of the modules they extend | - |
| `MCExecution`, `MCGovernanceChain`, `MCRunService`, `MCMigrations`, `MCServerProcess`, `MCOpsManager` | the instances for TLC | - |

`PolicyRules` and `GuardrailAnswers` extend `RunVocabulary`; `Execution` extends both and `RunService`
extends `PolicyRules`, so the rules that judge are the same in both. `ServerProcess` extends
`RecordManager` and composes each of its actions with the pool and the process; `RecordManager` has no
run of its own and is checked inside `server`, and a theorem shows that the server only makes
its steps. Four abstract specifications are implemented (`INSTANCE ... WITH`), each checked on an
instance and proved: `AuditForest` by `GovernanceChain`, `GovernedCalls` by `RunService`, `AnsweredCalls` by
`ServerProcess`, `AtomicMigrations` by `Migrations`. `Execution` and the step `Infer` of `RunService` meet in
`GuardrailResults` of `PolicyRules`: a theorem shows that the one step leaves out nothing the phases do.

Correspondence, where it is not one to one:

* In `RunService` a transaction is `Open` (BEGIN and the reads), a `Write` per row (the UPDATE that
  waits for the row's lock), `Infer` and `Note` (the services), and `Commit`, which stores the values
  computed from `local`. Between, anything may happen to the committed rows. `todo` holds the steps
  left and `Rank` their order in the code. The writes of a call that nobody else can see or wait
  for (artifact, audit and ledger rows) appear with `Commit`. Its handler is therefore the sequence of
  actions, and the per-call differences are in `Needed`, `Rank`, `WrittenRun`, `WrittenCycle` and the
  other `Written...` operators.
* The `running` that an execution writes first is not a value of a committed row: the transaction
  replaces it. `StatusesExplained` says so, and its mutant is an UPDATE outside the transaction.
* A request identifies what it makes: artifacts, notes and records are sets of requests.
* In `Execution` the time is a counter of ticks; `Tick` may not pass the moment something is due.
* A question to the policy carries its action (create, review, create a cycle, attach, execute), which the
  rules as coded do not look at; the ring definitions do. An address is a scheme, which may be written with
  capitals, and whether it names a local host.
* In `GuardrailAnswers` an answer is one of seven forms (bare word, score tag, JSON string, an object with the
  score as a JSON value, as a string, or without a score, and exactly `{}`) around a word, and a
  word is a member of a class that the parser tells apart (score tokens, numbers on either side of
  0.7 that JSON reads or that only `ParseFloat` does, NaN, JSON that is no score, other text, nothing). The
  parser's chain of fallbacks is kept in its order.
* In `RecordManager` a request's write and its audit event are one action: both are seen only after
  COMMIT, and the lock is taken by the first. An audit event has the `created_at` that the table has, the
  start of its transaction. That `audits` is a sequence in the order of the COMMITs is history, and so is
  `sawEvents` in an event: how many events the record had when the request read it.
* A COMMIT whose sender gives up or dies is in flight (`inFlight`): it keeps its row lock and its connection's
  transaction until Postgres carries it out or finds the connection closed (`Settle`), which may be long
  after the client has had its error or has been cut off. In `AnsweredCalls` these are the calls in `lost`.
* Subscribing is one action per subject, and it is the client's side of it: a broker that refuses a subscription
  says so later, to nobody who listens. The close after a failed subscription is one action, because the
  connection is closed whatever the calls before it return.
* In `ServerProcess` an execution is only its hold on connections and its end; what it writes is in
  `RunService` and how long it takes in `Execution`. `Kill` is every sudden end of the process.
* In `OpsManager` the clock is the number of events so far. Times and numbers then agree, and the sort
  of `ListEvents` by time leaves the list as it is.
* An identity of a ledger event stands for its hash (sha256 over the previous hash and the fields is
  taken to be injective).
* Operators that begin with a comment `Mutant:` are wrong versions of the definition after them.
  No specification uses them; they document which bug each property catches.

## 3. Runs

| Run | Instance | Question |
|---|---|---|
| `execution` | 368 policy questions (5 actions, every ring and mode, 4 kinds of address or none); 26 jobs (provider, guardrail, model named, helper, 3 sets of timeouts), 12 ticks of 15 s; every word in every form as a guardrail's answer | do the rules agree with the ring definitions; is a guardrail's outcome told truthfully, given its time, and never fatal; is the transaction bounded |
| `execution_evidence` | Ollama jobs | finding: a guardrail timeout can discard evidence |
| `execution_gateway` | gateway jobs | finding: a blank status is recorded as passed |
| `governance_chain` | one execution (two effects), one attach, one comparison | links resolve, policy first, forks explained, implements the forest |
| `governance_chain_linear` | same | finding: not a single chain |
| `run_calls` | 2 requests, each any of 14 calls, 4 runs or none, cycle or none, 2 profiles; under fairness | types, authorisation, ring of each model call, every status has its cause, implements `GovernedCalls`, every call ends |
| `run_calls_three` | 3 requests of 8 calls on a week run with a cycle, symmetric | lock order, references, outcomes, attribution |
| `run_approval` | an approval and an attach | finding: an approval reverts |
| `run_escalation` | an execution and a PATCH of the mode | finding: the judged ring is not the ring used |
| `migrations` | 2 servers that restart without end, 2 reverts, 2 versions | the database moves one whole version at a time (implements `AtomicMigrations`), serving implies whole schema, somebody gets through, starts end |
| `server` | 2 record calls, one of 3 kinds and one of 2, on a policy and up to two bots, 1 execution, a pool of 2, 2 subjects, 2 starts, kills; under fairness | a row is that of its newest audit event or of one that overlapped it, updates are lost to overlapping ones only, no circle of waits for connections and rows, clients are told the truth, a clean stop has cut nobody off, a call takes effect at most once, and after an error or a cut only if its COMMIT was in flight (implements `AnsweredCalls`), subscriptions all or none while it serves; a stop ends, every request ends |
| `ops` | 2 services, 2 schedulers, 1 viewer, a list of 4, pages of 2 events, 7 events in one life, restarts | the newest event tells each switch, numbers run down without a hole, a page that contradicts itself shows why |

The bounds. A conflict at READ COMMITTED needs one transaction between another's read and write: two
requests show each, the third is there for waiting in a circle and for a stale copy of a stale
copy. Requests are made once, so a state space is finite without a counter; a retry is a second
request. Nothing in the manager relates two runs, hence one run, one cycle, one comparison. In the
ledger three requests let one append while a second is between SELECT and INSERT and a third has a
transaction open. Twelve ticks hold every order of deadline, phase timeouts and answers for timeouts
that fit, fill and exceed the request. Of the repository's three
migrations two are enough for a hole, for a revert under a server and for a dependency; the theorems
hold for any number.

In `server` a pool of two lets two transactions fill it while a third request waits, and two starts
show what a restart finds; the process may be started twice only to keep the space finite
(`MaxStarts`). The event list of `ops` keeps four events where the code keeps 50, and its overview page
shows two where the code shows six: with three seeded events the first cut takes a seed and the later ones
take switches, well before the seventh event (`MaxEvents`). Questions to the policy are all judged;
whole executions are followed for a deterministic and a model run, and a JSON object's decision is
one of three classes (none, `allow`, `yes`), which are those the parser tells apart beside a score.

The runs of `execution`, `run_calls...`, `server` and `governance_chain...` allow deadlock: their
requests are made once and end. `migrations` and `ops` check it.

### Fairness

`RunService!FairSpec` assumes weak fairness of each request's own steps. The code justifies it: a
model call and a memory call end with a timeout, a request's context ends after three minutes, so
the holder of a lock goes on or rolls back, and Postgres grants a row lock to the next waiter. No
fairness is put on arrivals, failures or rollbacks. `EveryCallEnds` is not a consequence of fairness
alone: with the opposite lock order two requests wait for each other for ever (its mutant).

`Migrations!FairSpec` assumes weak fairness of a process's steps and strong fairness of running a
script, because the table locks are granted in order of request; it assumes nothing of restarts.

`ServerProcess!FairSpec` assumes weak fairness of what the runtime does of itself: a statement or a commit
ends, an execution in its transaction ends (`Execution` bounds its time: `TransactionBounded`), an
answer is written, the grace is over after ten seconds, and a request that waits for a connection is turned
away once the pool is closed. Postgres settles a COMMIT in flight. A waiting request is not assumed to give up before, and no signal, failure or kill
is assumed to come. `StopEnds` and `EveryRequestEnds` say that a signal ends the process and that
everybody is answered or sees the connection cut.

### Properties that hold under a restriction

Some properties are about what the manager makes of a row by itself, and a client may set almost any
column. Each states what it leaves to the client, no more:

| Hypothesis | No call and no initial row ... | Property |
|---|---|---|
| `RefsLeft` | names an artifact, a note or a snapshot | `RefsBacked` |
| `ExecutionLeft` | sets a status that tells of an execution or its refusal | `StatusesExplained` |
| `OutcomeLeft` | sets the outcome of an execution, and no PATCH the guardrail status or the mode | `OutcomeMatchesGuardrail` |
| `ReviewLeft` | sets a status that tells of a review | `ReviewsAttributable` |
| `RingLeft` | (calls only) PATCHes the mode or the ring of a run | `InferenceWithinRing` |

The theorems assume them by name; `MCRunService` has an assumption that TLC evaluates (`CallsLeave`), that the
calls and initial rows of its instances satisfy all five. `run_escalation` PATCHes a mode and is the
exception: there `InferenceWithinRing` is refuted.

Three properties name what they except:

* `AllowIffGranted` holds the rules against the capabilities of `docs/EXECUTION_RINGS.md`, action by action, but
  for two disagreements. Every action needs the capability of the run's mode, so the run and cycle metadata
  that the document grants ring_0 (35-40) is denied there (service.go:2177-2184), and so is a draft of a model
  run below ring_2. And an artifact's `HTTP://...` is not external (2202), while an inference endpoint is
  put in small letters first (2252). Without the two the property says: allowed exactly when granted.
* `NoSilentGuardrailSuccess` excepts two answers of a local guardrail (`Misread`). A score that is the text NaN is
  read by `ParseFloat`, is not at least 0.7, and passes; and a score that is the JSON value `true`, which would flag
  as a token or a string, is passed over in favour of a decision `allow` beside it. No document says what
  such answers should mean, so they are exceptions and not findings. A guardrail that says nothing defers
  the execution, but for JSON with neither score nor decision, which is flagged, unless it is exactly `{}`.
* `PolicyPrecedesEffect` says that the policy event of a call is stamped strictly before its effect, and that following
  `previous_event_hash` back from the effect comes to it, unless the way leads to the policy event of
  another call whose append had read the head before this one was inserted and was inserted after it. The
  ledger forks there, and the decision is on the other branch.

## 4. Findings

1. The ledger is not one chain (`LinearChain`): overlapping appends fork it. What does hold is
   `ForksExplained`, `ChainGrounded` and `PolicyPrecedesEffect`.
2. An approval can be undone by a call that does not set the status (`ApprovalStands`).
3. A run can be executed with a mode the policy never saw (`InferenceWithinRing` in `run_escalation`).
4. A guardrail that uses its full timeout on a detached context can outlive the request, whose
   end then rolls the primary's evidence back (`TimeoutKeepsEvidence`).
5. A gateway's missing guardrail status is recorded as `guardrail_passed` (`PassedWasReported`).

Seen while reading, and not refuted by a run: `failed_runtime` is never written, since a failed
execution rolls back; the documents' `policy_denied` is `failed_policy` in the code; two executions in one
second share their artifact URIs. A ring_0 run is refused everything, metadata included, and the scheme of an
artifact's URI is compared with case and that of an inference address without: `AllowIffGranted` names both.

## 5. Proofs

All are checked for every value of the constants under the named assumptions of the modules
(`GenesisIsNoId`, `RequestKinds`; `CallsAssumption`, `InitialAssumption`; `MigrationsAssumption`;
`ExecutionAssumption`; `RecordsAssumption`, `ServerAssumption`; `OpsAssumption`). TLC evaluates the
assumptions on every run. A theorem with a further hypothesis says so in its statement.

`ExecutionProofs`
* `AllowIffGrantedHolds`: the coded order of rank comparisons and the table of capabilities agree, for
  every action and any set of addresses (`RulesGrant`), once the capabilities are those the code asks for
  (`NeedsAsCoded`, where the two disagreements are); and the verdict is that of the rules (`Judgement`).
* `GuardrailGetsItsTimeHolds`, `TransactionBoundedHolds`: for any timeouts. `Timed` is inductive: types, how the
  root's deadline relates to the request's (`Deadlines`), and that the root lasts long enough for the
  timeouts of the phases still to come (`Budget`). `GuardrailGetsItsTime` alone is not: it needs to know,
  when the primary starts, that both phases fit under the root.
* `EvidenceOutlivesModelsHolds`, `InferenceNeverCompletesHolds`: from `Recorded`, that an outcome is that of the
  recorded status and that nothing is reported before the primary has answered.
* `NoSilentGuardrailSuccessHolds`: from `Heard` (a local execution that says "passed" had an answer that the
  parser makes that status of) and `AnswersRead`, about the parser for every word and form.
* `PhasesLeaveBufferHolds`: an action property. Unless the client has gone away, the writes after the last
  phase begin with the buffer left of the root's deadline (`Spare`: a phase is never past its own time, and
  what is ahead of it still fits under the root). It bounds finding 4: evidence is lost to a deadline
  only under a detached root, or when the writes take longer than the buffer.
* `PassedUnlessBlankHolds`: from `FromReport`, "passed" was reported or a gateway that is to guard left its
  status blank; finding 5 has no other cause. `PassedWasReportedLocally` is the property of the finding, for
  jobs that ask no gateway to guard.
* `CommitsAsInferredHolds`: from `Settled`, what an execution commits is a result that `RunService`'s `Infer`
  can have for its mode and profile, so what is proved of `RunService` holds of executions phase by phase.

`GovernanceChainProofs`
* `TypeCorrect`: `Spec => []TypeOK`.
* `InductiveInvariant`: `TypeOK` with `RowsInPlace` (whose rows are in which set at each stage) and
  `LinksResolve` (the hash an append has read is of a visible row: committed, or its own).
  `ChainGrounded` alone is not inductive: a COMMIT publishes rows whose links were chosen earlier, so
  the links of uncommitted rows and of appends in progress have to be known as well.
* `ChainAlwaysGrounded`, from it.
* `ChainImplementsForest`: every step publishes a grounded batch of new identities or nothing.

`GovernanceForksProofs`
* `ForksAlwaysExplained`: adds `ForkInv`: every hash a request holds or has linked a row to was, and
  still is, a newest among the rows its SELECT saw (`HeadsChosen`); views hold no two rows with one
  identity (`DistinctRows`); a transaction inserts each of its events once (`InsertedOnce`). What a SELECT
  found stays true until its row is published because rows that come later have identities of their
  own, which is the lemma `ChoiceStands`.
* `PolicyAlwaysFirst`: adds `Ordered` (a permitted request has its policy row committed, began after it, and sees
  it when it reads) and `TrailInv`. Who has read without seeing a policy row that is there now was
  informed before it (`Informed`), so what it inserts is stamped earlier or is a policy row of an
  overlapping append; and the links back from every row and every head that was chosen with the decision in
  sight lead to the decision or to such a row (`LeadBack`).

`RunServiceProofs`
* `InductiveInvariant`: `TypeOK`; `CallsKnown` (a request's call is one of `Calls`, or what a refused
  execution turned into); `RowsRead` (a transaction has read the rows it will write back, since rows
  are never deleted); `WorkKnown` (what is left, plus what is locked, is what the call needs);
  `LocksOrdered` (nobody holds a row and still has to do one that comes before it).
  `TypeOK` alone is not inductive: a COMMIT writes a row computed from `local`, which is a row only if
  the call was admitted when the transaction opened.
* `TypeCorrect`, from it.
* `LocksNeverCycle`: in a circle of waiting requests, the one that waits for the row of highest rank
  waits for a request that holds it and waits for a row at or below it, which `LocksOrdered` excludes.
* `EffectsAlwaysAuthorised`: with the invariant that a governed request past its decision was allowed
  and has its policy event.
* `RefsAlwaysBacked` (assuming `RefsLeft`), `StatusesAlwaysExplained` (`ExecutionLeft`),
  `OutcomeAlwaysMatches` (`OutcomeLeft`) and `ReviewsAlwaysAttributable` (`ReviewLeft`): one invariant, `SoundRows`,
  with each hypothesis in front of the part that needs it. It says the four properties of a row and of every
  copy in a transaction too: a COMMIT writes a copy that may be long out of date, so properties of the rows
  alone are not inductive. A copy stays sound while it is held because records, artifacts and notes are
  never taken back (`SoundStays`).
* `InferenceAlwaysWithinRing` (assuming `RingLeft`): every copy agrees with the row in mode and ring (`Agrees`), so
  what the policy found of the first copy holds of the one that the call is made with (`JudgedCall`). The
  profile may be replaced at any time.
* `RevertsAlwaysExplained`: an action property with no hypothesis, the complement of finding 2. An approval
  ends with a review that decides otherwise and is recorded in the same step, with an execution or its
  refusal, with a PATCH of the status, or under a copy older than the approval; never otherwise.
  `CreatesAlone` (a create meets no run) and `Unpublished` (a review's record is new when it
  commits) are what it needs beside the inductive invariant. `ApprovalStandsForReviews` is the property of
  the finding, where reviews alone write runs that exist (`ReviewsOnly`).
* `CycleMovesAlwaysExplained`: an action property with no hypothesis. A cycle leaves the transition table only with
  a review, an execution or its refusal, which do not ask it, or by a PATCH whose row was overwritten
  between the check and the write. From `MovesChecked` (a PATCH may go where it goes from the row it read) and
  `OneCyclePerKey` (who creates the cycle finds none until it commits).
* `CallsImplementGoverned`: deciding is a step of `GovernedCalls`, COMMIT is another or none, the rest
  stutters. The invariant is that a request has no record but its decision and the event of that until
  it commits (`Unpublished`), with the one of `EffectsAlwaysAuthorised`.

`MigrationsProofs`
* `InductiveInvariant`: `TypeOK`, `LedgerMatchesSchema` and `NoGaps` with `OneInside` (the transaction
  that is open is the holder's), `ScriptRun` (it has done what its script does to the schema, the
  script could be run, and a rollback restores what the rows say) and `Progressed` (what a server has
  not left to do is recorded, as long as nothing is reverted). `LedgerMatchesSchema` alone is silent
  while a transaction is open, so it says nothing of what the next COMMIT or rollback publishes.
* `TypeCorrect`, `LedgerNeverLies`, `NeverAnyGap` and `ServersFindWholeSchema`, from it.
* `MigrationsAreAtomic`: `Spec => MigratesAtomically`. Only COMMIT changes what others see, and by what the
  invariant knows of the holder it is a step up or down between whole versions.
* `SomeoneGetsThrough`: with `SInv`. What a server has left to do reaches up to the latest version (`UpToLatest`), a
  revert has one version at most (`OneAtMost`), and as long as nothing but conflicts has stopped
  anyone, some process has nothing to do or just what it would plan from the rows of now (`SomeoneAbreast`): who
  commits is abreast of the rows afterwards, and who fails on a conflict leaves somebody who is.
* The versions in work are a least and a greatest element. That every nonempty set of numbers has a
  least one is derived from the well-foundedness of inclusion on finite sets (`LeastMember`), because
  the library's induction takes an operator.

`RecordManagerProofs`
* `RowIsLastAuditedHolds`: with `Copied` (a request that has begun holds a call and a merged row of its
  kind) and `LocksHeld` (a row's lock is held by the transaction that has written it, in flight or not). Both are
  needed to know that a COMMIT touches one record. Of the events in the order of their COMMITs the row is that of the
  last (`RowIsLastCommitted`); but readers have `created_at` alone, so the property is about the newest by that
  column. It is the row's, or it had read the record before the row's event was there (`SawBefore`): the two
  overlapped.
* `LossNeedsOverlapHolds`: `LossIn` says of every event what the property says of the row, and `Staged` says
  of the copy of an update that it differs from the event it has read only in the fields that are given.
  The property speaks of the row alone; that an update keeps what it has seen is settled when it reads,
  long before it writes.
* `RecordTypes`, from the same invariant.

`ServerProcessProofs`
* `ServesRecords`: `Spec => RecordSpec`: every step of the server maps to a step of the record managers or
  to none; the end of the process is an `Abort` of all open transactions. The theorems of
  `RecordManagerProofs` carry over (`RowIsLastAuditedServed`, `LossNeedsOverlapServed`).
* `NoWaitCircleHolds`: `PoolInv` (a connection is held only inside a transaction) and `LocksHeld`: who
  waits for a connection has none, so whoever holds one does not wait for another; who holds a row's lock
  has written and waits for nothing.
* `AnswersTruthfulHolds`: `Once` (a request has one audit event if its COMMIT took effect and else none)
  and `Said` (what a client was told is how its request ended).
* `CleanMeansAnsweredHolds`: nobody arrives once the server has left `serving`, so nobody is active after
  a clean `Shutdown` (`CleanInv`).
* `ServerAnswersCalls`: `Spec => CallsAnswered`. With `Once` in the form that a request has exactly as many audit
  events as effects, every step of the process, `Kill` and the end after a stop included, is a step of
  `AnsweredCalls` or none: who gives up on a COMMIT in flight loses track of the call, a death cuts off and
  loses track at once, and `Settle` is Postgres coming to it. `Shows` gives the abstract state by stages and
  answers alone, without counting.
* `EventsAllOrNoneHolds`: while they are made, the subscriptions are a prefix of the subjects (`EventsInv`).
* `ServerTypes`.

`OpsManagerProofs`
* `NumbersRunDownHolds`, `OpsTypes`: for any seeds and limits.
* `NewestEventTellsHolds`: `Told`, the property with the newest event named instead of chosen; a cut takes
  an event that is not the newest of its source, or leaves the source without one.
* `PageExplainedHolds`: `Pages` says what each stage of an overview page knows: figures that are those of
  now unless an event came since, a list that disagrees only if one came, and then an event that shows it.

Only model-checked: the four liveness properties `EveryCallEnds`, `EveryStartEnds`, `StopEnds` and
`EveryRequestEnds` (liveness under fairness is out of the prover's reach, like ENABLED). Every other property
of a passing run is stated by a theorem. No module declares a RECURSIVE operator. Nothing is proved by induction over data.

## 6. Not modelled

* Prompts, payloads and the decoding of the primary's, the helper's and the gateway's answers;
  descriptive columns; timestamps other than the ledger's; the handlers' decoding and status codes.
* The exact text of a guardrail's answer: a word is a class of texts, and an object has no fields but
  `score` and `decision`, the two that are looked at.
* Postgres' own deadlock detection: `NoWaitCycle` and `NoWaitCircle` show that it has nothing to detect among
  requests. Two migration scripts may deadlock on table locks or meet in a unique index of the catalog; one of
  them fails then, as `RunScript` and its conflict have it.
* A broker that refuses a subscription after the client has made it.
* The handlers of identity events: they write log lines and keep no state. A handler that stored
  something would need a model of delivery, which is at most once.
* The scheduler placeholder (an audit event of an intent; nothing is scheduled), the dashboard (one query
  that counts), the proxies (stateless passthrough), the configuration (read once) and `stack-smoke` (a test
  client): none keeps a state that a property could be about.

## 7. Plan

Built, in the order of importance: policy rules and one execution; the ledger, the manager and the
migrations with their proofs; the server process with the record managers, the operations console and the
guardrail's answers with theirs. Open:

1. `RunService` extended to two cycles of a run, whose copies of the run meet.
2. Of two overlapping reviews, which prior status each may record (a theorem beside
   `RevertsAlwaysExplained`; the prior is that of the unlocked read).
3. Delivery of identity events, once their handlers keep state.
