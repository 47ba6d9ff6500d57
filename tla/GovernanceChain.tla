-------------------------- MODULE GovernanceChain --------------------------
(***************************************************************************)
(* AppendGovernanceAuditEvent (internal/platform/runs/repository.go) under *)
(* concurrent requests.                                                    *)
(*                                                                         *)
(* Appending is two statements: SELECT the hash of the row with the newest *)
(* created_at, then INSERT a row that links to it.  Nothing locks the      *)
(* table in between, the columns carry no unique constraint, and           *)
(* created_at is NOW(): the start of the enclosing transaction.            *)
(*                                                                         *)
(* A request appends in one of these ways:                                 *)
(*   - evaluateAndRecordPolicy appends a policy.allow/policy.deny event on *)
(*     the pool, so SELECT and INSERT are transactions of their own;       *)
(*   - a governed operation then appends its own event inside InTx, and an *)
(*     execution without a guardrail verdict a second one;                 *)
(*   - UpsertComparison appends inside InTx without a policy event.        *)
(*                                                                         *)
(* An event's hash is its identity: sha256 over the previous hash, the     *)
(* fields and a nanosecond clock is taken to be injective.  The clock      *)
(* moves between any two transactions.                                     *)
(***************************************************************************)
EXTENDS Integers

CONSTANTS Request,      \* the requests in flight
          Executions,   \* those that execute a run
          Comparisons,  \* those that upsert a comparison
          Genesis       \* the empty previous_event_hash

Kinds == {"policy", "effect", "guardrail"}

Id == Request \X Kinds

ASSUME GenesisIsNoId == Genesis \notin Id

ASSUME RequestKinds ==
    /\ Executions \subseteq Request
    /\ Comparisons \subseteq Request
    /\ Executions \cap Comparisons = {}

VARIABLES clock,      \* the database's time
          committed,  \* rows of governance_audit_events that others can see
          pending,    \* per request: rows its open transaction has inserted
          head,       \* per request: the hash its last SELECT returned
          seen,       \* per request: the rows that SELECT saw (history)
          beganAt,    \* per request: start of its transaction
          pc          \* per request: where it is

vars == <<clock, committed, pending, head, seen, beganAt, pc>>

Stages ==
    {"idle", "policyRead", "permitted", "denied", "begun", "effectRead",
     "effectDone", "guardrailRead", "guardrailDone", "committed", "rolledBack"}

\* seen is history: the rows among which the predecessor was chosen.
Events == [id : Id, prev : Id \cup {Genesis}, createdAt : Nat, seen : SUBSET Id]

IdsOf(events) == {e.id : e \in events}

\* Stages inside InTx.
InTransaction == {"begun", "effectRead", "effectDone", "guardrailRead", "guardrailDone"}

Init ==
    /\ clock = 0
    /\ committed = {}
    /\ pending = [q \in Request |-> {}]
    /\ head = [q \in Request |-> Genesis]
    /\ seen = [q \in Request |-> {}]
    /\ beganAt = [q \in Request |-> 0]
    /\ pc = [q \in Request |-> "idle"]

-----------------------------------------------------------------------------
\* ORDER BY created_at DESC LIMIT 1 over the rows a statement of q sees: those
\* committed and its own.  Rows of one transaction tie, and any may come first.
VisibleTo(q) == committed \cup pending[q]

\* Mutant: an empty table returns no row, and the zero value is used as the hash.
NoRowsUnhandled(events) ==
    IF events = {} THEN {<<>>}
    ELSE {e.id : e \in {x \in events : \A y \in events : y.createdAt <= x.createdAt}}

\* Mutant: the oldest row instead of the newest.
OldestFirst(events) ==
    IF events = {} THEN {Genesis}
    ELSE {e.id : e \in {x \in events : \A y \in events : x.createdAt <= y.createdAt}}

Heads(events) ==
    IF events = {} THEN {Genesis}
    ELSE {e.id : e \in {x \in events : \A y \in events : y.createdAt <= x.createdAt}}

NewEvent(q, kind, createdAt) ==
    [id |-> <<q, kind>>, prev |-> head[q], createdAt |-> createdAt, seen |-> seen[q]]

\* The hash that was read is a local of the append: it dies with the call.
Returned(q) ==
    /\ head' = [head EXCEPT ![q] = Genesis]
    /\ seen' = [seen EXCEPT ![q] = {}]

\* The SELECT of an append: q goes from one stage to the next.
ReadHead(q, from, to) ==
    /\ pc[q] = from
    /\ \E h \in Heads(VisibleTo(q)) : head' = [head EXCEPT ![q] = h]
    /\ seen' = [seen EXCEPT ![q] = IdsOf(VisibleTo(q))]
    /\ pc' = [pc EXCEPT ![q] = to]
    /\ UNCHANGED <<clock, committed, pending, beganAt>>

\* The INSERT of an append inside q's transaction, stamped with its start.
InsertInTransaction(q, kind, from, to) ==
    /\ pc[q] = from
    /\ pending' = [pending EXCEPT ![q] = @ \cup {NewEvent(q, kind, beganAt[q])}]
    /\ Returned(q)
    /\ pc' = [pc EXCEPT ![q] = to]
    /\ UNCHANGED <<clock, committed, beganAt>>

-----------------------------------------------------------------------------
ReadHeadForPolicy(q) ==
    /\ q \notin Comparisons
    /\ ReadHead(q, "idle", "policyRead")

\* The INSERT on the pool commits at once; a denied request ends here.
InsertPolicyEvent(q) ==
    /\ pc[q] = "policyRead"
    /\ clock' = clock + 1
    /\ committed' = committed \cup {NewEvent(q, "policy", clock')}
    /\ Returned(q)
    /\ \E verdict \in {"permitted", "denied"} : pc' = [pc EXCEPT ![q] = verdict]
    /\ UNCHANGED <<pending, beganAt>>

\* Mutant: the transaction is opened before the policy is asked.
BeginsUnasked(q) ==
    /\ pc[q] \in {"idle", "permitted"}
    /\ clock' = clock + 1
    /\ beganAt' = [beganAt EXCEPT ![q] = clock']
    /\ pc' = [pc EXCEPT ![q] = "begun"]
    /\ UNCHANGED <<committed, pending, head, seen>>

\* A comparison upsert begins without having asked for a decision.
Begin(q) ==
    /\ pc[q] = (IF q \in Comparisons THEN "idle" ELSE "permitted")
    /\ clock' = clock + 1
    /\ beganAt' = [beganAt EXCEPT ![q] = clock']
    /\ pc' = [pc EXCEPT ![q] = "begun"]
    /\ UNCHANGED <<committed, pending, head, seen>>

ReadHeadForEffect(q) == ReadHead(q, "begun", "effectRead")

InsertEffect(q) == InsertInTransaction(q, "effect", "effectRead", "effectDone")

ReadHeadForGuardrail(q) ==
    /\ q \in Executions
    /\ ReadHead(q, "effectDone", "guardrailRead")

InsertGuardrail(q) ==
    InsertInTransaction(q, "guardrail", "guardrailRead", "guardrailDone")

\* Mutant: COMMIT publishes one row of the transaction and loses the other.
PublishesHalf(q) ==
    /\ pc[q] \in {"effectDone", "guardrailDone"}
    /\ \E e \in pending[q] : committed' = committed \cup {e}
    /\ pending' = [pending EXCEPT ![q] = {}]
    /\ beganAt' = [beganAt EXCEPT ![q] = 0]
    /\ pc' = [pc EXCEPT ![q] = "committed"]
    /\ UNCHANGED <<clock, head, seen>>

Commit(q) ==
    /\ pc[q] \in {"effectDone", "guardrailDone"}
    /\ committed' = committed \cup pending[q]
    /\ pending' = [pending EXCEPT ![q] = {}]
    /\ beganAt' = [beganAt EXCEPT ![q] = 0]
    /\ pc' = [pc EXCEPT ![q] = "committed"]
    /\ UNCHANGED <<clock, head, seen>>

\* Any statement, the COMMIT or the process itself may fail.
Rollback(q) ==
    /\ pc[q] \in InTransaction
    /\ pending' = [pending EXCEPT ![q] = {}]
    /\ Returned(q)
    /\ beganAt' = [beganAt EXCEPT ![q] = 0]
    /\ pc' = [pc EXCEPT ![q] = "rolledBack"]
    /\ UNCHANGED <<clock, committed>>

Next ==
    \E q \in Request :
        \/ ReadHeadForPolicy(q)
        \/ InsertPolicyEvent(q)
        \/ Begin(q)
        \/ ReadHeadForEffect(q)
        \/ InsertEffect(q)
        \/ ReadHeadForGuardrail(q)
        \/ InsertGuardrail(q)
        \/ Commit(q)
        \/ Rollback(q)

Spec == Init /\ [][Next]_vars
-----------------------------------------------------------------------------
EventOf(id) == CHOOSE e \in committed : e.id = id

(***************************************************************************)
(* Types.                                                                  *)
(***************************************************************************)
TypeOK ==
    /\ clock \in Nat
    /\ committed \subseteq Events
    /\ pending \in [Request -> SUBSET Events]
    /\ head \in [Request -> Id \cup {Genesis}]
    /\ seen \in [Request -> SUBSET Id]
    /\ beganAt \in [Request -> Nat]
    /\ pc \in [Request -> Stages]

\* A reader that follows previous_event_hash from any visible event never meets
\* a hash that is not in the table, whatever rolled back in the meantime.
ChainGrounded ==
    \A e \in committed : e.prev \in IdsOf(committed) \cup {Genesis}

\* What has been read when following previous_event_hash has come to the root.
Trails == {events \in SUBSET committed :
              \A e \in events : e.prev \in IdsOf(events) \cup {Genesis}}

\* The append of the policy event f overlapped that of d, and sorts no earlier.
Missed(d, f) == f.id[2] = "policy" /\ d.id \notin f.seen /\ d.createdAt <= f.createdAt

\* A governed effect has the policy event of its call before it: strictly, in the
\* order of created_at; and in the chain, unless following the links back from the
\* effect meets the policy event of another call that was inserted later although
\* its SELECT had not seen this one.  That fork, and no other, takes a decision
\* off the trail of its effect.  Comparisons alone have no policy event.
PolicyPrecedesEffect ==
    \A e \in committed :
        e.id[2] # "policy" /\ e.id[1] \notin Comparisons =>
            \E d \in committed :
                /\ d.id = <<e.id[1], "policy">>
                /\ d.createdAt < e.createdAt
                /\ \A trail \in Trails :
                       e \in trail => d \in trail \/ \E f \in trail : Missed(d, f)

\* Why two events can share a predecessor: their appends overlapped (neither saw
\* the other), or the one that was there first did not sort after the head both
\* chose - its transaction began before the head was stamped, or tied with it
\* inside one transaction.  Nothing else forks the chain; in particular
\* transactions of one event each, one after the other, never do.
ForksExplained ==
    \A e, f \in committed :
        e.prev = f.prev /\ e.id \in f.seen =>
            /\ e.prev # Genesis
            /\ e.createdAt <= EventOf(e.prev).createdAt

\* The ledger as docs/control-plane.md and docs/api.md describe it, a single
\* hash chain: no two visible events name the same predecessor.
LinearChain ==
    \A e, f \in committed : e.prev = f.prev => e = f

-----------------------------------------------------------------------------
\* The ledger implements the forest: hashes and links, without the clock.
LinksOf(events) == {[id |-> e.id, prev |-> e.prev] : e \in events}

Forest == INSTANCE AuditForest WITH forest <- LinksOf(committed)

ImplementsForest == Forest!Spec
=============================================================================
