--------------------------- MODULE ServerProcess ---------------------------
(***************************************************************************)
(* The life of a server process (internal/app) around the requests it      *)
(* serves: start, the subscriptions of the identity events, serving, the   *)
(* shutdown with its grace, death and restart; and the pool of connections *)
(* that its requests share.                                                *)
(*                                                                         *)
(* Requests are the bot and policy calls of RecordManager, in whose        *)
(* transactions a connection is held from BEGIN to the end, and executions *)
(* of runs, which ask for a policy decision on the pool and then hold a    *)
(* connection in a transaction while the models answer (RunService has     *)
(* what they write, Execution how long they take).                         *)
(*                                                                         *)
(* The order of the end: the server's Shutdown (no new request, a grace    *)
(* for those that run), then the deferred calls last first: the event      *)
(* runtime is closed, then the pool, whose Close waits for the connections *)
(* still held, and then the process ends, whoever has not been answered.   *)
(***************************************************************************)
EXTENDS RecordManager, FiniteSets

CONSTANTS Execution,  \* executions of runs, each asked for once
          PoolSize,   \* connections of the pool
          Subjects,   \* what the event consumer subscribes to, in order
          MaxStarts   \* bound: how often the process is started

ASSUME ServerAssumption ==
    /\ Execution \cap (Request \cup Records \cup {NoRow}) = {}
    /\ PoolSize \in Nat \ {0} /\ MaxStarts \in Nat \ {0}
    /\ Subjects \in Seq(STRING)
    /\ \A i, j \in DOMAIN Subjects : Subjects[i] = Subjects[j] => i = j

VARIABLES phase,      \* of the process
          signalled,  \* SIGINT or SIGTERM has come
          starts,
          result,     \* what RunServer is going to return
          conns,      \* requests that hold a connection of the pool
          exec,       \* per execution its stage
          answer,     \* per request what its client has been told
          broker,     \* is the connection to NATS open
          subs        \* subscriptions that deliver

processVars == <<phase, signalled, starts, result>>

eventVars == <<broker, subs>>

vars == <<recordVars, processVars, eventVars, conns, exec, answer>>

Phases == {"down", "migrating", "connecting", "subscribing", "serving",
           "draining", "closingEvents", "closingPool"}

Clients == Request \cup Execution

SubjectSet == {Subjects[i] : i \in DOMAIN Subjects}

Init ==
    /\ RecordInit
    /\ phase = "down" /\ signalled = FALSE /\ starts = 0 /\ result = "none"
    /\ conns = {}
    /\ exec = [e \in Execution |-> "idle"]
    /\ answer = [q \in Clients |-> "none"]
    /\ broker = FALSE /\ subs = {}

-----------------------------------------------------------------------------
(***************************************************************************)
(* Requests.                                                               *)
(***************************************************************************)
PoolOpen == phase \notin {"down", "closingPool"}

ConnectionFree == PoolOpen /\ Cardinality(conns) < PoolSize

InExecution == {"asking", "asked", "open"}

Arrived(q) == IF q \in Request THEN stage[q] # "idle" ELSE exec[q] # "idle"

HasEnded(q) ==
    IF q \in Request THEN stage[q] \in Ended \cup {"inFlight"} ELSE exec[q] = "ended"

Active(q) == Arrived(q) /\ answer[q] = "none"

\* Kept by the requests' actions.
Elsewhere == UNCHANGED <<processVars, eventVars>>

\* Mutant: the listener is closed last.
ListenerStaysOpen(q) ==
    /\ phase \in {"serving", "draining", "closingEvents"} /\ Arrive(q)
    /\ Elsewhere /\ UNCHANGED <<conns, exec, answer>>

ArriveAt(q) == phase = "serving" /\ Arrive(q) /\ Elsewhere /\ UNCHANGED <<conns, exec, answer>>

\* Mutant: the audit event is written on the pool from inside the transaction.
AuditNeedsConnection(q) ==
    IF q \in Request THEN stage[q] \in {"ready", "read"} ELSE exec[q] \in {"asking", "asked"}

\* BEGIN, and the statements of a decision, take a connection from the pool.  What
\* runs inside a transaction uses the connection of the transaction.
NeedsConnection(q) ==
    IF q \in Request THEN stage[q] = "ready" ELSE exec[q] \in {"asking", "asked"}

HasConnection(q) == NeedsConnection(q) => ConnectionFree

\* A transaction that is not refused at once keeps its connection.
BeginWith(q) ==
    /\ HasConnection(q) /\ Begin(q)
    /\ conns' = IF stage'[q] = "read" THEN conns \cup {q} ELSE conns
    /\ Elsewhere /\ UNCHANGED <<exec, answer>>

Statement(q) ==
    /\ HasConnection(q) /\ Write(q)
    /\ Elsewhere /\ UNCHANGED <<conns, exec, answer>>

CommitWith(q) ==
    /\ Commit(q)
    /\ conns' = conns \ {q}
    /\ Elsewhere /\ UNCHANGED <<exec, answer>>

\* Mutant: an error leaves the transaction without a rollback.
LeaksConnection(q) ==
    /\ q \in Open
    /\ Abort({q}, {})
    /\ Elsewhere /\ UNCHANGED <<exec, answer, conns>>

\* A statement fails, the deadline passes, the client goes away; a request that
\* waits for a connection is turned away when the pool is closed.  The connection
\* of a COMMIT that is not waited for is closed, not used again.
Fails(q) ==
    /\ q \in Open
    /\ \E sent \in MaySend({q}) : Abort({q}, sent)
    /\ conns' = conns \ {q}
    /\ Elsewhere /\ UNCHANGED <<exec, answer>>

\* Postgres does this, whatever has become of the process.
Settles(q) == Settle(q) /\ Elsewhere /\ UNCHANGED <<conns, exec, answer>>

ExecStep(e, from, to) == exec[e] = from /\ exec' = [exec EXCEPT ![e] = to]

ExecutionArrives(e) ==
    /\ phase = "serving" /\ ExecStep(e, "idle", "asking")
    /\ Elsewhere /\ UNCHANGED <<recordVars, answer, conns>>

\* The decision and its event are statements on the pool, before the transaction.
Decided(e) ==
    /\ HasConnection(e) /\ ExecStep(e, "asking", "asked")
    /\ Elsewhere /\ UNCHANGED <<recordVars, answer, conns>>

\* The connection is kept while the models answer.
OpensTransaction(e) ==
    /\ HasConnection(e) /\ ExecStep(e, "asked", "open")
    /\ conns' = conns \cup {e}
    /\ Elsewhere /\ UNCHANGED <<recordVars, answer>>

\* Committed, rolled back, or given up before: RunService has the difference.
ExecutionEnds(e) ==
    /\ \E from \in InExecution : ExecStep(e, from, "ended")
    /\ conns' = conns \ {e}
    /\ Elsewhere /\ UNCHANGED <<recordVars, answer>>

\* writeJSON, writeServiceError.
Told(q) ==
    IF q \in Execution THEN "answered"
    ELSE IF stage[q] = "committed" THEN "ok"
    ELSE IF stage[q] = "notFound" THEN "notFound" ELSE "error"

Answer(q) ==
    /\ phase # "down" /\ HasEnded(q) /\ answer[q] = "none"
    /\ answer' = [answer EXCEPT ![q] = Told(q)]
    /\ Elsewhere /\ UNCHANGED <<recordVars, conns, exec>>

-----------------------------------------------------------------------------
(***************************************************************************)
(* The process.                                                            *)
(***************************************************************************)
requestVars == <<recordVars, conns, exec, answer>>

Start ==
    /\ phase = "down" /\ starts < MaxStarts
    /\ phase' = "migrating" /\ starts' = starts + 1
    /\ UNCHANGED <<requestVars, eventVars, signalled, result>>

\* Nobody listens to a signal once RunServer has stopped serving.
Signal ==
    /\ phase \in {"migrating", "connecting", "subscribing", "serving"} /\ ~signalled
    /\ signalled' = TRUE
    /\ UNCHANGED <<requestVars, eventVars, phase, starts, result>>

\* A signal ends the migrations' context; without AutoMigrate nothing looks at it
\* before the server serves.
Migrate ==
    /\ phase = "migrating"
    /\ \/ phase' = "connecting" /\ UNCHANGED signalled
       \/ phase' = "down" /\ signalled' = FALSE
    /\ UNCHANGED <<requestVars, eventVars, starts, result>>

\* NATS is reached, or the server does without its events.
ConnectEvents ==
    /\ phase = "connecting"
    /\ \/ broker' = TRUE /\ phase' = "subscribing"
       \/ broker' = FALSE /\ phase' = "serving"
    /\ UNCHANGED <<requestVars, subs, signalled, starts, result>>

\* Mutant: a consumer that fails half way leaves the connection open.
LeavesConnection == phase' = "serving" /\ UNCHANGED eventVars

\* Subscriptions made before one that fails end with the connection.
GivesUpEvents == phase' = "serving" /\ broker' = FALSE /\ subs' = {}

\* NewConsumer: the subjects in their order.  That a subscription is made is what
\* the client library says; a refusal of the broker comes later, to nobody's notice.
Subscribe ==
    /\ phase = "subscribing"
    /\ \/ LET next == Subjects[Cardinality(subs) + 1]
          IN  /\ Cardinality(subs) < Len(Subjects)
              /\ subs' = subs \cup {next}
              /\ UNCHANGED <<phase, broker>>
       \/ Cardinality(subs) < Len(Subjects) /\ GivesUpEvents
       \/ /\ Cardinality(subs) = Len(Subjects)
          /\ phase' = "serving" /\ UNCHANGED eventVars
    /\ UNCHANGED <<requestVars, signalled, starts, result>>

\* Shutdown closes the listeners.
Drain ==
    /\ phase = "serving" /\ signalled
    /\ phase' = "draining"
    /\ UNCHANGED <<requestVars, eventVars, signalled, starts, result>>

\* Shutdown returns when nobody is active, with an error when the grace is over
\* before; the listener can fail while the server serves.
StopServing ==
    /\ \/ phase = "draining" /\ ~(\E q \in Clients : Active(q)) /\ result' = "ok"
       \/ phase = "draining" /\ (\E q \in Clients : Active(q)) /\ result' = "error"
       \/ phase = "serving" /\ result' = "error"
    /\ phase' = "closingEvents"
    /\ UNCHANGED <<requestVars, eventVars, signalled, starts>>

\* Consumer.Close ends one subscription after the other and goes on when one fails;
\* the rest ends with the connection, which is drained and closed.
CloseEvents ==
    /\ phase = "closingEvents"
    /\ \/ /\ \E subject \in subs : subs' = subs \ {subject}
          /\ UNCHANGED <<phase, broker>>
       \/ phase' = "closingPool" /\ broker' = FALSE /\ subs' = {}
    /\ UNCHANGED <<requestVars, signalled, starts, result>>

\* Everything in the process ends with it.
Dies ==
    /\ phase' = "down" /\ signalled' = FALSE /\ result' = "none"
    /\ broker' = FALSE /\ subs' = {}
    /\ answer' = [q \in Clients |-> IF Active(q) THEN "cut" ELSE answer[q]]
    /\ \E sent \in MaySend(Open) : Abort(Open, sent)
    /\ conns' = {}
    /\ exec' = [e \in Execution |-> IF exec[e] \in InExecution THEN "ended" ELSE exec[e]]
    /\ UNCHANGED starts

\* pool.Close returns once no connection is held.
Exit == phase = "closingPool" /\ conns = {} /\ Dies

Kill == phase # "down" /\ Dies

Next ==
    \/ \E q \in Request :
          \/ ArriveAt(q) \/ BeginWith(q) \/ Statement(q) \/ CommitWith(q)
          \/ Fails(q) \/ Settles(q)
    \/ \E e \in Execution :
          \/ ExecutionArrives(e) \/ Decided(e) \/ OpensTransaction(e)
          \/ ExecutionEnds(e)
    \/ \E q \in Clients : Answer(q)
    \/ Start \/ Signal \/ Migrate \/ ConnectEvents \/ Subscribe
    \/ Drain \/ StopServing \/ CloseEvents \/ Exit \/ Kill

Spec == Init /\ [][Next]_vars

-----------------------------------------------------------------------------
(***************************************************************************)
(* Fairness: the runtime goes on with what can go on.  Statements and      *)
(* models are answered or fail (Execution bounds their time), the grace    *)
(* ends, and a closed pool turns away who waits for it.  Postgres settles  *)
(* what is in flight.  No waiting request is assumed to give up, no signal *)
(* and no failure to come.                                                 *)
(***************************************************************************)
TurnedAway(q) == phase = "closingPool" /\ NeedsConnection(q)

GoesOn(q) ==
    \/ Answer(q)
    \/ q \in Request /\ (BeginWith(q) \/ Statement(q) \/ CommitWith(q) \/ Settles(q))
    \/ q \in Request /\ TurnedAway(q) /\ Fails(q)
    \/ q \in Execution /\ (Decided(q) \/ OpensTransaction(q))
    \/ q \in Execution /\ (exec[q] = "open" \/ TurnedAway(q)) /\ ExecutionEnds(q)

ProcessGoesOn ==
    \/ Migrate \/ ConnectEvents \/ Subscribe \/ Drain
    \/ phase = "draining" /\ StopServing
    \/ CloseEvents \/ Exit

FairSpec ==
    /\ Spec
    /\ \A q \in Clients : WF_vars(GoesOn(q))
    /\ WF_vars(ProcessGoesOn)

-----------------------------------------------------------------------------
TypeOK ==
    /\ RecordTypeOK
    /\ phase \in Phases /\ result \in {"none", "ok", "error"}
    /\ starts \in 0 .. MaxStarts
    /\ exec \in [Execution -> InExecution \cup {"idle", "ended"}]
    /\ answer \in [Clients -> {"none", "ok", "notFound", "error", "answered", "cut"}]
    /\ subs \subseteq SubjectSet
    /\ conns \subseteq Clients /\ Cardinality(conns) <= PoolSize

\* What a request waits for: a connection while all are held, or the lock of the
\* row it writes.
BlockedBy(q) ==
    (IF NeedsConnection(q) /\ ~ConnectionFree THEN conns ELSE {})
        \cup (IF q \in Request /\ stage[q] = "read" /\ local[q].call.op = "update"
                THEN {rowLock[local[q].id]} \ {NoRow} ELSE {})

\* Requests never starve the pool: among those that wait for a connection or a row
\* lock, some connection or lock is held by one that does not wait, however many
\* executions hold connections during their model calls (no callback of InTx asks
\* the pool for a second connection).
NoWaitCircle ==
    \A S \in (SUBSET Clients) \ {{}} :
        \E q \in S : BlockedBy(q) = {} \/ ~(BlockedBy(q) \subseteq S)

\* The committed audit events of a request: each comes with its row.
Effects(q) ==
    {event \in UNION {{id} \X DOMAIN audits[id] : id \in Records} :
        audits[event[1]][event[2]].by = q}

\* A client that is told of success has had exactly one effect, and one that is told
\* of an error has had none, or will have, unless its COMMIT was in flight when the
\* server gave up (InTx), through kills, restarts and shutdowns.
AnswersTruthful ==
    \A q \in Request :
        /\ Cardinality(Effects(q)) <= 1
        /\ answer[q] = "ok" => Effects(q) # {}
        /\ answer[q] = "notFound" => Effects(q) = {}
        /\ answer[q] = "error" => (Effects(q) # {} <=> stage[q] = "unheard")

\* What the caller of a record call knows of it.
Client ==
    [q \in Request |->
        IF ~Arrived(q) THEN "unasked" ELSE IF Active(q) THEN "waiting" ELSE answer[q]]

EffectCounts == [q \in Request |-> Cardinality(Effects(q))]

Unheard == {q \in Request : stage[q] \in {"inFlight", "unheard"}}

Answered ==
    INSTANCE AnsweredCalls WITH
        Call <- Request, client <- Client, effects <- EffectCounts, lost <- Unheard

\* A record call takes effect at most once, and while its caller waits; after an
\* error or a cut only when its COMMIT was then in flight, which Postgres may carry
\* out later; never after "ok" or "not found".  The caller is told what became of it
\* or is cut off with everybody else who waits: each step of the server is a step of
\* that promise or none (the managers, InTx, RunServer, and the rollback of what a
\* dead process had open).
CallsAnswered == Answered!Spec

\* A shutdown reported as clean has left nobody without an answer, although
\* Shutdown does not cancel what runs and only waits for it (RunServer).
CleanMeansAnswered ==
    result = "ok" => \A q \in Clients : ~Active(q)

\* While it serves, the server has subscribed to all identity subjects or to none,
\* whichever subscription fails, and it keeps none beyond its connection
\* (startIdentityEventRuntime, NewConsumer, Consumer.Close).
EventsAllOrNone ==
    /\ phase \in {"serving", "draining"} => subs \in {{}, SubjectSet}
    /\ phase \in {"closingPool", "down"} => subs = {} /\ ~broker

\* A signal ends the process, although executions may outlast the grace and the
\* pool's Close then waits for their connections: it never stays signalled for ever.
StopEnds == []<> ~signalled

\* Everybody is answered or sees the connection cut, however the pool is used up:
\* since each request is made once, nobody stays active for ever.
EveryRequestEnds == []<> \A q \in Clients : ~Active(q)
=============================================================================
