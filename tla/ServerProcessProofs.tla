------------------------ MODULE ServerProcessProofs ------------------------
(***************************************************************************)
(* For any pool, subjects, requests and executions, through any number of  *)
(* shutdowns, kills and restarts: the process runs the managers of         *)
(* RecordManager and nothing else changes their state, requests never wait *)
(* in a circle, answers tell what took effect, a clean shutdown has        *)
(* answered everybody, and the identity events are consumed all or not at  *)
(* all.                                                                    *)
(***************************************************************************)
EXTENDS ServerProcess, RecordManagerProofs, FiniteSetTheorems

-----------------------------------------------------------------------------
(***************************************************************************)
(* The process runs RecordManager.                                         *)
(***************************************************************************)
LEMMA DiesAborts == Dies => \E sent \in MaySend(Open) : Abort(Open, sent)
  BY DEF Dies

\* A step that leaves the records alone leaves each of their variables.
LEMMA QuietRecords ==
    UNCHANGED recordVars =>
        /\ clock' = clock /\ rows' = rows /\ audits' = audits /\ rowLock' = rowLock
        /\ stage' = stage /\ local' = local
  BY DEF recordVars

ProcessStep ==
    \/ Start \/ Signal \/ Migrate \/ ConnectEvents \/ Subscribe
    \/ Drain \/ StopServing \/ CloseEvents

RequestStep(q) ==
    ArriveAt(q) \/ BeginWith(q) \/ Statement(q) \/ CommitWith(q) \/ Fails(q) \/ Settles(q)

ExecutionStep(e) ==
    ExecutionArrives(e) \/ Decided(e) \/ OpensTransaction(e) \/ ExecutionEnds(e)

\* The process's steps leave requests and pool alone, death apart.
LEMMA ProcessKeeps ==
    ASSUME ProcessStep
    PROVE  /\ UNCHANGED recordVars /\ conns' = conns /\ exec' = exec /\ answer' = answer
  BY DEF ProcessStep, Start, Signal, Migrate, ConnectEvents, Subscribe, Drain,
         StopServing, CloseEvents, requestVars

\* An execution's steps leave the records alone.
LEMMA ExecutionKeeps ==
    ASSUME NEW e \in Execution, ExecutionStep(e)
    PROVE  UNCHANGED recordVars /\ answer' = answer /\ Elsewhere
  BY DEF ExecutionStep, ExecutionArrives, Decided, OpensTransaction, ExecutionEnds

\* Each step is a step of the record managers, or none.
LEMMA RecordStep == [Next]_vars => [RecordNext]_recordVars
  <1> SUFFICES ASSUME [Next]_vars
               PROVE  [RecordNext]_recordVars
    OBVIOUS
  <1>1. ASSUME NEW q \in Request, RequestStep(q)
        PROVE  RecordNext
    <2>1. Arrive(q) \/ Begin(q) \/ Write(q) \/ Commit(q) \/ Settle(q)
             \/ (q \in Open /\ \E sent \in MaySend({q}) : Abort({q}, sent))
      BY <1>1 DEF RequestStep, ArriveAt, BeginWith, Statement, CommitWith, Fails, Settles
    <2> QED
      BY <2>1 DEF RecordNext
  <1>2. ASSUME NEW e \in Execution, ExecutionStep(e)
        PROVE  UNCHANGED recordVars
    BY <1>2, ExecutionKeeps
  <1>3. ASSUME NEW q \in Clients, Answer(q)
        PROVE  UNCHANGED recordVars
    BY <1>3 DEF Answer
  <1>4. CASE ProcessStep
    BY <1>4, ProcessKeeps
  <1>5. CASE Exit \/ Kill
    BY <1>5, DiesAborts DEF Exit, Kill, RecordNext
  <1>6. CASE UNCHANGED vars
    BY <1>6 DEF vars
  <1> QED
    BY <1>1, <1>2, <1>3, <1>4, <1>5, <1>6 DEF Next, ProcessStep, RequestStep, ExecutionStep

\* Whatever the process does, its bot and policy calls are those of RecordManager: a
\* kill is a rollback of every open transaction, and the pool, the shutdown and the
\* events change no record (app.go and server.go around the managers).
THEOREM ServesRecords == Spec => RecordSpec
  BY RecordStep, PTL DEF Spec, Init, RecordSpec

\* Through kills, restarts and shutdowns, and whatever Postgres carries out after them,
\* a row is what its newest audit event by created_at says or one that it overlapped.
THEOREM RowIsLastAuditedServed == Spec => []RowIsLastAudited
  BY ServesRecords, RowIsLastAuditedHolds, PTL

\* Through kills, restarts and shutdowns an update is lost to an overlapping one only.
THEOREM LossNeedsOverlapServed == Spec => []LossNeedsOverlap
  BY ServesRecords, LossNeedsOverlapHolds, PTL

\* The records' invariant holds in the server.
LEMMA RecordInvServed == Spec => []Inv
  BY ServesRecords, Invariant, PTL


-----------------------------------------------------------------------------
(***************************************************************************)
(* How the stages move.                                                    *)
(***************************************************************************)
Moves(q, from, to) ==
    /\ stage[q] \in from /\ stage'[q] \in to
    /\ \A p \in Request \ {q} : stage'[p] = stage[p]

\* From where to where each of a request's actions takes it.
LEMMA StageMoves ==
    ASSUME Inv, NEW q \in Request
    PROVE  /\ ArriveAt(q) => Moves(q, {"idle"}, {"refused", "ready"})
           /\ BeginWith(q) => Moves(q, {"ready"}, {"notFound", "refused", "read"})
           /\ Statement(q) => Moves(q, {"read"}, {"written"})
           /\ CommitWith(q) => Moves(q, {"written"}, {"committed"})
           /\ Fails(q) =>
                  \/ Moves(q, {"ready", "read", "written"}, {"rolledBack"})
                  \/ Moves(q, {"written"}, {"inFlight"})
           /\ Settles(q) => Moves(q, {"inFlight"}, {"unheard", "rolledBack"})
  <1>1. stage \in [Request -> Stages]
    BY DEF Inv, Typed, RecordTypeOK, Stages, Begun
  <1>2. ArriveAt(q) => Moves(q, {"idle"}, {"refused", "ready"})
    BY <1>1 DEF ArriveAt, Arrive, End, Moves
  <1>3. ASSUME Begin(q)
        PROVE  Moves(q, {"ready"}, {"notFound", "refused", "read"})
    <2>1. /\ stage[q] = "ready"
          /\ \/ stage' = [stage EXCEPT ![q] = "notFound"]
             \/ stage' = [stage EXCEPT ![q] = "refused"]
             \/ stage' = [stage EXCEPT ![q] = "read"]
      BY <1>3 DEF Begin, End
    <2> QED
      BY <1>1, <2>1 DEF Moves
  <1>4. Statement(q) => Moves(q, {"read"}, {"written"})
    BY <1>1 DEF Statement, Write, Moves
  <1>5. CommitWith(q) => Moves(q, {"written"}, {"committed"})
    BY <1>1 DEF CommitWith, Commit, CarryOut, End, Moves
  <1>6. ASSUME Fails(q)
        PROVE  \/ Moves(q, {"ready", "read", "written"}, {"rolledBack"})
               \/ Moves(q, {"written"}, {"inFlight"})
    <2>1. PICK sent \in MaySend({q}) : Abort({q}, sent)
      BY <1>6 DEF Fails
    <2>2. stage[q] \in {"ready", "read", "written"}
      BY <1>6 DEF Fails, Open, InTransaction
    <2>3. sent = {} \/ (sent = {q} /\ stage[q] = "written")
      BY DEF MaySend
    <2> QED
      BY <2>1, <2>2, <2>3 DEF Abort, Moves
  <1>7. Settles(q) => Moves(q, {"inFlight"}, {"unheard", "rolledBack"})
    BY <1>1 DEF Settles, Settle, CarryOut, Abort, End, Moves
  <1> QED
    BY <1>2, <1>3, <1>4, <1>5, <1>6, <1>7 DEF BeginWith

\* Where the end of the process takes everybody.
LEMMA DeathMoves ==
    ASSUME Inv, Dies
    PROVE  /\ conns' = {}
           /\ audits' = audits
           /\ \A q \in Request :
                  \/ stage'[q] = stage[q]
                     /\ stage[q] \notin InTransaction \cup {"ready"}
                  \/ stage'[q] = "rolledBack" /\ stage[q] \in InTransaction \cup {"ready"}
                  \/ stage'[q] = "inFlight" /\ stage[q] = "written"
           /\ \A e \in Execution :
                  exec'[e] = IF exec[e] \in InExecution THEN "ended" ELSE exec[e]
  <1>1. PICK sent \in MaySend(Open) : Abort(Open, sent)
    BY DiesAborts
  <1>2. /\ sent \subseteq Open /\ \A q \in sent : stage[q] = "written"
        /\ Open = {q \in Request : stage[q] \in InTransaction \cup {"ready"}}
    BY DEF MaySend, Open
  <1>3. audits' = audits
    BY <1>1 DEF Abort
  <1>4. ASSUME NEW q \in Request
        PROVE  stage'[q] = IF q \in sent THEN "inFlight"
                           ELSE IF q \in Open THEN "rolledBack" ELSE stage[q]
    BY <1>1 DEF Abort
  <1> QED
    BY <1>2, <1>3, <1>4 DEF Dies

\* Requests, executions and NoRow are not confused.
LEMMA Apart ==
    /\ \A q \in Request : q \in Clients /\ q \notin Execution
    /\ \A e \in Execution : e \in Clients /\ e \notin Request
    /\ NoRow \notin Clients
  BY ServerAssumption, RecordsAssumption DEF Clients

-----------------------------------------------------------------------------
(***************************************************************************)
(* The pool.                                                               *)
(***************************************************************************)
ExecTyped == exec \in [Execution -> InExecution \cup {"idle", "ended"}]

\* A connection is held by who is in a transaction.
PoolInv ==
    /\ ExecTyped
    /\ conns \subseteq Clients /\ IsFiniteSet(conns) /\ Cardinality(conns) <= PoolSize
    /\ \A q \in conns : IF q \in Request THEN stage[q] \in InTransaction ELSE exec[q] = "open"

\* A connection is taken only while one is free.
LEMMA PoolGrows ==
    ASSUME PoolInv, NEW q \in Clients, ConnectionFree
    PROVE  /\ conns \cup {q} \subseteq Clients /\ IsFiniteSet(conns \cup {q})
           /\ Cardinality(conns \cup {q}) <= PoolSize
  <1>1. Cardinality(conns) \in Nat /\ Cardinality(conns) < PoolSize /\ PoolSize \in Nat
    BY FS_CardinalityType, ServerAssumption DEF PoolInv, ConnectionFree
  <1>2. /\ IsFiniteSet(conns \cup {q})
        /\ Cardinality(conns \cup {q}) = IF q \in conns THEN Cardinality(conns)
                                         ELSE Cardinality(conns) + 1
    BY FS_AddElement DEF PoolInv
  <1>3. Cardinality(conns \cup {q}) <= PoolSize
    BY <1>1, <1>2
  <1> QED
    BY <1>2, <1>3 DEF PoolInv

\* A connection given back leaves fewer.
LEMMA PoolShrinks ==
    ASSUME PoolInv, NEW q
    PROVE  /\ conns \ {q} \subseteq Clients /\ IsFiniteSet(conns \ {q})
           /\ Cardinality(conns \ {q}) <= PoolSize
  <1>1. /\ IsFiniteSet(conns \ {q}) /\ Cardinality(conns \ {q}) <= Cardinality(conns)
        /\ Cardinality(conns) \in Nat /\ Cardinality(conns \ {q}) \in Nat
    BY FS_Subset, FS_CardinalityType DEF PoolInv
  <1> QED
    BY <1>1, ServerAssumption DEF PoolInv

\* A request holds a connection exactly while its transaction is open.
LEMMA PoolRequests ==
    ASSUME Inv, PoolInv, NEW q \in Request,
           RequestStep(q)
    PROVE  PoolInv'
  <1>1. exec' = exec
    BY DEF RequestStep, ArriveAt, BeginWith, Statement, CommitWith, Fails, Settles
  <1>2. CASE ArriveAt(q)
    BY <1>1, <1>2, StageMoves DEF Moves, PoolInv, ExecTyped, ArriveAt, InTransaction
  <1>3. CASE BeginWith(q)
    <2>1. Moves(q, {"ready"}, {"notFound", "refused", "read"}) /\ q \notin conns
      BY <1>3, StageMoves DEF PoolInv, Moves, InTransaction
    <2>2. CASE stage'[q] = "read"
      <3>1. conns' = conns \cup {q} /\ ConnectionFree
        BY <1>3, <2>1, <2>2 DEF BeginWith, HasConnection, NeedsConnection, Moves
      <3> QED
        BY <1>1, <2>1, <2>2, <3>1, PoolGrows, Apart
           DEF PoolInv, ExecTyped, Moves, InTransaction
    <2>3. CASE stage'[q] # "read"
      <3>1. conns' = conns
        BY <1>3, <2>3 DEF BeginWith
      <3> QED
        BY <1>1, <2>1, <3>1 DEF PoolInv, ExecTyped, Moves
    <2> QED
      BY <2>2, <2>3
  <1>4. CASE Statement(q)
    <2>1. Moves(q, {"read"}, {"written"}) /\ conns' = conns
      BY <1>4, StageMoves DEF Statement
    <2> QED
      BY <1>1, <2>1 DEF PoolInv, ExecTyped, Moves, InTransaction
  <1>5. CASE CommitWith(q) \/ Fails(q)
    <2>1. /\ \A p \in Request \ {q} : stage'[p] = stage[p]
          /\ conns' = conns \ {q}
      BY <1>5, StageMoves DEF CommitWith, Fails, Moves
    <2> QED
      BY <1>1, <2>1, PoolShrinks DEF PoolInv, ExecTyped
  <1>6. CASE Settles(q)
    <2>1. Moves(q, {"inFlight"}, {"unheard", "rolledBack"}) /\ conns' = conns
      BY <1>6, StageMoves DEF Settles
    <2> QED
      BY <1>1, <2>1 DEF PoolInv, ExecTyped, Moves, InTransaction
  <1> QED
    BY <1>2, <1>3, <1>4, <1>5, <1>6 DEF RequestStep

\* So does an execution.
LEMMA PoolExecutions ==
    ASSUME PoolInv, NEW e \in Execution, ExecutionStep(e)
    PROVE  PoolInv'
  <1>1. stage' = stage
    BY ExecutionKeeps, QuietRecords
  <1>2. /\ ExecTyped' /\ \A f \in Execution \ {e} : exec'[f] = exec[f]
        /\ exec[e] = "open" => ExecutionEnds(e)
    BY DEF ExecutionStep, ExecutionArrives, Decided, OpensTransaction, ExecutionEnds,
           ExecStep, PoolInv, ExecTyped, InExecution
  <1>3. CASE OpensTransaction(e)
    <2>1. conns' = conns \cup {e} /\ ConnectionFree /\ exec'[e] = "open"
      BY <1>3, Apart DEF OpensTransaction, HasConnection, NeedsConnection, ExecStep,
                         PoolInv, ExecTyped
    <2> QED
      BY <1>1, <1>2, <2>1, PoolGrows, Apart DEF PoolInv, Clients
  <1>4. CASE ExecutionEnds(e)
    <2>1. conns' = conns \ {e}
      BY <1>4 DEF ExecutionEnds
    <2> QED
      BY <1>1, <1>2, <2>1, PoolShrinks DEF PoolInv, Clients
  <1>5. CASE ExecutionArrives(e) \/ Decided(e)
    <2>1. conns' = conns /\ exec[e] # "open"
      BY <1>5 DEF ExecutionArrives, Decided, ExecStep
    <2>2. e \notin conns
      BY <2>1, Apart DEF PoolInv
    <2> QED
      BY <1>1, <1>2, <2>1, <2>2 DEF PoolInv, Clients
  <1> QED
    BY <1>3, <1>4, <1>5 DEF ExecutionStep

\* Each step keeps the pool.
LEMMA PoolStep == Inv /\ PoolInv /\ [Next]_vars => PoolInv'
  <1> SUFFICES ASSUME Inv, PoolInv, [Next]_vars
               PROVE  PoolInv'
    OBVIOUS
  <1>1. ASSUME NEW q \in Clients, Answer(q)
        PROVE  PoolInv'
    BY <1>1, QuietRecords DEF Answer, PoolInv, ExecTyped
  <1>2. CASE ProcessStep
    BY <1>2, ProcessKeeps, QuietRecords DEF PoolInv, ExecTyped
  <1>3. CASE Exit \/ Kill
    <2>1. Dies /\ conns' = {}
      BY <1>3, DeathMoves DEF Exit, Kill
    <2>2. ExecTyped'
      BY <2>1 DEF Dies, PoolInv, ExecTyped
    <2> QED
      BY <2>1, <2>2, FS_EmptySet, ServerAssumption DEF PoolInv
  <1>4. CASE UNCHANGED vars
    BY <1>4 DEF vars, recordVars, PoolInv, ExecTyped
  <1> QED
    BY <1>1, <1>2, <1>3, <1>4, PoolRequests, PoolExecutions
       DEF Next, ProcessStep, RequestStep, ExecutionStep

\* Nobody holds a connection at the start.
LEMMA PoolInit == Init => PoolInv
  BY FS_EmptySet, ServerAssumption DEF Init, PoolInv, ExecTyped

\* Who holds a connection waits for nobody or for a row that another has written,
\* and who has written waits for nobody.
LEMMA NoCircle == Inv /\ PoolInv => NoWaitCircle
  <1> SUFFICES ASSUME Inv, PoolInv,
                      NEW S \in SUBSET Clients, S # {},
                      \A q \in S : BlockedBy(q) # {} /\ BlockedBy(q) \subseteq S
               PROVE  FALSE
    BY DEF NoWaitCircle
  <1>1. ASSUME NEW q \in S, ~NeedsConnection(q)
        PROVE  FALSE
    <2>1. /\ q \in Request /\ stage[q] = "read"
          /\ BlockedBy(q) = {rowLock[local[q].id]} \ {NoRow}
          /\ local[q].call.op = "update"
      BY <1>1 DEF BlockedBy
    <2> DEFINE w == rowLock[local[q].id]
    <2>2. local[q].id \in Records
      BY <2>1, CallShape DEF Inv, Copied, Begun, InTransaction
    <2>3. w # NoRow /\ w \in S
      BY <2>1
    <2>4. w \in Request /\ stage[w] \in {"written", "inFlight"}
      BY <2>2, <2>3 DEF Inv, Typed, LocksHeld, Wrote
    <2>5. BlockedBy(w) = {}
      BY <2>4 DEF BlockedBy, NeedsConnection
    <2> QED
      BY <2>3, <2>5
  <1>2. ASSUME NEW q \in S, NeedsConnection(q)
        PROVE  FALSE
    <2>1. ~(q \in Request /\ stage[q] = "read")
      BY <1>2 DEF NeedsConnection
    <2>2. BlockedBy(q) = IF ~ConnectionFree THEN conns ELSE {}
      BY <1>2, <2>1 DEF BlockedBy
    <2>3. PICK r \in conns : r \in S
      BY <2>2
    <2>4. ~NeedsConnection(r)
      BY <2>3 DEF PoolInv, NeedsConnection, InTransaction
    <2> QED
      BY <1>1, <2>3, <2>4
  <1> QED
    BY <1>1, <1>2

\* The pool, in every execution.
LEMMA PoolServed == Spec => []PoolInv
  <1>1. Init => PoolInv
    BY PoolInit
  <1>2. Inv /\ PoolInv /\ [Next]_vars => PoolInv'
    BY PoolStep
  <1> QED
    BY <1>1, <1>2, RecordInvServed, PTL DEF Spec

\* Whatever the size of the pool and however many executions hold connections during
\* their model calls, requests never wait for each other in a circle.
THEOREM NoWaitCircleHolds == Spec => []NoWaitCircle
  BY RecordInvServed, PoolServed, NoCircle, PTL


-----------------------------------------------------------------------------
(***************************************************************************)
(* What takes effect, and what is said of it.                              *)
(***************************************************************************)
EffectAt(q, id, i) ==
    id \in Records /\ i \in 1 .. Len(audits[id]) /\ audits[id][i].by = q

\* A request whose COMMIT took effect has written one event, every other none.
Once ==
    \A q \in Request :
        /\ stage[q] \in {"committed", "unheard"} <=> \E id, i : EffectAt(q, id, i)
        /\ \A id1, i1, id2, i2 :
               EffectAt(q, id1, i1) /\ EffectAt(q, id2, i2) => id1 = id2 /\ i1 = i2

\* No request has had an effect yet.
LEMMA OnceInit == RecordInit => Once
  <1> SUFFICES ASSUME RecordInit, NEW q \in Request, NEW id \in Records,
                      NEW i \in 1 .. Len(audits[id])
               PROVE  audits[id][i].by # q
    BY DEF Once, EffectAt, RecordInit
  <1>1. CASE rows[id] = NoRow
    <2>1. Len(audits[id]) = 0
      BY <1>1 DEF RecordInit
    <2> QED
      BY <2>1
  <1>2. CASE rows[id] # NoRow
    <2>1. /\ audits[id] = <<Event(NoRow, rows[id], rows[id], 0, 0)>>
          /\ Len(audits[id]) = 1
      BY <1>2 DEF RecordInit
    <2>2. audits[id][i] = Event(NoRow, rows[id], rows[id], 0, 0)
      BY <2>1
    <2> QED
      BY <2>2, RowIsNoNoRow DEF Event
  <1> QED
    BY <1>1, <1>2

\* Without a new event or a COMMIT nothing changes in who had effects.
LEMMA OnceQuiet ==
    ASSUME Once, audits' = audits,
           \A q \in Request : stage'[q] \in {"committed", "unheard"}
                                  <=> stage[q] \in {"committed", "unheard"}
    PROVE  Once'
  BY DEF Once, EffectAt

\* A COMMIT adds the one event of its request.
LEMMA OnceCommit ==
    ASSUME Inv, Once, NEW q \in Request, NEW how \in {"committed", "unheard"},
           stage[q] \in Wrote, CarryOut(q, how)
    PROVE  Once'
  <1> DEFINE id == local[q].id
             n == Len(audits[id])
  <1>0. how \in Ended
    BY DEF Ended
  <1>1. /\ stage[q] \notin {"committed", "unheard"} /\ id \in Records
        /\ \A r \in Records \ {id} : audits'[r] = audits[r]
        /\ audits'[id] = Append(audits[id], EventOf(q))
    BY <1>0, Committed DEF Wrote
  <1>2. /\ \A p \in Request \ {q} : stage'[p] = stage[p]
        /\ stage'[q] = how
    BY <1>0, Ends DEF CarryOut
  <1>3. /\ n \in Nat /\ Len(audits'[id]) = n + 1
        /\ audits'[id][n + 1].by = q
        /\ \A i \in 1 .. n : audits'[id][i] = audits[id][i]
    BY <1>1, AuditedRow DEF EventOf, Event
  <1> HIDE DEF id, n
  <1>4. ASSUME NEW p \in Request, NEW r, NEW i
        PROVE  EffectAt(p, r, i)' <=>
                   EffectAt(p, r, i) \/ (p = q /\ r = id /\ i = n + 1)
    <2>1. CASE r # id
      BY <1>1, <2>1 DEF EffectAt
    <2>2. CASE r = id
      BY <1>1, <1>3, <2>2 DEF EffectAt, n
    <2> QED
      BY <2>1, <2>2
  <1>5. \A r, i : ~EffectAt(q, r, i)
    BY <1>1 DEF Once
  <1>6. ASSUME NEW p \in Request, p # q
        PROVE  /\ stage'[p] \in {"committed", "unheard"} <=> \E r, i : EffectAt(p, r, i)'
               /\ \A id1, i1, id2, i2 :
                      EffectAt(p, id1, i1)' /\ EffectAt(p, id2, i2)'
                          => id1 = id2 /\ i1 = i2
    <2>1. \A r, i : EffectAt(p, r, i)' <=> EffectAt(p, r, i)
      BY <1>4, <1>6
    <2>2. stage'[p] = stage[p]
      BY <1>2, <1>6
    <2> QED
      BY <2>1, <2>2 DEF Once
  <1>7. /\ stage'[q] \in {"committed", "unheard"} <=> \E r, i : EffectAt(q, r, i)'
        /\ \A id1, i1, id2, i2 :
               EffectAt(q, id1, i1)' /\ EffectAt(q, id2, i2)' => id1 = id2 /\ i1 = i2
    <2>1. \A r, i : EffectAt(q, r, i)' <=> r = id /\ i = n + 1
      BY <1>4, <1>5
    <2> QED
      BY <1>2, <2>1
  <1> QED
    BY <1>6, <1>7 DEF Once

\* Each step keeps effects single.
LEMMA OnceStep == Inv /\ Once /\ [Next]_vars => Once'
  <1> SUFFICES ASSUME Inv, Once, [Next]_vars
               PROVE  Once'
    OBVIOUS
  <1>1. ASSUME NEW q \in Request, ArriveAt(q) \/ BeginWith(q) \/ Statement(q) \/ Fails(q)
        PROVE  Once'
    <2>1. audits' = audits
      BY <1>1 DEF ArriveAt, Arrive, BeginWith, Begin, Statement, Write, Fails, Abort
    <2>2. /\ stage[q] \notin {"committed", "unheard"} /\ stage'[q] \notin {"committed", "unheard"}
          /\ \A p \in Request \ {q} : stage'[p] = stage[p]
      BY <1>1, StageMoves DEF Moves
    <2> QED
      BY <2>1, <2>2, OnceQuiet
  <1>2. ASSUME NEW q \in Request, CommitWith(q) \/ Settles(q)
        PROVE  Once'
    <2>1. CASE CommitWith(q)
      BY <2>1, OnceCommit DEF CommitWith, Commit, Wrote
    <2>2. CASE Settles(q) /\ CarryOut(q, "unheard")
      BY <2>2, OnceCommit DEF Settles, Settle, Wrote
    <2>3. CASE Settles(q) /\ Abort({q}, {})
      <3>1. /\ audits' = audits /\ stage[q] = "inFlight" /\ stage'[q] = "rolledBack"
            /\ \A p \in Request \ {q} : stage'[p] = stage[p]
        BY <2>3 DEF Settles, Settle, Abort
      <3> QED
        BY <3>1, OnceQuiet
    <2> QED
      BY <1>2, <2>1, <2>2, <2>3 DEF Settles, Settle
  <1>3. ASSUME NEW e \in Execution, ExecutionStep(e)
        PROVE  Once'
    BY <1>3, ExecutionKeeps, QuietRecords, OnceQuiet
  <1>4. ASSUME NEW q \in Clients, Answer(q)
        PROVE  Once'
    BY <1>4, QuietRecords, OnceQuiet DEF Answer
  <1>5. CASE ProcessStep
    BY <1>5, ProcessKeeps, QuietRecords, OnceQuiet
  <1>6. CASE Exit \/ Kill
    <2>1. /\ audits' = audits
          /\ \A q \in Request :
                 stage'[q] \in {"committed", "unheard"}
                     <=> stage[q] \in {"committed", "unheard"}
      BY <1>6, DeathMoves DEF Exit, Kill, InTransaction
    <2> QED
      BY <2>1, OnceQuiet
  <1>7. CASE UNCHANGED vars
    BY <1>7, OnceQuiet DEF vars, recordVars
  <1> QED
    BY <1>1, <1>2, <1>3, <1>4, <1>5, <1>6, <1>7 DEF Next, ProcessStep, RequestStep, ExecutionStep

\* What is said tells how the request ended; who has ended stays so.
Said ==
    /\ answer \in [Clients -> {"none", "ok", "notFound", "error", "answered", "cut"}]
    /\ \A q \in Request :
           /\ answer[q] # "none" => stage[q] \in Ended \cup {"inFlight"}
           /\ answer[q] = "ok" => stage[q] = "committed"
           /\ answer[q] = "notFound" => stage[q] = "notFound"
           /\ answer[q] = "error" =>
                  stage[q] \in {"refused", "rolledBack", "inFlight", "unheard"}

\* Who is not answered now was told nothing new.
LEMMA SaidQuiet ==
    ASSUME Said, answer' = answer,
           \A q \in Request :
               /\ stage[q] \in Ended => stage'[q] = stage[q]
               /\ stage[q] = "inFlight" => stage'[q] \in {"inFlight", "unheard", "rolledBack"}
    PROVE  Said'
  BY DEF Said, Ended

\* What was told stays true, since a request that has ended stays as it is.
LEMMA SaidStep == Inv /\ Said /\ [Next]_vars => Said'
  <1> SUFFICES ASSUME Inv, Said, [Next]_vars
               PROVE  Said'
    OBVIOUS
  <1>1. ASSUME NEW q \in Request, RequestStep(q)
        PROVE  Said'
    <2>1. answer' = answer
      BY <1>1 DEF RequestStep, ArriveAt, BeginWith, Statement, CommitWith, Fails, Settles
    <2>2. /\ stage[q] \notin Ended /\ \A p \in Request \ {q} : stage'[p] = stage[p]
          /\ stage[q] = "inFlight" => stage'[q] \in {"unheard", "rolledBack"}
      BY <1>1, StageMoves DEF RequestStep, Moves, Ended
    <2> QED
      BY <2>1, <2>2, SaidQuiet
  <1>2. ASSUME NEW e \in Execution, ExecutionStep(e)
        PROVE  Said'
    BY <1>2, ExecutionKeeps, QuietRecords, SaidQuiet
  <1>3. ASSUME NEW q \in Clients, Answer(q)
        PROVE  Said'
    <2>1. stage' = stage /\ answer' = [answer EXCEPT ![q] = Told(q)] /\ HasEnded(q)
      BY <1>3, QuietRecords DEF Answer
    <2>2. CASE q \in Execution
      <3>1. Told(q) = "answered"
        BY <2>2 DEF Told
      <3> QED
        BY <2>1, <2>2, <3>1, Apart DEF Said
    <2>3. CASE q \in Request
      <3>1. /\ stage[q] \in Ended \cup {"inFlight"} /\ Told(q) \in {"ok", "notFound", "error"}
            /\ Told(q) = "ok" => stage[q] = "committed"
            /\ Told(q) = "notFound" => stage[q] = "notFound"
            /\ Told(q) = "error" =>
                   stage[q] \in {"refused", "rolledBack", "inFlight", "unheard"}
        BY <2>1, <2>3, Apart DEF HasEnded, Told, Ended
      <3> QED
        BY <2>1, <2>3, <3>1 DEF Said
    <2> QED
      BY <2>2, <2>3 DEF Clients
  <1>4. CASE ProcessStep
    BY <1>4, ProcessKeeps, QuietRecords, SaidQuiet
  <1>5. CASE Exit \/ Kill
    <2>1. /\ answer' = [q \in Clients |-> IF Active(q) THEN "cut" ELSE answer[q]]
          /\ \A q \in Request :
                 \/ stage'[q] = stage[q] /\ stage[q] \notin InTransaction \cup {"ready"}
                 \/ /\ stage'[q] \in {"rolledBack", "inFlight"}
                    /\ stage[q] \in InTransaction \cup {"ready"}
      BY <1>5, DeathMoves DEF Exit, Kill, Dies, InTransaction
    <2>2. ASSUME NEW q \in Request
          PROVE  /\ answer'[q] # "none" => stage'[q] \in Ended \cup {"inFlight"}
                 /\ answer'[q] = answer[q] \/ answer'[q] = "cut"
                 /\ stage[q] \in Ended \cup {"inFlight"} => stage'[q] = stage[q]
      <3>1. stage[q] \in Stages
        BY DEF Inv, Typed, RecordTypeOK, Stages, Begun
      <3>2. answer'[q] = IF Active(q) THEN "cut" ELSE answer[q]
        BY <2>1, Apart
      <3> QED
        BY <2>1, <3>1, <3>2, Apart
           DEF Active, Arrived, Said, Stages, Begun, Ended, InTransaction
    <2>3. answer' \in [Clients -> {"none", "ok", "notFound", "error", "answered", "cut"}]
      BY <2>1 DEF Said
    <2> QED
      BY <2>2, <2>3 DEF Said
  <1>6. CASE UNCHANGED vars
    BY <1>6, SaidQuiet DEF vars, recordVars
  <1> QED
    BY <1>1, <1>2, <1>3, <1>4, <1>5, <1>6 DEF Next, ProcessStep, RequestStep, ExecutionStep

\* A request has an effect exactly when its COMMIT took effect, and then one.
LEMMA OnceEffects ==
    ASSUME Inv, Once, NEW q \in Request
    PROVE  /\ Cardinality(Effects(q)) =
                  IF stage[q] \in {"committed", "unheard"} THEN 1 ELSE 0
           /\ Effects(q) # {} <=> stage[q] \in {"committed", "unheard"}
  <1>1. ASSUME NEW e
        PROVE  e \in Effects(q) <=> \E id, i : e = <<id, i>> /\ EffectAt(q, id, i)
    BY AuditedRow DEF Effects, EffectAt
  <1>2. CASE \E id, i : EffectAt(q, id, i)
    <2>1. PICK id, i : EffectAt(q, id, i)
      BY <1>2
    <2>2. Effects(q) = {<<id, i>>}
      BY <1>1, <2>1 DEF Once
    <2>3. Cardinality(Effects(q)) = 1
      BY <2>2, FS_Singleton
    <2>4. stage[q] \in {"committed", "unheard"}
      BY <1>2 DEF Once
    <2> QED
      BY <2>2, <2>3, <2>4
  <1>3. CASE ~\E id, i : EffectAt(q, id, i)
    <2>1. Effects(q) = {}
      BY <1>1, <1>3
    <2>2. Cardinality(Effects(q)) = 0
      BY <2>1, FS_EmptySet
    <2>3. stage[q] \notin {"committed", "unheard"}
      BY <1>3 DEF Once
    <2> QED
      BY <2>1, <2>2, <2>3
  <1> QED
    BY <1>2, <1>3

\* Single effects and true answers give the property.
LEMMA AnswersInv == Inv /\ Once /\ Said => AnswersTruthful
  <1> SUFFICES ASSUME Inv, Once, Said, NEW q \in Request
               PROVE  /\ Cardinality(Effects(q)) <= 1
                      /\ answer[q] = "ok" => Effects(q) # {}
                      /\ answer[q] = "notFound" => Effects(q) = {}
                      /\ answer[q] = "error" => (Effects(q) # {} <=> stage[q] = "unheard")
    BY DEF AnswersTruthful
  <1> QED
    BY OnceEffects DEF Said

\* Both, in every execution.
LEMMA AnswersServed == Spec => [](Once /\ Said)
  <1>1. Init => Once /\ Said
    BY OnceInit DEF Init, Said, Clients
  <1>2. Inv /\ (Once /\ Said) /\ [Next]_vars => (Once /\ Said)'
    BY OnceStep, SaidStep
  <1> QED
    BY <1>1, <1>2, RecordInvServed, PTL DEF Spec

\* For any requests, and through kills, restarts and shutdowns: a call takes effect
\* once or not at all, and its answer tells which unless the answer of its COMMIT
\* was lost.
THEOREM AnswersTruthfulHolds == Spec => []AnswersTruthful
  BY RecordInvServed, AnswersServed, AnswersInv, PTL


-----------------------------------------------------------------------------
(***************************************************************************)
(* The server answers its calls.                                           *)
(***************************************************************************)
TookEffect == {"committed", "unheard"}

\* What the mapping shows of a request follows from its stage and its answer.
Shows ==
    /\ Client = [q \in Request |-> IF stage[q] = "idle" THEN "unasked"
                                  ELSE IF answer[q] = "none" THEN "waiting" ELSE answer[q]]
    /\ EffectCounts = [q \in Request |-> IF stage[q] \in TookEffect THEN 1 ELSE 0]
    /\ Unheard = {q \in Request : stage[q] \in {"inFlight", "unheard"}}

\* By the definitions, and since a request has one effect when its COMMIT took effect.
LEMMA Shown == Inv /\ Once => Shows
  <1>1. ASSUME Inv, Once, NEW q \in Request
        PROVE  Cardinality(Effects(q)) = IF stage[q] \in TookEffect THEN 1 ELSE 0
    BY <1>1, OnceEffects DEF TookEffect
  <1>2. Client = [q \in Request |-> IF stage[q] = "idle" THEN "unasked"
                                   ELSE IF answer[q] = "none" THEN "waiting"
                                   ELSE answer[q]]
    BY DEF Client, Active, Arrived
  <1> QED
    BY <1>1, <1>2 DEF Shows, EffectCounts, Unheard

\* A step that neither changes an answer nor takes effect nor arrives shows nothing.
LEMMA ShowsNothing ==
    ASSUME Inv, Once, Inv', Once',
           \A q \in Request :
               /\ answer'[q] = answer[q]
               /\ \/ stage'[q] = stage[q]
                  \/ {stage[q], stage'[q]} \cap (TookEffect \cup {"idle", "inFlight"}) = {}
    PROVE  Client' = Client /\ EffectCounts' = EffectCounts /\ Unheard' = Unheard
  <1>1. ASSUME NEW q \in Request
        PROVE  /\ stage'[q] = "idle" <=> stage[q] = "idle"
               /\ stage'[q] \in TookEffect <=> stage[q] \in TookEffect
               /\ stage'[q] \in {"inFlight", "unheard"}
                      <=> stage[q] \in {"inFlight", "unheard"}
               /\ answer'[q] = answer[q]
    BY DEF TookEffect
  <1>2. Shows /\ Shows'
    BY Shown, PTL
  <1> QED
    BY <1>1, <1>2 DEF Shows

\* An arrival is an Ask, a COMMIT takes effect, an answer tells, the end of the process
\* cuts off; the rest shows nothing.
LEMMA AnsweringStep ==
    Inv /\ Inv' /\ Once /\ Once' /\ Said /\ [Next]_vars =>
        [Answered!Next]_(Answered!vars)
  <1> SUFFICES ASSUME Inv, Inv', Once, Once', Said, [Next]_vars
               PROVE  Answered!Next \/ UNCHANGED Answered!vars
    BY DEF Answered!vars
  <1>1. Shows
    BY Shown
  <1>2. Shows'
    BY Shown, PTL
  <1>3. ASSUME NEW q \in Request, ArriveAt(q)
        PROVE  Answered!Ask(q)
    <2>1. Moves(q, {"idle"}, {"refused", "ready"}) /\ answer' = answer
      BY <1>3, StageMoves DEF ArriveAt
    <2>2. answer[q] = "none"
      BY <2>1 DEF Said, Moves, Ended
    <2>3. Client[q] = "unasked" /\ Client' = [Client EXCEPT ![q] = "waiting"]
      BY <1>1, <1>2, <2>1, <2>2 DEF Shows, Moves
    <2>4. EffectCounts' = EffectCounts /\ Unheard' = Unheard
      BY <1>1, <1>2, <2>1 DEF Shows, Moves, TookEffect
    <2> QED
      BY <2>3, <2>4 DEF Answered!Ask
  <1>4. ASSUME NEW q \in Request,
               BeginWith(q) \/ Statement(q) \/ (Fails(q) /\ stage'[q] # "inFlight")
        PROVE  UNCHANGED Answered!vars
    <2>1. /\ answer' = answer
          /\ \A p \in Request \ {q} : stage'[p] = stage[p]
          /\ {stage[q], stage'[q]} \cap (TookEffect \cup {"idle", "inFlight"}) = {}
      BY <1>4, StageMoves DEF Moves, BeginWith, Statement, Fails, TookEffect
    <2> QED
      BY <2>1, ShowsNothing DEF Answered!vars
  <1>12. ASSUME NEW q \in Request, Fails(q) /\ stage'[q] = "inFlight"
         PROVE  Answered!LoseTrack(q)
    <2>1. Moves(q, {"written"}, {"inFlight"}) /\ answer' = answer
      BY <1>12, StageMoves DEF Fails, Moves
    <2>2. answer[q] = "none"
      BY <2>1 DEF Said, Moves, Ended
    <2>3. Client[q] = "waiting" /\ Client' = Client
      BY <1>1, <1>2, <2>1, <2>2 DEF Shows, Moves
    <2>4. EffectCounts[q] = 0 /\ EffectCounts' = EffectCounts
      BY <1>1, <1>2, <2>1 DEF Shows, Moves, TookEffect
    <2>5. Unheard' = Unheard \cup {q}
      BY <1>1, <1>2, <2>1 DEF Shows, Moves
    <2> QED
      BY <2>3, <2>4, <2>5 DEF Answered!LoseTrack, Answered!Undecided
  <1>13. ASSUME NEW q \in Request, Settles(q)
         PROVE  Answered!Settle(q)
    <2>1. Moves(q, {"inFlight"}, {"unheard", "rolledBack"}) /\ answer' = answer
      BY <1>13, StageMoves DEF Settles
    <2>2. Client' = Client
      BY <1>1, <1>2, <2>1 DEF Shows, Moves
    <2>3. q \in Unheard /\ EffectCounts[q] = 0
      BY <1>1, <2>1 DEF Shows, Moves, TookEffect
    <2>4. CASE stage'[q] = "unheard"
      <3>1. EffectCounts' = [EffectCounts EXCEPT ![q] = 1] /\ Unheard' = Unheard
        BY <1>1, <1>2, <2>1, <2>4 DEF Shows, Moves, TookEffect
      <3> QED
        BY <2>2, <2>3, <3>1 DEF Answered!Settle
    <2>5. CASE stage'[q] = "rolledBack"
      <3>1. EffectCounts' = EffectCounts /\ Unheard' = Unheard \ {q}
        BY <1>1, <1>2, <2>1, <2>5 DEF Shows, Moves, TookEffect
      <3> QED
        BY <2>2, <2>3, <3>1 DEF Answered!Settle
    <2> QED
      BY <2>1, <2>4, <2>5 DEF Moves
  <1>5. ASSUME NEW q \in Request, CommitWith(q)
        PROVE  Answered!TakeEffect(q)
    <2>1. Moves(q, {"written"}, {"committed"}) /\ answer' = answer
      BY <1>5, StageMoves DEF CommitWith
    <2>2. answer[q] = "none"
      BY <2>1 DEF Said, Moves, Ended
    <2>3. Client[q] = "waiting" /\ Client' = Client
      BY <1>1, <1>2, <2>1, <2>2 DEF Shows, Moves, TookEffect
    <2>4. EffectCounts[q] = 0 /\ EffectCounts' = [EffectCounts EXCEPT ![q] = 1]
      BY <1>1, <1>2, <2>1 DEF Shows, Moves, TookEffect
    <2>5. q \notin Unheard /\ Unheard' = Unheard
      BY <1>1, <1>2, <2>1 DEF Shows, Moves
    <2> QED
      BY <2>3, <2>4, <2>5 DEF Answered!TakeEffect
  <1>6. ASSUME NEW e \in Execution, ExecutionStep(e)
        PROVE  UNCHANGED Answered!vars
    BY <1>6, ExecutionKeeps, QuietRecords, ShowsNothing DEF Answered!vars
  <1>7. ASSUME NEW q \in Request, Answer(q)
        PROVE  Answered!Tell(q)
    <2>1. /\ stage' = stage /\ answer[q] = "none"
          /\ stage[q] \in Ended \cup {"inFlight"}
          /\ answer' = [answer EXCEPT ![q] = Told(q)]
      BY <1>7, QuietRecords, Apart DEF Answer, HasEnded
    <2>2. /\ Told(q) # "none"
          /\ answer'[q] = Told(q) /\ \A p \in Request \ {q} : answer'[p] = answer[p]
      BY <2>1, Apart DEF Told, Said
    <2>3. Client[q] = "waiting" /\ Client' = [Client EXCEPT ![q] = Told(q)]
      BY <1>1, <1>2, <2>1, <2>2 DEF Shows, Ended
    <2>4. EffectCounts' = EffectCounts /\ Unheard' = Unheard
      BY <1>1, <1>2, <2>1 DEF Shows
    <2>5. Told(q) \in Answered!Truth(q)
      BY <1>1, <2>1, Apart DEF Shows, Answered!Truth, Told, TookEffect, Ended
    <2> QED
      BY <2>3, <2>4, <2>5 DEF Answered!Tell
  <1>8. ASSUME NEW e \in Execution, Answer(e)
        PROVE  UNCHANGED Answered!vars
    <2>1. stage' = stage /\ \A q \in Request : answer'[q] = answer[q]
      BY <1>8, QuietRecords, Apart DEF Answer, Said
    <2> QED
      BY <2>1, ShowsNothing DEF Answered!vars
  <1>9. CASE ProcessStep
    BY <1>9, ProcessKeeps, QuietRecords, ShowsNothing DEF Answered!vars
  <1>10. CASE Exit \/ Kill
    <2> DEFINE sent == {q \in Request : stage[q] = "written" /\ stage'[q] = "inFlight"}
    <2>1. /\ answer' = [q \in Clients |-> IF Active(q) THEN "cut" ELSE answer[q]]
          /\ \A q \in Request :
                 \/ stage'[q] = stage[q]
                    /\ stage[q] \notin InTransaction \cup {"ready"}
                 \/ stage'[q] = "rolledBack" /\ stage[q] \in InTransaction \cup {"ready"}
                 \/ stage'[q] = "inFlight" /\ stage[q] = "written"
      BY <1>10, DeathMoves DEF Exit, Kill, Dies
    <2>2. ASSUME NEW q \in Request
          PROVE  /\ Client'[q] = IF Client[q] = "waiting" THEN "cut" ELSE Client[q]
                 /\ stage'[q] \in TookEffect <=> stage[q] \in TookEffect
                 /\ stage'[q] \in {"inFlight", "unheard"} <=>
                        stage[q] \in {"inFlight", "unheard"} \/ q \in sent
      <3>1. answer'[q] = IF stage[q] # "idle" /\ answer[q] = "none" THEN "cut" ELSE answer[q]
        BY <2>1, Apart DEF Active, Arrived
      <3>2. answer[q] # "waiting"
        BY Apart DEF Said
      <3>3. stage'[q] = "idle" <=> stage[q] = "idle"
        BY <2>1 DEF InTransaction
      <3>4. Client'[q] = IF Client[q] = "waiting" THEN "cut" ELSE Client[q]
        BY <1>1, <1>2, <3>1, <3>2, <3>3 DEF Shows
      <3> QED
        BY <2>1, <3>4 DEF InTransaction, TookEffect
    <2>3. Client' = [q \in Request |-> IF Client[q] = "waiting" THEN "cut" ELSE Client[q]]
      BY <1>1, <1>2, <2>2 DEF Shows
    <2>4. EffectCounts' = EffectCounts
      BY <1>1, <1>2, <2>2 DEF Shows
    <2>5. Unheard' = Unheard \cup sent
      BY <1>1, <1>2, <2>2 DEF Shows
    <2>6. sent \subseteq Answered!Undecided
      BY <1>1 DEF Shows, Answered!Undecided, Said, Ended, TookEffect
    <2> QED
      BY <2>3, <2>4, <2>5, <2>6 DEF Answered!CutOff, Answered!Next
  <1>11. CASE UNCHANGED vars
    BY <1>11, ShowsNothing DEF vars, recordVars, Answered!vars
  <1> QED
    BY <1>3, <1>4, <1>5, <1>6, <1>7, <1>8, <1>9, <1>10, <1>11, <1>12, <1>13
       DEF Next, ProcessStep, RequestStep, ExecutionStep, Answered!Next, Clients

\* For any calls and executions, and through kills, restarts and shutdowns: a call
\* takes effect at most once, while its caller waits or, when its COMMIT was in flight
\* at the error or the cut, whenever Postgres carries it out; and the caller is told
\* what became of it, or an error, or is cut off (the managers, InTx, RunServer).
THEOREM ServerAnswersCalls == Spec => CallsAnswered
  <1>1. Init => Answered!Init
    <2> SUFFICES ASSUME Init
                 PROVE  Answered!Init
      OBVIOUS
    <2>1. ASSUME NEW q \in Request
          PROVE  stage[q] = "idle"
      BY DEF Init, RecordInit
    <2>2. ASSUME NEW q \in Request
          PROVE  Cardinality(Effects(q)) = 0
      BY <2>1, OnceInit, InitInv, OnceEffects DEF Init
    <2> QED
      BY <2>1, <2>2 DEF Answered!Init, Client, EffectCounts, Unheard, Arrived
  <1> QED
    BY <1>1, AnsweringStep, RecordInvServed, AnswersServed, PTL
       DEF Spec, CallsAnswered, Answered!Spec


-----------------------------------------------------------------------------
(***************************************************************************)
(* Shutdown.                                                               *)
(***************************************************************************)
CleanInv ==
    /\ result = "ok" => phase \in {"closingEvents", "closingPool"}
    /\ CleanMeansAnswered

\* Only an arrival, while the server serves, makes a client active.
LEMMA ActiveKept ==
    ASSUME Inv, PoolInv, Said, [Next]_vars, phase # "serving", NEW q \in Clients, ~Active(q)
    PROVE  ~Active(q)'
  <1>1. q \in Request \/ (q \in Execution /\ q \notin Request)
    BY Apart DEF Clients
  <1>2. ASSUME NEW p \in Request, RequestStep(p)
        PROVE  ~Active(q)'
    <2>1. answer' = answer /\ exec' = exec /\ ~ArriveAt(p)
      BY <1>2 DEF RequestStep, ArriveAt, BeginWith, Statement, CommitWith, Fails, Settles
    <2>2. stage[p] # "idle" /\ \A r \in Request \ {p} : stage'[r] = stage[r]
      BY <1>2, <2>1, StageMoves DEF RequestStep, Moves
    <2> QED
      BY <1>1, <2>1, <2>2 DEF Active, Arrived
  <1>3. ASSUME NEW e \in Execution, ExecutionStep(e)
        PROVE  ~Active(q)'
    <2>1. answer' = answer /\ stage' = stage
      BY <1>3, ExecutionKeeps, QuietRecords
    <2>2. exec[e] # "idle" /\ \A f \in Execution \ {e} : exec'[f] = exec[f]
      BY <1>3 DEF ExecutionStep, ExecutionArrives, Decided, OpensTransaction,
                  ExecutionEnds, ExecStep, PoolInv, ExecTyped, InExecution
    <2> QED
      BY <1>1, <2>1, <2>2 DEF Active, Arrived
  <1>4. ASSUME NEW p \in Clients, Answer(p)
        PROVE  ~Active(q)'
    <2>1. stage' = stage /\ exec' = exec /\ answer' = [answer EXCEPT ![p] = Told(p)]
      BY <1>4, QuietRecords DEF Answer
    <2>2. answer'[q] = answer[q] \/ (p = q /\ answer'[q] = Told(q))
      BY <2>1 DEF Said
    <2>3. Told(q) # "none"
      BY DEF Told
    <2> QED
      BY <1>1, <2>1, <2>2, <2>3 DEF Active, Arrived
  <1>5. CASE ProcessStep
    BY <1>5, ProcessKeeps, QuietRecords DEF Active, Arrived
  <1>6. CASE Exit \/ Kill
    <2>1. answer' = [p \in Clients |-> IF Active(p) THEN "cut" ELSE answer[p]] /\ Dies
      BY <1>6 DEF Exit, Kill, Dies
    <2>2. answer'[q] = answer[q]
      BY <2>1
    <2>3. Arrived(q)' => Arrived(q)
      BY <1>1, <2>1, DeathMoves DEF Arrived, InTransaction, InExecution
    <2> QED
      BY <2>2, <2>3 DEF Active
  <1>7. CASE UNCHANGED vars
    BY <1>7 DEF vars, recordVars, Active, Arrived
  <1> QED
    BY <1>2, <1>3, <1>4, <1>5, <1>6, <1>7 DEF Next, ProcessStep, RequestStep, ExecutionStep

\* Nobody becomes active after a clean end of the draining.
LEMMA CleanStep == Inv /\ PoolInv /\ Said /\ CleanInv /\ [Next]_vars => CleanInv'
  <1> SUFFICES ASSUME Inv, PoolInv, Said, CleanInv, [Next]_vars
               PROVE  CleanInv'
    OBVIOUS
  <1>1. CASE result' # "ok"
    BY <1>1 DEF CleanInv, CleanMeansAnswered
  <1>2. CASE result' = "ok" /\ result = "ok"
    <2>1. phase \in {"closingEvents", "closingPool"} /\ \A q \in Clients : ~Active(q)
      BY <1>2 DEF CleanInv, CleanMeansAnswered
    <2>2. phase' \in {"closingEvents", "closingPool"}
      BY <1>2, <2>1
         DEF Next, ArriveAt, BeginWith, Statement, CommitWith, Fails, Settles, ExecutionArrives,
             Decided, OpensTransaction, ExecutionEnds, Answer, Elsewhere, processVars,
             Start, Signal, Migrate, ConnectEvents, Subscribe, Drain, StopServing,
             CloseEvents, Exit, Kill, Dies, vars
    <2> QED
      BY <2>1, <2>2, ActiveKept DEF CleanInv, CleanMeansAnswered
  <1>3. CASE result' = "ok" /\ result # "ok"
    <2>1. StopServing /\ phase = "draining" /\ ~\E q \in Clients : Active(q)
      BY <1>3
         DEF Next, ArriveAt, BeginWith, Statement, CommitWith, Fails, Settles, ExecutionArrives,
             Decided, OpensTransaction, ExecutionEnds, Answer, Elsewhere, processVars,
             Start, Signal, Migrate, ConnectEvents, Subscribe, Drain, StopServing,
             CloseEvents, Exit, Kill, Dies, vars
    <2>2. phase' = "closingEvents"
      BY <2>1 DEF StopServing
    <2> QED
      BY <2>1, <2>2, ActiveKept DEF CleanInv, CleanMeansAnswered
  <1> QED
    BY <1>1, <1>2, <1>3

\* The clean end, in every execution.
LEMMA CleanServed == Spec => []CleanInv
  <1>1. Init => CleanInv
    BY DEF Init, CleanInv, CleanMeansAnswered
  <1>2. Inv /\ PoolInv /\ (Once /\ Said) /\ CleanInv /\ [Next]_vars => CleanInv'
    BY CleanStep
  <1> QED
    BY <1>1, <1>2, RecordInvServed, PoolServed, AnswersServed, PTL DEF Spec

\* For any clients: when RunServer is about to return without an error, nobody who
\* arrived is without an answer.
THEOREM CleanMeansAnsweredHolds == Spec => []CleanMeansAnswered
  BY CleanServed, PTL DEF CleanInv


-----------------------------------------------------------------------------
(***************************************************************************)
(* The identity events.                                                    *)
(***************************************************************************)
First(k) == {Subjects[i] : i \in 1 .. k}

EventsInv ==
    /\ phase \in Phases /\ result \in {"none", "ok", "error"} /\ starts \in 0 .. MaxStarts
    /\ phase \in {"down", "migrating", "connecting", "closingPool"} => subs = {} /\ ~broker
    /\ phase = "subscribing" =>
           \E k \in 0 .. Len(Subjects) :
               subs = First(k) /\ IsFiniteSet(subs) /\ Cardinality(subs) = k
    /\ phase \in {"serving", "draining"} => subs \in {{}, SubjectSet}
    /\ phase = "closingEvents" => subs \subseteq SubjectSet

\* No subject at first, all of them at last.
LEMMA AllSubjects ==
    /\ Len(Subjects) \in Nat /\ First(Len(Subjects)) = SubjectSet
    /\ First(0) = {} /\ IsFiniteSet(First(0)) /\ Cardinality(First(0)) = 0
  <1>1. First(0) = {}
    BY DEF First
  <1>2. IsFiniteSet(First(0)) /\ Cardinality(First(0)) = 0
    BY <1>1, FS_EmptySet
  <1>3. Len(Subjects) \in Nat /\ DOMAIN Subjects = 1 .. Len(Subjects)
    BY ServerAssumption
  <1>4. First(Len(Subjects)) = SubjectSet
    BY <1>3 DEF First, SubjectSet
  <1> QED
    BY <1>1, <1>2, <1>3, <1>4

\* One subscription more.
LEMMA NextSubject ==
    ASSUME NEW k \in 0 .. Len(Subjects), k < Len(Subjects),
           IsFiniteSet(First(k)), Cardinality(First(k)) = k
    PROVE  /\ First(k) \cup {Subjects[k + 1]} = First(k + 1)
           /\ IsFiniteSet(First(k + 1)) /\ Cardinality(First(k + 1)) = k + 1
           /\ k + 1 \in 0 .. Len(Subjects)
  <1>1. /\ Len(Subjects) \in Nat /\ DOMAIN Subjects = 1 .. Len(Subjects)
        /\ \A i, j \in DOMAIN Subjects : Subjects[i] = Subjects[j] => i = j
    BY ServerAssumption
  <1>2. First(k) \cup {Subjects[k + 1]} = First(k + 1)
    <2>1. \A i : i \in 1 .. k + 1 <=> i \in 1 .. k \/ i = k + 1
      OBVIOUS
    <2> QED
      BY <2>1 DEF First
  <1>3. Subjects[k + 1] \notin First(k)
    BY <1>1 DEF First
  <1> QED
    BY <1>1, <1>2, <1>3, FS_AddElement

\* Each step keeps the subscriptions whole or in progress.
LEMMA EventsStep == EventsInv /\ [Next]_vars => EventsInv'
  <1> SUFFICES ASSUME EventsInv, [Next]_vars
               PROVE  EventsInv'
    OBVIOUS
  <1>1. CASE UNCHANGED <<processVars, eventVars>>
    BY <1>1 DEF processVars, eventVars, EventsInv, First, SubjectSet
  <1>2. CASE Subscribe
    <2>1. PICK k \in 0 .. Len(Subjects) :
             subs = First(k) /\ IsFiniteSet(subs) /\ Cardinality(subs) = k
      BY <1>2 DEF Subscribe, EventsInv
    <2>2. /\ phase = "subscribing"
          /\ UNCHANGED <<signalled, starts, result>>
      BY <1>2 DEF Subscribe
    <2>3. CASE /\ k < Len(Subjects) /\ subs' = subs \cup {Subjects[k + 1]}
               /\ phase' = phase
      <3>1. subs' = First(k + 1) /\ IsFiniteSet(subs') /\ Cardinality(subs') = k + 1
            /\ k + 1 \in 0 .. Len(Subjects)
        BY <2>1, <2>3, NextSubject
      <3>2. \E m \in 0 .. Len(Subjects) :
               subs' = First(m) /\ IsFiniteSet(subs') /\ Cardinality(subs') = m
        BY <3>1
      <3>3. /\ phase' = "subscribing"
            /\ result' \in {"none", "ok", "error"} /\ starts' \in 0 .. MaxStarts
        BY <2>2, <2>3 DEF EventsInv
      <3> QED
        BY <3>2, <3>3 DEF EventsInv, Phases
    <2>4. CASE phase' = "serving" /\ subs' = {}
      BY <2>2, <2>4 DEF EventsInv, Phases, SubjectSet
    <2>5. CASE k = Len(Subjects) /\ phase' = "serving" /\ subs' = subs
      <3>1. subs' = SubjectSet
        BY <2>1, <2>5, AllSubjects
      <3> QED
        BY <2>2, <2>5, <3>1 DEF EventsInv, Phases, SubjectSet
    <2> QED
      BY <1>2, <2>1, <2>3, <2>4, <2>5 DEF Subscribe, GivesUpEvents, eventVars
  <1>3. CASE ConnectEvents
    <2>1. subs = {} /\ subs' = {} /\ UNCHANGED <<starts, result>>
      BY <1>3 DEF ConnectEvents, EventsInv
    <2>2. CASE phase' = "subscribing"
      <3>1. subs' = First(0) /\ IsFiniteSet(subs') /\ Cardinality(subs') = 0
            /\ 0 \in 0 .. Len(Subjects)
        BY <2>1, AllSubjects
      <3> QED
        BY <2>1, <2>2, <3>1 DEF EventsInv, Phases, First
    <2>3. CASE phase' = "serving"
      BY <2>1, <2>3 DEF EventsInv, Phases, SubjectSet
    <2> QED
      BY <1>3, <2>2, <2>3 DEF ConnectEvents
  <1>4. CASE Start
    BY <1>4, ServerAssumption DEF Start, eventVars, EventsInv, Phases
  <1>5. CASE Signal \/ Migrate
    BY <1>5 DEF Signal, Migrate, eventVars, EventsInv, Phases, First, SubjectSet
  <1>6. CASE Drain \/ StopServing
    BY <1>6 DEF Drain, StopServing, eventVars, EventsInv, Phases, SubjectSet
  <1>7. CASE CloseEvents
    BY <1>7 DEF CloseEvents, EventsInv, Phases
  <1>8. CASE Exit \/ Kill
    BY <1>8 DEF Exit, Kill, Dies, EventsInv, Phases
  <1> QED
    BY <1>1, <1>2, <1>3, <1>4, <1>5, <1>6, <1>7, <1>8
       DEF Next, ArriveAt, BeginWith, Statement, CommitWith, Fails, Settles, ExecutionArrives,
           Decided, OpensTransaction, ExecutionEnds, Answer, Elsewhere, vars

\* The subscriptions, in every execution.
LEMMA EventsServed == Spec => []EventsInv
  <1>1. Init => EventsInv
    BY ServerAssumption DEF Init, EventsInv, Phases
  <1> QED
    BY <1>1, EventsStep, PTL DEF Spec

\* For any list of subjects: while it serves, the server has subscribed to all of them
\* or to none, and it keeps none without its connection.
THEOREM EventsAllOrNoneHolds == Spec => []EventsAllOrNone
  <1>1. EventsInv => EventsAllOrNone
    BY DEF EventsInv, EventsAllOrNone
  <1> QED
    BY <1>1, EventsServed, PTL

\* The server keeps its types; among them, the pool never gives out more connections
\* than it has.
THEOREM ServerTypes == Spec => []TypeOK
  <1>1. Inv /\ PoolInv /\ (Once /\ Said) /\ EventsInv => TypeOK
    <2> SUFFICES ASSUME Inv, PoolInv, Said, EventsInv
                 PROVE  TypeOK
      OBVIOUS
    <2>1. subs \subseteq SubjectSet
      BY ServerAssumption DEF EventsInv, Phases, First, SubjectSet
    <2> QED
      BY <2>1, InvImplies DEF TypeOK, PoolInv, ExecTyped, Said, EventsInv
  <1> QED
    BY <1>1, RecordInvServed, PoolServed, AnswersServed, EventsServed, PTL
=============================================================================
