--------------------------- MODULE RecordManager ---------------------------
(***************************************************************************)
(* The bot and policy managers (internal/platform/bots, .../policies):     *)
(* concurrent creates and updates of records, each one transaction with an *)
(* audit event.  The managers have the same shape and differ in what a     *)
(* record holds and in what they validate.                                 *)
(*                                                                         *)
(* An update reads the row without locking it, merges the given fields     *)
(* into the copy, and writes every column back: its UPDATE waits for the   *)
(* row's lock and then stores what was merged before the wait.  A          *)
(* transaction's row and audit event are seen by nobody before COMMIT, so  *)
(* they are kept in local[q] until then.  A COMMIT that its sender no      *)
(* longer waits for may still be carried out, whenever Postgres comes to   *)
(* it.                                                                     *)
(*                                                                         *)
(* audit_events.created_at is NOW(), the start of the transaction; nothing *)
(* in the tables tells in which order transactions committed.              *)
(*                                                                         *)
(* Abstracted: free text that nothing judges (role, runtime, category and  *)
(* so on) is one field, "text"; JSON is empty or not; the timestamps of    *)
(* the rows are left out.  Nothing deletes a record.                       *)
(***************************************************************************)
EXTENDS Integers, Sequences

CONSTANTS Request,        \* calls in flight or to come; each is made once
          Bots, Policies, \* ids the database draws
          Texts,          \* values of a text field other than blank
          Calls,          \* what can be asked: [op, kind, id, body]
          MayAsk,         \* the calls among which each request is
          InitialRows,    \* tables to begin with: sets of [id |-> row]
          NoRow

Records == Bots \cup Policies

BotStatuses == {"active", "inactive", "deprecated"}

BotRows == [name : Texts, status : BotStatuses, text : Texts \cup {"blank"},
            config : Texts \cup {"{}"}]

PolicyRows == [name : Texts, enabled : BOOLEAN, text : Texts \cup {"blank"},
               rules : Texts \cup {"{}"}]

RowsOf(id) == IF id \in Bots THEN BotRows ELSE PolicyRows

\* What a body may say of each field; a status may be blank or unknown.
FieldValues ==
    [name    |-> Texts \cup {"blank"},
     text    |-> Texts \cup {"blank"},
     status  |-> BotStatuses \cup {"blank", "unknown"},
     enabled |-> BOOLEAN,
     config  |-> Texts \cup {"{}"},
     rules   |-> Texts \cup {"{}"}]

Fields(kind) ==
    IF kind = "bot" THEN {"name", "text", "status", "config"}
    ELSE {"name", "text", "enabled", "rules"}

KindOf(id) == IF id \in Bots THEN "bot" ELSE "policy"

ASSUME RecordsAssumption ==
    /\ Bots \cap Policies = {}
    /\ "blank" \notin Texts /\ "{}" \notin Texts
    /\ NoRow \notin BotRows \cup PolicyRows \cup Request \cup Records
    /\ \A table \in InitialRows :
           /\ table \in [Records -> BotRows \cup PolicyRows \cup {NoRow}]
           /\ \A id \in Records : table[id] \in RowsOf(id) \cup {NoRow}
    /\ MayAsk \in [Request -> SUBSET Calls]
    /\ \A c \in Calls :
           /\ c.op \in {"create", "update"} /\ c.kind \in {"bot", "policy"}
           /\ c.op = "update" => c.id \in Records /\ c.kind = KindOf(c.id)
           /\ DOMAIN c.body \subseteq Fields(c.kind)
           /\ \A f \in DOMAIN c.body : c.body[f] \in FieldValues[f]

VARIABLES clock,    \* the start of the latest transaction
          rows,     \* the tables bots and policies, as committed
          audits,   \* per record its committed audit events; that the sequence has
                    \* the order of the COMMITs is history, no column records it
          rowLock,  \* per record the transaction that has written it
          stage,    \* per request
          local     \* per request: the call, the copy and what is not committed

recordVars == <<clock, rows, audits, rowLock, stage, local>>

InTransaction == {"read", "written"}

\* "inFlight": the COMMIT was sent, and whoever sent it has given up or died.
Wrote == {"written", "inFlight"}

\* "unheard": a COMMIT in flight took effect.
Ended == {"refused", "notFound", "rolledBack", "committed", "unheard"}

\* The call, the record it is about, the copy, the start of the transaction, and how
\* many of the record's events were there when the copy was read (history).
Holding(call, id, row, begunAt, sawEvents) ==
    [call |-> call, id |-> id, row |-> row, begunAt |-> begunAt, sawEvents |-> sawEvents]

Nothing == Holding(NoRow, NoRow, NoRow, 0, 0)

\* The audit event of a create holds the row; each existing record has one.
Event(q, row, body, createdAt, sawEvents) ==
    [by |-> q, payload |-> row, body |-> body, createdAt |-> createdAt,
     sawEvents |-> sawEvents]

RecordInit ==
    /\ clock = 0
    /\ rows \in InitialRows
    /\ audits = [id \in Records |->
                    IF rows[id] = NoRow THEN <<>>
                    ELSE <<Event(NoRow, rows[id], rows[id], 0, 0)>>]
    /\ rowLock = [id \in Records |-> NoRow]
    /\ stage = [q \in Request |-> "idle"]
    /\ local = [q \in Request |-> Nothing]

-----------------------------------------------------------------------------
Patched(row, body) ==
    [f \in DOMAIN row |-> IF f \in DOMAIN body THEN body[f] ELSE row[f]]

BlankBot == [name |-> "blank", status |-> "blank", text |-> "blank", config |-> "{}"]

BlankPolicy == [name |-> "blank", enabled |-> FALSE, text |-> "blank", rules |-> "{}"]

\* A bot without a status is active; a record without JSON gets an empty object.
Created(kind, body) ==
    IF kind = "policy" THEN Patched(BlankPolicy, body)
    ELSE LET given == Patched(BlankBot, body)
         IN  IF given.status = "blank" THEN [given EXCEPT !.status = "active"] ELSE given

\* Mutant: whatever is given is taken for a status.
ChecksNameOnly(bot) == bot.name # "blank"

ValidBot(bot) == bot.name # "blank" /\ bot.status \in BotStatuses

ValidPolicy(policy) == policy.name # "blank"

Valid(kind, row) == IF kind = "bot" THEN ValidBot(row) ELSE ValidPolicy(row)

\* Mutant: a PATCH without JSON empties the JSON.
MergeEmptiesJSON(row, body) ==
    [f \in DOMAIN row |->
        IF f \in DOMAIN body THEN body[f]
        ELSE IF f \in {"config", "rules"} THEN "{}" ELSE row[f]]

\* Fields that are given replace those of the copy.
Merge(row, body) == Patched(row, body)

End(q, how) ==
    /\ stage' = [stage EXCEPT ![q] = how]
    /\ local' = [local EXCEPT ![q] = Nothing]

\* A create is validated before there is a transaction.
Arrive(q) ==
    /\ stage[q] = "idle"
    /\ \E c \in MayAsk[q] :
          IF c.op = "create" /\ ~Valid(c.kind, Created(c.kind, c.body))
            THEN End(q, "refused")
            ELSE /\ stage' = [stage EXCEPT ![q] = "ready"]
                 /\ local' = [local EXCEPT ![q] = Holding(c, NoRow, NoRow, 0, 0)]
    /\ UNCHANGED <<clock, rows, audits, rowLock>>

\* BEGIN; an update reads its row, merges and validates the copy.  A COMMIT between
\* BEGIN and the SELECT would only let the copy be newer.
Begin(q) ==
    /\ stage[q] = "ready"
    /\ LET c == local[q].call
           copy == IF c.op = "create" THEN Created(c.kind, c.body)
                   ELSE Merge(rows[c.id], c.body)
       IN  IF c.op = "update" /\ rows[c.id] = NoRow
             THEN End(q, "notFound") /\ UNCHANGED clock
           ELSE IF ~Valid(c.kind, copy)
             THEN End(q, "refused") /\ UNCHANGED clock
           ELSE /\ clock' = clock + 1
                /\ stage' = [stage EXCEPT ![q] = "read"]
                /\ local' = [local EXCEPT ![q] =
                       IF c.op = "create" THEN Holding(c, NoRow, copy, clock', 0)
                       ELSE Holding(c, c.id, copy, clock', Len(audits[c.id]))]
    /\ UNCHANGED <<rows, audits, rowLock>>

\* The record a statement writes: an INSERT draws an id that nobody has.
Writes(q, id) ==
    IF local[q].call.op = "update" THEN id = local[q].id
    ELSE KindOf(id) = local[q].call.kind /\ rows[id] = NoRow

EventOf(q) ==
    Event(q, local[q].row, local[q].call.body, local[q].begunAt, local[q].sawEvents)

\* Mutant: the recorder is given the pool instead of the transaction.
AuditsOnPool(q) ==
    /\ stage[q] = "read"
    /\ \E id \in Records :
          /\ Writes(q, id) /\ rowLock[id] = NoRow
          /\ rowLock' = [rowLock EXCEPT ![id] = q]
          /\ local' = [local EXCEPT ![q].id = id]
          /\ audits' = [audits EXCEPT ![id] = Append(@, EventOf(q))]
    /\ stage' = [stage EXCEPT ![q] = "written"]
    /\ UNCHANGED <<clock, rows>>

\* INSERT or UPDATE, which waits while another transaction has written the row, and
\* the insert of the audit event.
Write(q) ==
    /\ stage[q] = "read"
    /\ \E id \in Records :
          /\ Writes(q, id) /\ rowLock[id] = NoRow
          /\ rowLock' = [rowLock EXCEPT ![id] = q]
          /\ local' = [local EXCEPT ![q].id = id]
    /\ stage' = [stage EXCEPT ![q] = "written"]
    /\ UNCHANGED <<clock, rows, audits>>

\* The COMMIT of q is carried out: the row and its event are seen, the lock released.
CarryOut(q, how) ==
    /\ rows' = [rows EXCEPT ![local[q].id] = local[q].row]
    /\ audits' = [audits EXCEPT ![local[q].id] = Append(@, EventOf(q))]
    /\ rowLock' = [rowLock EXCEPT ![local[q].id] = NoRow]
    /\ End(q, how)
    /\ UNCHANGED clock

\* The answer of COMMIT is heard.
Commit(q) == stage[q] = "written" /\ CarryOut(q, "committed")

\* Mutant: the error of COMMIT is dropped.
HalfHeard(Q, sent) ==
    /\ rowLock' = [id \in Records |-> IF rowLock[id] \in Q THEN NoRow ELSE rowLock[id]]
    /\ stage' = [q \in Request |->
                    IF q \in sent THEN "committed"
                    ELSE IF q \in Q THEN "rolledBack" ELSE stage[q]]
    /\ local' = [q \in Request |-> IF q \in Q THEN Nothing ELSE local[q]]
    /\ UNCHANGED <<clock, rows, audits>>

\* A statement fails, the request's time is up, or the process dies: the
\* transactions of Q leave nothing behind, those of sent apart, whose COMMIT is in
\* flight.
Abort(Q, sent) ==
    /\ rowLock' = [id \in Records |->
                      IF rowLock[id] \in Q \ sent THEN NoRow ELSE rowLock[id]]
    /\ stage' = [q \in Request |->
                    IF q \in sent THEN "inFlight"
                    ELSE IF q \in Q THEN "rolledBack" ELSE stage[q]]
    /\ local' = [q \in Request |-> IF q \in Q \ sent THEN Nothing ELSE local[q]]
    /\ UNCHANGED <<clock, rows, audits>>

\* Mutant: what has been written is not rolled back.
NotYetWritten == {q \in Request : stage[q] \in {"ready", "read"}}

Open == {q \in Request : stage[q] \in InTransaction \cup {"ready"}}

\* COMMIT is sent when everything has been written.
MaySend(Q) == SUBSET {q \in Q : stage[q] = "written"}

\* Postgres carries out a COMMIT in flight, or finds the connection closed first.
Settle(q) == stage[q] = "inFlight" /\ (CarryOut(q, "unheard") \/ Abort({q}, {}))

RecordNext ==
    \/ \E q \in Request : Arrive(q) \/ Begin(q) \/ Write(q) \/ Commit(q) \/ Settle(q)
    \/ \E Q \in SUBSET Open : \E sent \in MaySend(Q) : Abort(Q, sent)

RecordSpec == RecordInit /\ [][RecordNext]_recordVars

-----------------------------------------------------------------------------
RecordTypeOK ==
    /\ clock \in Nat
    /\ \A id \in Records :
          /\ rows[id] \in RowsOf(id) \cup {NoRow}
          /\ rowLock[id] \in Request \cup {NoRow}
          /\ \A i \in DOMAIN audits[id] : audits[id][i].payload \in RowsOf(id)
    /\ stage \in [Request -> InTransaction \cup {"idle", "ready", "inFlight"} \cup Ended]

\* Who sorts a record's audit events by created_at finds its row in the newest, or,
\* since created_at is the start of a transaction, in an older one whose transaction
\* was still open when the newest began.  Whatever overlaps, rolls back, dies or is
\* answered with an error, no row differs from what was audited of it, and nothing
\* is audited that did not happen (bots and policies recordAudit).
RowIsLastAudited ==
    \A id \in Records :
        LET events == audits[id]
            Newest(n) == \A j \in DOMAIN events : events[j].createdAt <= events[n].createdAt
        IN  /\ events = <<>> => rows[id] = NoRow
            /\ \A n \in DOMAIN events : Newest(n) =>
                   \/ rows[id] = events[n].payload
                   \/ \E i \in DOMAIN events :
                          rows[id] = events[i].payload /\ events[n].sawEvents < i

\* What an update sets stays until another call sets it, except that an update of
\* the same record that had read the row before may write the old value back: an
\* update is lost to an overlapping one only (merge and Update of both managers).
LossNeedsOverlap ==
    \A id \in Records :
        LET events == audits[id]
            Sets(i, f) == f \in DOMAIN events[i].body
        IN  \A i \in DOMAIN events : \A f \in DOMAIN events[i].body :
                rows[id][f] # events[i].payload[f] =>
                    \E j \in i + 1 .. Len(events) :
                        Sets(j, f) \/ events[j].sawEvents < i
=============================================================================
