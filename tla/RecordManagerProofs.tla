------------------------ MODULE RecordManagerProofs ------------------------
(***************************************************************************)
(* For any requests, calls and tables: RecordManager keeps its types, a    *)
(* row is what the newest event of it says or an older one that overlapped *)
(* it, and an update is lost to an overlapping one only.                   *)
(***************************************************************************)
EXTENDS RecordManager, TLAPS

-----------------------------------------------------------------------------
RowsOfKind(kind) == IF kind = "bot" THEN BotRows ELSE PolicyRows

AllRows == BotRows \cup PolicyRows

Bodies == AllRows \cup {c.body : c \in Calls}

Events ==
    [by : Request \cup {NoRow}, payload : AllRows, body : Bodies, createdAt : Nat,
     sawEvents : Nat]

Locals ==
    [call : Calls \cup {NoRow}, id : Records \cup {NoRow}, row : AllRows \cup {NoRow},
     begunAt : Nat, sawEvents : Nat]

Typed ==
    /\ RecordTypeOK
    /\ rows \in [Records -> AllRows \cup {NoRow}]
    /\ audits \in [Records -> Seq(Events)]
    /\ rowLock \in [Records -> Request \cup {NoRow}]
    /\ local \in [Request -> Locals]

\* What has begun and is not settled.
Begun == InTransaction \cup {"inFlight"}

\* What a request that has begun holds is a call and a row of its kind.
Copied ==
    \A q \in Request :
        /\ stage[q] = "ready" => local[q].call \in Calls
        /\ stage[q] \in Begun =>
               /\ local[q].call \in Calls
               /\ local[q].row \in RowsOfKind(local[q].call.kind)
               /\ local[q].call.op = "update" => local[q].id = local[q].call.id
               /\ local[q].call.op = "create" => local[q].sawEvents = 0

\* The lock of a row is held by the transaction that has written it.
LocksHeld ==
    /\ \A q \in Request : stage[q] \in Wrote =>
           /\ local[q].id \in Records
           /\ KindOf(local[q].id) = local[q].call.kind
           /\ rowLock[local[q].id] = q
           /\ local[q].call.op = "create" => rows[local[q].id] = NoRow
    /\ \A id \in Records : rowLock[id] # NoRow =>
           stage[rowLock[id]] \in Wrote /\ local[rowLock[id]].id = id

\* A row is what the event that was committed last says.
RowIsLastCommitted ==
    \A id \in Records :
        rows[id] = IF audits[id] = <<>> THEN NoRow ELSE audits[id][Len(audits[id])].payload

Inv == Typed /\ Copied /\ LocksHeld /\ RowIsLastCommitted

-----------------------------------------------------------------------------
\* The rows of an id are those of its kind.
LEMMA KindFacts ==
    ASSUME NEW id \in Records
    PROVE  /\ KindOf(id) \in {"bot", "policy"}
           /\ RowsOf(id) = RowsOfKind(KindOf(id))
  BY RecordsAssumption DEF KindOf, RowsOf, RowsOfKind, Records

\* A row has the fields of its kind.
LEMMA RowFields ==
    ASSUME NEW kind \in {"bot", "policy"}, NEW row \in RowsOfKind(kind)
    PROVE  DOMAIN row = Fields(kind)
  BY DEF RowsOfKind, Fields, BotRows, PolicyRows

\* A well-formed body.
GoodBody(kind, body) ==
    DOMAIN body \subseteq Fields(kind) /\ \A f \in DOMAIN body : body[f] \in FieldValues[f]

\* A bot that is patched and valid is a bot.
LEMMA PatchedBot ==
    ASSUME NEW row, row = [f \in Fields("bot") |-> row[f]],
           row.name \in Texts \cup {"blank"}, row.text \in Texts \cup {"blank"},
           row.status \in BotStatuses \cup {"blank", "unknown"}, row.config \in Texts \cup {"{}"},
           NEW body, GoodBody("bot", body), ValidBot(Patched(row, body))
    PROVE  Patched(row, body) \in BotRows
  <1> DEFINE new == Patched(row, body)
  <1>1. DOMAIN row = {"name", "text", "status", "config"}
    BY DEF Fields
  <1>2. new = [f \in {"name", "text", "status", "config"} |->
                   IF f \in DOMAIN body THEN body[f] ELSE row[f]]
    BY <1>1 DEF Patched
  <1>3. /\ new.name \in Texts \cup {"blank"}
        /\ new.text \in Texts \cup {"blank"}
        /\ new.status \in BotStatuses \cup {"blank", "unknown"}
        /\ new.config \in Texts \cup {"{}"}
    BY <1>2 DEF GoodBody, FieldValues
  <1>4. new.name \in Texts /\ new.status \in BotStatuses
    BY <1>3 DEF ValidBot
  <1>5. new = [name |-> new.name, status |-> new.status, text |-> new.text,
               config |-> new.config]
    BY <1>2
  <1> QED
    BY <1>3, <1>4, <1>5 DEF BotRows

\* A policy record that is patched and valid is one.
LEMMA PatchedPolicy ==
    ASSUME NEW row, row = [f \in Fields("policy") |-> row[f]],
           row.name \in Texts \cup {"blank"}, row.text \in Texts \cup {"blank"},
           row.enabled \in BOOLEAN, row.rules \in Texts \cup {"{}"},
           NEW body, GoodBody("policy", body), ValidPolicy(Patched(row, body))
    PROVE  Patched(row, body) \in PolicyRows
  <1> DEFINE new == Patched(row, body)
  <1>1. DOMAIN row = {"name", "text", "enabled", "rules"}
    BY DEF Fields
  <1>2. new = [f \in {"name", "text", "enabled", "rules"} |->
                   IF f \in DOMAIN body THEN body[f] ELSE row[f]]
    BY <1>1 DEF Patched
  <1>3. /\ new.name \in Texts \cup {"blank"}
        /\ new.text \in Texts \cup {"blank"}
        /\ new.enabled \in BOOLEAN
        /\ new.rules \in Texts \cup {"{}"}
    BY <1>2 DEF GoodBody, FieldValues
  <1>4. new.name \in Texts
    BY <1>3 DEF ValidPolicy
  <1>5. new = [name |-> new.name, enabled |-> new.enabled, text |-> new.text,
               rules |-> new.rules]
    BY <1>2
  <1> QED
    BY <1>3, <1>4, <1>5 DEF PolicyRows

\* A merged copy that is valid is a row.
LEMMA MergedRow ==
    ASSUME NEW kind \in {"bot", "policy"}, NEW row \in RowsOfKind(kind),
           NEW body, GoodBody(kind, body), Valid(kind, Merge(row, body))
    PROVE  Merge(row, body) \in RowsOfKind(kind)
  <1>1. CASE kind = "bot"
    <2>1. row = [f \in Fields("bot") |-> row[f]]
      BY <1>1 DEF RowsOfKind, BotRows, Fields
    <2> QED
      BY <1>1, <2>1, PatchedBot DEF RowsOfKind, BotRows, Valid, Merge
  <1>2. CASE kind = "policy"
    <2>1. row = [f \in Fields("policy") |-> row[f]]
      BY <1>2 DEF RowsOfKind, PolicyRows, Fields
    <2> QED
      BY <1>2, <2>1, PatchedPolicy DEF RowsOfKind, PolicyRows, Valid, Merge
  <1> QED
    BY <1>1, <1>2

\* So is a created one.
LEMMA CreatedRow ==
    ASSUME NEW kind \in {"bot", "policy"}, NEW body, GoodBody(kind, body),
           Valid(kind, Created(kind, body))
    PROVE  Created(kind, body) \in RowsOfKind(kind)
  <1>1. CASE kind = "bot"
    <2> DEFINE given == Patched(BlankBot, body)
    <2>1. /\ given = [f \in Fields("bot") |->
                        IF f \in DOMAIN body THEN body[f] ELSE BlankBot[f]]
          /\ BlankBot = [f \in Fields("bot") |-> BlankBot[f]]
      BY DEF Patched, BlankBot, Fields
    <2>2. CASE given.status # "blank"
      <3>1. Created(kind, body) = given
        BY <1>1, <2>2 DEF Created
      <3>2. ValidBot(given)
        BY <1>1, <3>1 DEF Valid
      <3>3. /\ BlankBot.name = "blank" /\ BlankBot.text = "blank"
            /\ BlankBot.status = "blank" /\ BlankBot.config = "{}"
        BY DEF BlankBot
      <3>4. GoodBody("bot", body)
        BY <1>1
      <3>5. given \in BotRows
        BY <2>1, <3>2, <3>3, <3>4, PatchedBot
      <3> QED
        BY <1>1, <3>1, <3>5 DEF RowsOfKind
    <2>3. CASE given.status = "blank"
      <3>1. Created(kind, body) = [given EXCEPT !.status = "active"]
        BY <1>1, <2>3 DEF Created
      <3> DEFINE row == [BlankBot EXCEPT !.status = "active"]
                 rest == [f \in DOMAIN body \ {"status"} |-> body[f]]
      <3>2. Created(kind, body) = Patched(row, rest)
        BY <2>1, <3>1 DEF Patched, BlankBot, Fields
      <3>3. GoodBody("bot", rest)
        BY <1>1 DEF GoodBody
      <3>4. row = [f \in Fields("bot") |-> row[f]]
        BY DEF BlankBot, Fields
      <3>5. ValidBot(Patched(row, rest))
        BY <1>1, <3>2 DEF Valid
      <3>6. /\ row.name \in Texts \cup {"blank"} /\ row.text \in Texts \cup {"blank"}
            /\ row.status \in BotStatuses \cup {"blank", "unknown"}
            /\ row.config \in Texts \cup {"{}"}
        BY DEF BlankBot, BotStatuses
      <3> HIDE DEF row, rest
      <3>7. Patched(row, rest) \in BotRows
        BY <3>3, <3>4, <3>5, <3>6, PatchedBot
      <3> QED
        BY <1>1, <3>2, <3>7 DEF RowsOfKind
    <2> QED
      BY <2>2, <2>3
  <1>2. CASE kind = "policy"
    <2>1. BlankPolicy = [f \in Fields("policy") |-> BlankPolicy[f]]
      BY DEF BlankPolicy, Fields
    <2> QED
      BY <1>2, <2>1, PatchedPolicy DEF RowsOfKind, Valid, Created, BlankPolicy
  <1> QED
    BY <1>1, <1>2

\* What a call may be.
LEMMA CallShape ==
    ASSUME NEW c \in Calls
    PROVE  /\ c.op \in {"create", "update"} /\ c.kind \in {"bot", "policy"}
           /\ c.op = "update" => c.id \in Records /\ c.kind = KindOf(c.id)
           /\ GoodBody(c.kind, c.body)
           /\ c.body \in Bodies
  BY RecordsAssumption DEF GoodBody, Bodies

\* NoRow is not a row, a request or an id.
LEMMA RowIsNoNoRow == NoRow \notin AllRows /\ NoRow \notin Request /\ NoRow \notin Records
  BY RecordsAssumption DEF AllRows

-----------------------------------------------------------------------------
\* What a request holds, and its parts.
LEMMA HoldingType ==
    ASSUME NEW call \in Calls \cup {NoRow}, NEW id \in Records \cup {NoRow},
           NEW row \in AllRows \cup {NoRow},
           NEW begunAt \in Nat, NEW sawEvents \in Nat
    PROVE  /\ Holding(call, id, row, begunAt, sawEvents) \in Locals
           /\ Holding(call, id, row, begunAt, sawEvents).call = call
           /\ Holding(call, id, row, begunAt, sawEvents).id = id
           /\ Holding(call, id, row, begunAt, sawEvents).row = row
           /\ Holding(call, id, row, begunAt, sawEvents).sawEvents = sawEvents
  BY DEF Holding, Locals

\* A request that holds nothing.
LEMMA NothingType == Nothing \in Locals
  BY DEF Nothing, Holding, Locals

\* The invariant holds of the tables to begin with.
LEMMA InitInv == RecordInit => Inv
  <1> SUFFICES ASSUME RecordInit
               PROVE  Inv
    OBVIOUS
  <1> USE DEF RecordInit
  <1>1. /\ rows \in [Records -> AllRows \cup {NoRow}]
        /\ \A id \in Records : rows[id] \in RowsOf(id) \cup {NoRow}
    BY RecordsAssumption DEF AllRows
  <1>2. ASSUME NEW id \in Records, rows[id] # NoRow
        PROVE  /\ rows[id] \in RowsOf(id) /\ rows[id] \in AllRows
               /\ Event(NoRow, rows[id], rows[id], 0, 0) \in Events
    BY <1>1, <1>2 DEF Event, Events, Bodies
  <1>3. ASSUME NEW id \in Records
        PROVE  /\ audits[id] \in Seq(Events)
               /\ rows[id] = NoRow => audits[id] = <<>>
               /\ rows[id] # NoRow => /\ Len(audits[id]) = 1
                                      /\ audits[id][1] = Event(NoRow, rows[id], rows[id], 0, 0)
    BY <1>2
  <1>4. audits \in [Records -> Seq(Events)]
    BY <1>3
  <1>5. local \in [Request -> Locals]
    BY NothingType
  <1>6. RecordTypeOK
    <2>1. ASSUME NEW id \in Records, NEW i \in DOMAIN audits[id]
          PROVE  audits[id][i].payload \in RowsOf(id)
      BY <1>1, <1>2, <1>3 DEF Event
    <2> QED
      BY <1>1, <2>1 DEF RecordTypeOK
  <1>7. RowIsLastCommitted
    BY <1>3 DEF RowIsLastCommitted, Event
  <1> QED
    BY <1>1, <1>4, <1>5, <1>6, <1>7
       DEF Inv, Typed, Copied, LocksHeld, Begun, InTransaction, Wrote, Records

Stages == Begun \cup {"idle", "ready"} \cup Ended

\* A step of one request that has no lock and gets none.
LEMMA StepOutside ==
    ASSUME Inv, NEW q \in Request, UNCHANGED <<rows, audits, rowLock>>,
           clock' \in Nat, stage[q] \notin Wrote, stage'[q] \notin Wrote,
           stage' \in [Request -> Stages], local' \in [Request -> Locals],
           \A p \in Request \ {q} : stage'[p] = stage[p] /\ local'[p] = local[p],
           stage'[q] = "ready" => local'[q].call \in Calls,
           stage'[q] = "read" =>
               /\ local'[q].call \in Calls
               /\ local'[q].row \in RowsOfKind(local'[q].call.kind)
               /\ local'[q].call.op = "update" => local'[q].id = local'[q].call.id
               /\ local'[q].call.op = "create" => local'[q].sawEvents = 0
    PROVE  Inv'
  <1> USE DEF Inv
  <1>1. Typed'
    BY DEF Typed, RecordTypeOK, Stages, Begun
  <1>2. Copied'
    BY DEF Copied, Begun, InTransaction, Wrote
  <1>3. LocksHeld'
    <2>1. ASSUME NEW p \in Request, stage'[p] \in Wrote
          PROVE  p # q /\ stage[p] \in Wrote /\ local'[p] = local[p]
      BY <2>1
    <2>2. ASSUME NEW id \in Records, rowLock[id] # NoRow
          PROVE  /\ rowLock[id] \in Request \ {q}
                 /\ stage[rowLock[id]] \in Wrote /\ local[rowLock[id]].id = id
      BY <2>2 DEF LocksHeld, Typed
    <2>3. ASSUME NEW id \in Records, rowLock'[id] # NoRow
          PROVE  stage'[rowLock'[id]] \in Wrote /\ local'[rowLock'[id]].id = id
      <3>1. rowLock'[id] = rowLock[id]
        OBVIOUS
      <3> QED
        BY <2>2, <2>3, <3>1
    <2>4. ASSUME NEW p \in Request, stage'[p] \in Wrote
          PROVE  /\ local'[p].id \in Records
                 /\ KindOf(local'[p].id) = local'[p].call.kind
                 /\ rowLock'[local'[p].id] = p
                 /\ local'[p].call.op = "create" => rows'[local'[p].id] = NoRow
      <3>1. stage[p] \in Wrote /\ local'[p] = local[p]
        BY <2>1, <2>4
      <3>2. rowLock' = rowLock /\ rows' = rows
        OBVIOUS
      <3> QED
        BY <3>1, <3>2 DEF LocksHeld
    <2> QED
      BY <2>3, <2>4 DEF LocksHeld
  <1>4. RowIsLastCommitted'
    BY DEF RowIsLastCommitted
  <1> QED
    BY <1>1, <1>2, <1>3, <1>4

\* A request that ends before its write disturbs nobody.
LEMMA EndOutside ==
    ASSUME Inv, NEW q \in Request, UNCHANGED <<rows, audits, rowLock>>,
           clock' \in Nat, stage[q] \notin Wrote, NEW how \in Ended, End(q, how)
    PROVE  Inv'
  <1>1. /\ stage' \in [Request -> Stages] /\ stage'[q] = how
        /\ \A p \in Request \ {q} : stage'[p] = stage[p] /\ local'[p] = local[p]
        /\ local' \in [Request -> Locals]
    BY NothingType DEF Inv, Typed, RecordTypeOK, End, Stages, Begun
  <1>2. how \notin {"ready", "read"} \cup Wrote
    BY DEF Ended, Wrote
  <1> QED
    BY <1>1, <1>2, StepOutside

\* A call arrives.
LEMMA ArriveInv ==
    ASSUME Inv, NEW q \in Request, Arrive(q)
    PROVE  Inv'
  <1>1. PICK c \in Calls :
           IF c.op = "create" /\ ~Valid(c.kind, Created(c.kind, c.body))
             THEN End(q, "refused")
             ELSE /\ stage' = [stage EXCEPT ![q] = "ready"]
                  /\ local' = [local EXCEPT ![q] = Holding(c, NoRow, NoRow, 0, 0)]
    BY RecordsAssumption DEF Arrive
  <1>2. /\ stage[q] = "idle" /\ stage[q] \notin Wrote
        /\ UNCHANGED <<rows, audits, rowLock>>
        /\ clock' \in Nat
    BY DEF Arrive, Wrote, Inv, Typed, RecordTypeOK
  <1>3. CASE End(q, "refused")
    BY <1>2, <1>3, EndOutside DEF Ended
  <1>4. CASE /\ stage' = [stage EXCEPT ![q] = "ready"]
             /\ local' = [local EXCEPT ![q] = Holding(c, NoRow, NoRow, 0, 0)]
    <2>1. /\ Holding(c, NoRow, NoRow, 0, 0) \in Locals
          /\ Holding(c, NoRow, NoRow, 0, 0).call = c
      BY HoldingType
    <2>2. /\ stage' \in [Request -> Stages] /\ stage'[q] = "ready"
          /\ local' \in [Request -> Locals] /\ local'[q].call = c
          /\ \A p \in Request \ {q} : stage'[p] = stage[p] /\ local'[p] = local[p]
      BY <1>4, <2>1 DEF Inv, Typed, RecordTypeOK, Stages, Begun
    <2> QED
      BY <1>2, <2>2, StepOutside DEF Wrote
  <1> QED
    BY <1>1, <1>3, <1>4

\* A transaction begins and reads.
LEMMA BeginInv ==
    ASSUME Inv, NEW q \in Request, Begin(q)
    PROVE  Inv'
  <1> DEFINE c == local[q].call
             copy == IF c.op = "create" THEN Created(c.kind, c.body)
                     ELSE Merge(rows[c.id], c.body)
             begun == IF c.op = "create" THEN Holding(c, NoRow, copy, clock', 0)
                      ELSE Holding(c, c.id, copy, clock', Len(audits[c.id]))
  <1>1. /\ stage[q] = "ready" /\ stage[q] \notin Wrote /\ c \in Calls
        /\ UNCHANGED <<rows, audits, rowLock>>
        /\ clock \in Nat
    BY DEF Begin, Inv, Copied, Wrote, Typed, RecordTypeOK
  <1>2. ASSUME NEW how \in Ended, End(q, how), UNCHANGED clock
        PROVE  Inv'
    BY <1>1, <1>2, EndOutside
  <1>3. CASE /\ clock' = clock + 1
             /\ c.op = "update" => rows[c.id] # NoRow
             /\ Valid(c.kind, copy)
             /\ stage' = [stage EXCEPT ![q] = "read"]
             /\ local' = [local EXCEPT ![q] = begun]
    <2>1. /\ c.op \in {"create", "update"} /\ c.kind \in {"bot", "policy"}
          /\ GoodBody(c.kind, c.body)
          /\ c.op = "update" => c.id \in Records /\ c.kind = KindOf(c.id)
      BY <1>1, CallShape
    <2>2. copy \in RowsOfKind(c.kind)
      <3>1. CASE c.op = "create"
        BY <1>3, <2>1, <3>1, CreatedRow
      <3>2. CASE c.op = "update"
        <4>1. rows[c.id] \in RowsOfKind(c.kind)
          BY <1>3, <2>1, <3>2, KindFacts DEF Inv, Typed, RecordTypeOK
        <4> QED
          BY <1>3, <2>1, <3>2, <4>1, MergedRow
      <3> QED
        BY <2>1, <3>1, <3>2
    <2>3. begun \in Locals /\ begun.call = c /\ begun.row = copy
          /\ (c.op = "update" => begun.id = c.id)
          /\ (c.op = "create" => begun.sawEvents = 0)
      <3>0. clock' \in Nat
        BY <1>1, <1>3
      <3>1. copy \in AllRows
        BY <2>2 DEF AllRows, RowsOfKind
      <3>2. c.op = "update" => Len(audits[c.id]) \in Nat
        BY <2>1 DEF Inv, Typed
      <3>3. CASE c.op = "create"
        <4> HIDE DEF copy, c
        <4> QED
          BY <1>1, <3>0, <3>1, <3>3, HoldingType
      <3>4. CASE c.op = "update"
        <4>1. c.id \in Records /\ Len(audits[c.id]) \in Nat
          BY <2>1, <3>2, <3>4
        <4> HIDE DEF copy, c
        <4>2. begun = Holding(c, c.id, copy, clock', Len(audits[c.id]))
          BY <3>4
        <4> QED
          BY <1>1, <3>0, <3>1, <3>4, <4>1, <4>2, HoldingType
      <3> QED
        BY <2>1, <3>3, <3>4
    <2> HIDE DEF copy, begun
    <2>4. /\ stage' \in [Request -> Stages] /\ stage'[q] = "read"
          /\ local' \in [Request -> Locals] /\ local'[q] = begun
          /\ \A p \in Request \ {q} : stage'[p] = stage[p] /\ local'[p] = local[p]
      BY <1>3, <2>3 DEF Inv, Typed, RecordTypeOK, Stages, Begun, InTransaction
    <2>5. clock' \in Nat /\ stage'[q] \notin Wrote
      BY <1>1, <1>3, <2>4 DEF Wrote
    <2> QED
      BY <1>1, <2>2, <2>3, <2>4, <2>5, StepOutside
  <1> QED
    BY <1>1, <1>2, <1>3, CallShape DEF Begin, Ended

\* A row is locked, and its new value kept in the transaction.
LEMMA WriteInv ==
    ASSUME Inv, NEW q \in Request, Write(q)
    PROVE  Inv'
  <1>1. PICK id \in Records :
           /\ Writes(q, id) /\ rowLock[id] = NoRow
           /\ rowLock' = [rowLock EXCEPT ![id] = q]
           /\ local' = [local EXCEPT ![q].id = id]
    BY DEF Write
  <1>2. /\ stage[q] = "read" /\ stage' = [stage EXCEPT ![q] = "written"]
        /\ UNCHANGED <<clock, rows, audits>>
    BY DEF Write
  <1>3. /\ local[q] \in Locals /\ local[q].call \in Calls
        /\ local[q].row \in RowsOfKind(local[q].call.kind)
        /\ local[q].call.op = "update" => local[q].id = local[q].call.id
        /\ local[q].call.op = "create" => local[q].sawEvents = 0
    BY <1>2 DEF Inv, Typed, Copied, Begun, InTransaction
  <1>4. /\ local'[q] = Holding(local[q].call, id, local[q].row, local[q].begunAt,
                               local[q].sawEvents)
        /\ \A p \in Request \ {q} : local'[p] = local[p] /\ stage'[p] = stage[p]
        /\ stage'[q] = "written" /\ stage' \in [Request -> Stages]
        /\ DOMAIN local' = Request /\ local' = [p \in Request |-> local'[p]]
    BY <1>1, <1>2, <1>3 DEF Inv, Typed, RecordTypeOK, Locals, Holding, Stages, Begun, InTransaction
  <1>5. /\ local'[q] \in Locals /\ local'[q].call = local[q].call /\ local'[q].id = id
        /\ local'[q].row = local[q].row /\ local'[q].sawEvents = local[q].sawEvents
    <2>1. /\ local[q].call \in Calls \cup {NoRow} /\ local[q].row \in AllRows \cup {NoRow}
          /\ local[q].begunAt \in Nat /\ local[q].sawEvents \in Nat
      BY <1>3 DEF Locals
    <2> QED
      BY <1>4, <2>1, HoldingType
  <1>6. Typed'
    <2>1. local' \in [Request -> Locals]
      BY <1>4, <1>5 DEF Inv, Typed
    <2>2. /\ rowLock' \in [Records -> Request \cup {NoRow}]
          /\ \A i \in Records : rowLock'[i] = IF i = id THEN q ELSE rowLock[i]
      BY <1>1 DEF Inv, Typed
    <2> QED
      BY <1>2, <1>4, <2>1, <2>2 DEF Inv, Typed, RecordTypeOK, Stages, Begun
  <1>7. Copied'
    <2>1. local[q].call.op = "update" => id = local[q].call.id
      BY <1>1, <1>3 DEF Writes
    <2> QED
      BY <1>3, <1>4, <1>5, <2>1 DEF Inv, Copied, Begun, InTransaction
  <1>8. LocksHeld'
    <2>1. /\ KindOf(id) = local[q].call.kind
          /\ local[q].call.op = "create" => rows[id] = NoRow
      BY <1>1, <1>3, CallShape DEF Writes
    <2>2. \A i \in Records : rowLock'[i] = IF i = id THEN q ELSE rowLock[i]
      BY <1>1 DEF Inv, Typed
    <2>3. ASSUME NEW p \in Request, stage'[p] \in Wrote
          PROVE  /\ local'[p].id \in Records
                 /\ KindOf(local'[p].id) = local'[p].call.kind
                 /\ rowLock'[local'[p].id] = p
                 /\ local'[p].call.op = "create" => rows'[local'[p].id] = NoRow
      <3>1. CASE p = q
        BY <1>2, <1>5, <2>1, <2>2, <3>1
      <3>2. CASE p # q
        <4>1. local'[p] = local[p] /\ stage[p] \in Wrote
          BY <1>4, <2>3, <3>2
        <4>2. rowLock[local[p].id] = p /\ p # NoRow /\ local[p].id \in Records
          BY <4>1, RowIsNoNoRow DEF Inv, LocksHeld
        <4> QED
          BY <1>1, <1>2, <2>2, <4>1, <4>2 DEF Inv, LocksHeld
      <3> QED
        BY <3>1, <3>2
    <2>4. ASSUME NEW i \in Records, rowLock'[i] # NoRow
          PROVE  stage'[rowLock'[i]] \in Wrote /\ local'[rowLock'[i]].id = i
      <3>1. CASE i = id
        BY <1>4, <1>5, <2>2, <3>1 DEF Wrote
      <3>2. CASE i # id
        <4>1. rowLock[i] \in Request \ {q} /\ rowLock'[i] = rowLock[i]
          BY <1>2, <2>2, <2>4, <3>2 DEF Inv, Typed, LocksHeld, Wrote
        <4> QED
          BY <1>4, <2>4, <4>1 DEF Inv, LocksHeld
      <3> QED
        BY <3>1, <3>2
    <2> QED
      BY <2>3, <2>4 DEF LocksHeld
  <1>9. RowIsLastCommitted'
    BY <1>2 DEF Inv, RowIsLastCommitted
  <1> QED
    BY <1>6, <1>7, <1>8, <1>9 DEF Inv

\* What a commit stores, and where.
LEMMA Committed ==
    ASSUME Inv, NEW q \in Request, NEW how \in Ended, stage[q] \in Wrote, CarryOut(q, how)
    PROVE  LET id == local[q].id
           IN  /\ id \in Records /\ rowLock[id] = q
               /\ local[q].row \in RowsOf(id) /\ local[q].row \in AllRows
               /\ EventOf(q) \in Events /\ EventOf(q).payload = local[q].row
               /\ \A i \in Records \ {id} :
                      /\ rows'[i] = rows[i] /\ audits'[i] = audits[i]
                      /\ rowLock'[i] = rowLock[i]
               /\ rows'[id] = local[q].row /\ rowLock'[id] = NoRow
               /\ audits'[id] = Append(audits[id], EventOf(q))
               /\ rows' \in [Records -> AllRows \cup {NoRow}]
               /\ audits' \in [Records -> Seq(Events)]
               /\ rowLock' \in [Records -> Request \cup {NoRow}]
  <1> DEFINE id == local[q].id
             row == local[q].row
  <1>1. /\ rows' = [rows EXCEPT ![id] = row]
        /\ audits' = [audits EXCEPT ![id] = Append(@, EventOf(q))]
        /\ rowLock' = [rowLock EXCEPT ![id] = NoRow]
    BY DEF CarryOut
  <1>2. id \in Records /\ rowLock[id] = q /\ KindOf(id) = local[q].call.kind
    BY DEF Inv, LocksHeld
  <1>3. local[q].call \in Calls /\ row \in RowsOfKind(local[q].call.kind)
    BY DEF Inv, Copied, Begun, InTransaction, Wrote
  <1>4. row \in RowsOf(id) /\ row \in AllRows
    BY <1>2, <1>3, KindFacts DEF RowsOfKind, AllRows
  <1>5. local[q].call.body \in Bodies /\ local[q].sawEvents \in Nat /\ local[q].begunAt \in Nat
    BY <1>3, CallShape DEF Inv, Typed, Locals
  <1>6. EventOf(q) \in Events /\ EventOf(q).payload = row
    BY <1>4, <1>5 DEF EventOf, Event, Events
  <1> HIDE DEF id, row
  <1>7. /\ rows \in [Records -> AllRows \cup {NoRow}]
        /\ audits \in [Records -> Seq(Events)]
        /\ rowLock \in [Records -> Request \cup {NoRow}]
    BY DEF Inv, Typed
  <1>8. audits'[id] = Append(audits[id], EventOf(q)) /\ audits'[id] \in Seq(Events)
    BY <1>1, <1>2, <1>6, <1>7
  <1> QED
    BY <1>1, <1>2, <1>4, <1>6, <1>7, <1>8 DEF id, row

\* A request that ends is at rest.
LEMMA Ends ==
    ASSUME Inv, NEW q \in Request, NEW how \in Ended, End(q, how)
    PROVE  /\ stage' \in [Request -> Stages] /\ stage'[q] = how
           /\ how \notin {"ready"} \cup Begun
           /\ local' \in [Request -> Locals]
           /\ \A p \in Request \ {q} : stage'[p] = stage[p] /\ local'[p] = local[p]
  BY NothingType DEF Inv, Typed, RecordTypeOK, End, Stages, Begun, InTransaction, Ended

\* Row and audit event appear together.
LEMMA CommitInv ==
    ASSUME Inv, NEW q \in Request, NEW how \in Ended, stage[q] \in Wrote, CarryOut(q, how)
    PROVE  Inv'
  <1> DEFINE id == local[q].id
  <1>1. /\ id \in Records /\ rowLock[id] = q
        /\ local[q].row \in RowsOf(id) /\ local[q].row \in AllRows
        /\ EventOf(q) \in Events /\ EventOf(q).payload = local[q].row
        /\ \A i \in Records \ {id} :
               rows'[i] = rows[i] /\ audits'[i] = audits[i] /\ rowLock'[i] = rowLock[i]
        /\ rows'[id] = local[q].row /\ rowLock'[id] = NoRow
        /\ audits'[id] = Append(audits[id], EventOf(q))
        /\ rows' \in [Records -> AllRows \cup {NoRow}]
        /\ audits' \in [Records -> Seq(Events)]
        /\ rowLock' \in [Records -> Request \cup {NoRow}]
    BY Committed
  <1>0. clock' \in Nat
    BY DEF CarryOut, Inv, Typed, RecordTypeOK
  <1>2. /\ stage' \in [Request -> Stages] /\ stage'[q] = how
        /\ how \notin {"ready"} \cup Begun
        /\ local' \in [Request -> Locals]
        /\ \A p \in Request \ {q} : stage'[p] = stage[p] /\ local'[p] = local[p]
    BY Ends DEF CarryOut
  <1> HIDE DEF id
  <1>3. /\ Len(audits'[id]) = Len(audits[id]) + 1
        /\ audits'[id] # <<>>
        /\ \A i \in 1 .. Len(audits[id]) : audits'[id][i] = audits[id][i]
        /\ audits'[id][Len(audits'[id])] = EventOf(q)
        /\ DOMAIN audits'[id] = 1 .. Len(audits'[id])
        /\ DOMAIN audits[id] = 1 .. Len(audits[id])
        /\ Len(audits[id]) \in Nat
    BY <1>1 DEF Inv, Typed
  <1>4. RecordTypeOK'
    <2>1. ASSUME NEW i \in DOMAIN audits'[id]
          PROVE  audits'[id][i].payload \in RowsOf(id)
      BY <1>1, <1>3 DEF Inv, Typed, RecordTypeOK
    <2>2. ASSUME NEW r \in Records
          PROVE  /\ rows'[r] \in RowsOf(r) \cup {NoRow}
                 /\ rowLock'[r] \in Request \cup {NoRow}
                 /\ \A i \in DOMAIN audits'[r] : audits'[r][i].payload \in RowsOf(r)
      <3>1. CASE r = id
        BY <1>1, <2>1, <3>1
      <3>2. CASE r # id
        BY <1>1, <3>2 DEF Inv, Typed, RecordTypeOK
      <3> QED
        BY <3>1, <3>2
    <2> QED
      BY <1>2, <2>2, <1>0 DEF RecordTypeOK, Stages, Begun
  <1>5. Typed'
    BY <1>1, <1>2, <1>4 DEF Typed
  <1>6. Copied'
    BY <1>2 DEF Inv, Copied
  <1>7. LocksHeld'
    <2>1. ASSUME NEW p \in Request, stage'[p] \in Wrote
          PROVE  /\ local'[p].id \in Records
                 /\ KindOf(local'[p].id) = local'[p].call.kind
                 /\ rowLock'[local'[p].id] = p
                 /\ local'[p].call.op = "create" => rows'[local'[p].id] = NoRow
      <3>1. p # q /\ local'[p] = local[p] /\ stage[p] \in Wrote
        BY <1>2, <2>1 DEF Begun, InTransaction, Wrote
      <3>2. /\ local[p].id \in Records /\ rowLock[local[p].id] = p
            /\ KindOf(local[p].id) = local[p].call.kind
            /\ local[p].call.op = "create" => rows[local[p].id] = NoRow
        BY <3>1 DEF Inv, LocksHeld
      <3>3. local[p].id # id
        BY <1>1, <3>1, <3>2
      <3> QED
        BY <1>1, <3>1, <3>2, <3>3
    <2>2. ASSUME NEW i \in Records, rowLock'[i] # NoRow
          PROVE  stage'[rowLock'[i]] \in Wrote /\ local'[rowLock'[i]].id = i
      <3>1. i # id /\ rowLock'[i] = rowLock[i]
        BY <1>1, <2>2
      <3>2. /\ rowLock[i] \in Request /\ stage[rowLock[i]] \in Wrote
            /\ local[rowLock[i]].id = i
        BY <2>2, <3>1 DEF Inv, LocksHeld, Typed
      <3>3. rowLock[i] # q
        BY <3>1, <3>2 DEF id
      <3> QED
        BY <1>2, <3>1, <3>2, <3>3
    <2> QED
      BY <2>1, <2>2 DEF LocksHeld
  <1>8. RowIsLastCommitted'
    <2> SUFFICES ASSUME NEW r \in Records
                 PROVE  rows'[r] = IF audits'[r] = <<>> THEN NoRow
                                   ELSE audits'[r][Len(audits'[r])].payload
      BY DEF RowIsLastCommitted
    <2>1. CASE r = id
      BY <1>1, <1>3, <2>1
    <2>2. CASE r # id
      BY <1>1, <2>2 DEF Inv, RowIsLastCommitted
    <2> QED
      BY <2>1, <2>2
  <1> QED
    BY <1>5, <1>6, <1>7, <1>8 DEF Inv

\* Requests that are rolled back leave rows and events alone.
LEMMA AbortInv ==
    ASSUME Inv, NEW Q \in SUBSET Request, NEW sent \in SUBSET Q,
           \A p \in sent : stage[p] \in Wrote, Abort(Q, sent)
    PROVE  Inv'
  <1>1. /\ UNCHANGED <<rows, audits>>
        /\ stage' \in [Request -> Stages] /\ local' \in [Request -> Locals]
        /\ \A p \in Q \ sent : stage'[p] = "rolledBack"
        /\ \A p \in sent : stage'[p] = "inFlight" /\ local'[p] = local[p]
        /\ \A p \in Request \ Q : stage'[p] = stage[p] /\ local'[p] = local[p]
        /\ clock' \in Nat
        /\ rowLock' \in [Records -> Request \cup {NoRow}]
        /\ \A id \in Records :
               rowLock'[id] = IF rowLock[id] \in Q \ sent THEN NoRow ELSE rowLock[id]
    BY NothingType DEF Abort, Inv, Typed, RecordTypeOK, Stages, Begun, Ended
  <1>2. Typed'
    BY <1>1 DEF Inv, Typed, RecordTypeOK, Stages, Begun
  <1>3. Copied'
    BY <1>1 DEF Inv, Copied, Begun, InTransaction, Wrote
  <1>4. LocksHeld'
    <2>1. ASSUME NEW p \in Request, stage'[p] \in Wrote
          PROVE  /\ local'[p].id \in Records
                 /\ KindOf(local'[p].id) = local'[p].call.kind
                 /\ rowLock'[local'[p].id] = p
                 /\ local'[p].call.op = "create" => rows'[local'[p].id] = NoRow
      <3>1. p \notin Q \ sent /\ local'[p] = local[p] /\ stage[p] \in Wrote
        BY <1>1, <2>1 DEF Wrote
      <3> QED
        BY <1>1, <3>1 DEF Inv, LocksHeld
    <2>2. ASSUME NEW i \in Records, rowLock'[i] # NoRow
          PROVE  stage'[rowLock'[i]] \in Wrote /\ local'[rowLock'[i]].id = i
      <3>1. rowLock[i] \in Request \ (Q \ sent) /\ rowLock'[i] = rowLock[i]
        BY <1>1, <2>2 DEF Inv, Typed
      <3>2. stage[rowLock[i]] \in Wrote /\ local[rowLock[i]].id = i
        BY <2>2, <3>1 DEF Inv, LocksHeld
      <3>3. stage'[rowLock[i]] \in Wrote /\ local'[rowLock[i]] = local[rowLock[i]]
        BY <1>1, <3>1, <3>2 DEF Wrote
      <3> QED
        BY <3>1, <3>2, <3>3
    <2> QED
      BY <2>1, <2>2 DEF LocksHeld
  <1>5. RowIsLastCommitted'
    BY <1>1 DEF Inv, RowIsLastCommitted
  <1> QED
    BY <1>2, <1>3, <1>4, <1>5 DEF Inv

\* Each step keeps the invariant.
LEMMA NextInv == Inv /\ [RecordNext]_recordVars => Inv'
  <1> SUFFICES ASSUME Inv, [RecordNext]_recordVars
               PROVE  Inv'
    OBVIOUS
  <1>1. ASSUME NEW q \in Request, Arrive(q) \/ Begin(q) \/ Write(q)
        PROVE  Inv'
    BY <1>1, ArriveInv, BeginInv, WriteInv
  <1>2. ASSUME NEW q \in Request, Commit(q) \/ Settle(q)
        PROVE  Inv'
    <2>1. CASE Commit(q)
      BY <2>1, CommitInv DEF Ended, Commit, Wrote
    <2>2. CASE Settle(q)
      <3>1. stage[q] \in Wrote /\ (CarryOut(q, "unheard") \/ Abort({q}, {}))
        BY <2>2 DEF Settle, Wrote
      <3> QED
        BY <3>1, CommitInv, AbortInv DEF Ended
    <2> QED
      BY <1>2, <2>1, <2>2
  <1>3. ASSUME NEW Q \in SUBSET Open, NEW sent \in MaySend(Q), Abort(Q, sent)
        PROVE  Inv'
    BY <1>3, AbortInv DEF Open, MaySend, Wrote
  <1>4. CASE UNCHANGED recordVars
    BY <1>4 DEF recordVars, Inv, Typed, RecordTypeOK, Copied, LocksHeld, RowIsLastCommitted
  <1> QED
    BY <1>1, <1>2, <1>3, <1>4 DEF RecordNext

-----------------------------------------------------------------------------
(***************************************************************************)
(* Lost updates.  The copy of an update differs from the event it has seen *)
(* in the fields that are given only; so what an event does not set was    *)
(* set by one it has seen, or by nobody after.                             *)
(***************************************************************************)
Staged ==
    \A q \in Request : stage[q] \in Begun /\ local[q].call.op = "update" =>
        LET id == local[q].id
            saw == local[q].sawEvents
        IN  /\ saw \in 1 .. Len(audits[id])
            /\ \A f \in Fields(KindOf(id)) \ DOMAIN local[q].call.body :
                   local[q].row[f] = audits[id][saw].payload[f]

BodiesFit ==
    \A id \in Records : \A i \in 1 .. Len(audits[id]) :
        DOMAIN audits[id][i].body \subseteq Fields(KindOf(id))

\* What LossNeedsOverlap says of the row, said of every event.
LossIn(events) ==
    \A k \in 1 .. Len(events) : \A i \in 1 .. k : \A f \in DOMAIN events[i].body :
        events[k].payload[f] # events[i].payload[f] =>
            \E j \in i + 1 .. k :
                f \in DOMAIN events[j].body \/ events[j].sawEvents < i

\* Whoever made an event had seen older ones only.
SawBefore ==
    \A id \in Records : \A i \in 1 .. Len(audits[id]) : audits[id][i].sawEvents < i

History ==
    Staged /\ BodiesFit /\ SawBefore /\ \A id \in Records : LossIn(audits[id])

\* A row that is there is what its newest event says.
LEMMA AuditedRow ==
    ASSUME Inv, NEW id \in Records
    PROVE  /\ audits[id] \in Seq(Events) /\ Len(audits[id]) \in Nat
           /\ DOMAIN audits[id] = 1 .. Len(audits[id])
           /\ rows[id] = NoRow <=> Len(audits[id]) = 0
           /\ rows[id] # NoRow => rows[id] = audits[id][Len(audits[id])].payload
  <1>1. /\ audits[id] \in Seq(Events) /\ Len(audits[id]) \in Nat
        /\ DOMAIN audits[id] = 1 .. Len(audits[id])
        /\ audits[id] = <<>> <=> Len(audits[id]) = 0
    BY DEF Inv, Typed
  <1>2. ASSUME Len(audits[id]) # 0
        PROVE  audits[id][Len(audits[id])].payload \in AllRows
    <2>1. audits[id][Len(audits[id])] \in Events
      BY <1>1, <1>2
    <2> QED
      BY <2>1 DEF Events
  <1> QED
    BY <1>1, <1>2, RowIsNoNoRow DEF Inv, RowIsLastCommitted

\* No event yet, or the one of a row that was there.
LEMMA InitHistory == RecordInit => History
  <1> SUFFICES ASSUME RecordInit
               PROVE  History
    OBVIOUS
  <1>1. ASSUME NEW id \in Records
        PROVE  /\ Len(audits[id]) = 0 \/ Len(audits[id]) = 1
               /\ \A i \in 1 .. Len(audits[id]) :
                      /\ i = 1 /\ Len(audits[id]) = 1
                      /\ rows[id] # NoRow /\ audits[id][1].body = rows[id]
                      /\ audits[id][1].sawEvents = 0
    <2>1. CASE rows[id] = NoRow
      <3>1. audits[id] = <<>> /\ Len(audits[id]) = 0
        BY <2>1 DEF RecordInit
      <3> QED
        BY <3>1
    <2>2. CASE rows[id] # NoRow
      <3>1. audits[id] = <<Event(NoRow, rows[id], rows[id], 0, 0)>> /\ Len(audits[id]) = 1
        BY <2>2 DEF RecordInit
      <3> QED
        BY <2>2, <3>1 DEF Event
    <2> QED
      BY <2>1, <2>2
  <1>2. BodiesFit
    <2>1. ASSUME NEW id \in Records, NEW i \in 1 .. Len(audits[id])
          PROVE  DOMAIN audits[id][i].body \subseteq Fields(KindOf(id))
      <3>1. i = 1 /\ Len(audits[id]) = 1
        BY <1>1, <2>1
      <3>2. rows[id] \in RowsOfKind(KindOf(id)) /\ audits[id][1].body = rows[id]
        BY <1>1, <2>1, KindFacts, InitInv DEF Inv, Typed, RecordTypeOK
      <3> QED
        BY <3>1, <3>2, KindFacts, RowFields
    <2> QED
      BY <2>1 DEF BodiesFit
  <1>3. \A id \in Records : LossIn(audits[id])
    <2>1. ASSUME NEW id \in Records, NEW k \in 1 .. Len(audits[id]), NEW i \in 1 .. k
          PROVE  i = k
      BY <1>1, <2>1
    <2> QED
      BY <2>1 DEF LossIn
  <1>4. Staged
    BY DEF RecordInit, Staged, Begun, InTransaction
  <1>5. SawBefore
    BY <1>1 DEF SawBefore
  <1> QED
    BY <1>2, <1>3, <1>4, <1>5 DEF History

\* Steps that commit nothing: whoever is in a transaction was so before with the
\* same copy, or has just made it.
LEMMA QuietHistory ==
    ASSUME History, audits' = audits,
           \A p \in Request :
               stage'[p] \in Begun /\ local'[p].call.op = "update" =>
                   \/ /\ stage[p] \in Begun /\ local'[p].call = local[p].call
                      /\ local'[p].id = local[p].id /\ local'[p].row = local[p].row
                      /\ local'[p].sawEvents = local[p].sawEvents
                   \/ LET id == local'[p].id
                          saw == local'[p].sawEvents
                      IN  /\ saw \in 1 .. Len(audits[id])
                          /\ \A f \in Fields(KindOf(id)) \ DOMAIN local'[p].call.body :
                                 local'[p].row[f] = audits[id][saw].payload[f]
    PROVE  History'
  <1>1. Staged'
    BY DEF History, Staged
  <1>2. BodiesFit'
    BY DEF History, BodiesFit
  <1>3. SawBefore'
    BY DEF History, SawBefore
  <1>4. ASSUME NEW id \in Records
        PROVE  LossIn(audits[id])'
    BY DEF History
  <1> QED
    BY <1>1, <1>2, <1>3, <1>4 DEF History

\* A transaction that begins has seen the newest event.
LEMMA BeginHistory ==
    ASSUME Inv, History, NEW q \in Request, Begin(q)
    PROVE  History'
  <1> DEFINE c == local[q].call
             copy == IF c.op = "create" THEN Created(c.kind, c.body)
                     ELSE Merge(rows[c.id], c.body)
             begun == IF c.op = "create" THEN Holding(c, NoRow, copy, clock', 0)
                      ELSE Holding(c, c.id, copy, clock', Len(audits[c.id]))
  <1>1. /\ stage[q] = "ready" /\ c \in Calls
        /\ UNCHANGED <<rows, audits, rowLock>>
    BY DEF Begin, Inv, Copied
  <1>2. ASSUME NEW how \in Ended, End(q, how)
        PROVE  History'
    BY <1>1, <1>2, Ends, QuietHistory
  <1>3. CASE /\ c.op = "update" => rows[c.id] # NoRow
             /\ stage' = [stage EXCEPT ![q] = "read"]
             /\ local' = [local EXCEPT ![q] = begun]
    <2>1. /\ local'[q] = begun
          /\ \A p \in Request \ {q} : stage'[p] = stage[p] /\ local'[p] = local[p]
      BY <1>3 DEF Inv, Typed, RecordTypeOK
    <2>2. CASE c.op = "create"
      <3>1. begun.call.op = "create"
        BY <2>2 DEF Holding
      <3> HIDE DEF begun
      <3> QED
        BY <1>1, <2>1, <3>1, QuietHistory
    <2>3. CASE c.op = "update"
      <3>1. /\ c.id \in Records /\ rows[c.id] \in RowsOfKind(KindOf(c.id))
            /\ KindOf(c.id) \in {"bot", "policy"}
        BY <1>1, <1>3, <2>3, CallShape, KindFacts DEF Inv, Typed, RecordTypeOK
      <3>2. \A f \in Fields(KindOf(c.id)) \ DOMAIN c.body : copy[f] = rows[c.id][f]
        BY <2>3, <3>1, RowFields DEF Merge, Patched
      <3>3. /\ Len(audits[c.id]) \in 1 .. Len(audits[c.id])
            /\ rows[c.id] = audits[c.id][Len(audits[c.id])].payload
        BY <1>3, <2>3, <3>1, AuditedRow
      <3>4. /\ begun.id = c.id /\ begun.call = c /\ begun.row = copy
            /\ begun.sawEvents = Len(audits[c.id])
        <4> HIDE DEF c, copy
        <4> QED
          BY <2>3 DEF Holding
      <3> HIDE DEF begun, copy, c
      <3>5. /\ local'[q].id = c.id /\ local'[q].call = c /\ local'[q].row = copy
            /\ local'[q].sawEvents = Len(audits[c.id])
        BY <2>1, <3>4
      <3>6. /\ Len(audits[c.id]) \in 1 .. Len(audits[c.id])
            /\ \A f \in Fields(KindOf(c.id)) \ DOMAIN c.body :
                   copy[f] = audits[c.id][Len(audits[c.id])].payload[f]
        BY <3>2, <3>3
      <3>7. /\ local'[q].sawEvents \in 1 .. Len(audits[local'[q].id])
            /\ \A f \in Fields(KindOf(local'[q].id)) \ DOMAIN local'[q].call.body :
                   local'[q].row[f] = audits[local'[q].id][local'[q].sawEvents].payload[f]
        BY <3>5, <3>6
      <3>8. audits' = audits
        BY <1>1
      <3> QED
        BY <2>1, <3>7, <3>8, QuietHistory
    <2> QED
      BY <1>1, <2>2, <2>3, CallShape
  <1> QED
    BY <1>1, <1>2, <1>3, CallShape DEF Begin, Ended

\* A write adds no event.
LEMMA WriteHistory ==
    ASSUME Inv, History, NEW q \in Request, Write(q)
    PROVE  History'
  <1>1. PICK id \in Records :
           /\ Writes(q, id) /\ local' = [local EXCEPT ![q].id = id]
    BY DEF Write
  <1>2. /\ stage[q] = "read" /\ stage' = [stage EXCEPT ![q] = "written"]
        /\ UNCHANGED <<rows, audits>>
    BY DEF Write
  <1>3. local[q] \in Locals
    BY DEF Inv, Typed
  <1>4. /\ local'[q].call = local[q].call /\ local'[q].row = local[q].row
        /\ local'[q].sawEvents = local[q].sawEvents
        /\ local'[q].id = id
        /\ \A p \in Request \ {q} : local'[p] = local[p] /\ stage'[p] = stage[p]
    BY <1>1, <1>2, <1>3 DEF Inv, Typed, RecordTypeOK, Locals
  <1>5. local[q].call.op = "update" => id = local[q].id
    BY <1>1 DEF Writes
  <1> QED
    BY <1>2, <1>4, <1>5, QuietHistory DEF Begun, InTransaction

\* The event a COMMIT adds differs from its predecessors in given fields or overlaps with them.
LEMMA CommitHistory ==
    ASSUME Inv, History, NEW q \in Request, NEW how \in Ended, stage[q] \in Wrote, CarryOut(q, how)
    PROVE  History'
  <1> DEFINE id == local[q].id
             old == audits[id]
             new == audits'[id]
             n == Len(old)
             e == EventOf(q)
  <1>1. /\ stage[q] \in Begun /\ id \in Records /\ rowLock[id] = q
        /\ \A i \in Records \ {id} : audits'[i] = audits[i]
        /\ audits'[id] = Append(audits[id], EventOf(q))
    BY Committed DEF Begun, InTransaction, Wrote
  <1>2. /\ \A p \in Request \ {q} : stage'[p] = stage[p] /\ local'[p] = local[p]
        /\ stage'[q] = how /\ how \notin Begun
    BY Ends DEF CarryOut
  <1>3. /\ n \in Nat /\ Len(new) = n + 1 /\ new[n + 1] = e
        /\ \A i \in 1 .. n : new[i] = old[i]
    BY <1>1, AuditedRow
  <1>4. /\ e.payload = local[q].row /\ e.body = local[q].call.body
        /\ e.sawEvents = local[q].sawEvents
    BY DEF EventOf, Event
  <1>5. /\ local[q].call \in Calls /\ KindOf(id) = local[q].call.kind
        /\ DOMAIN e.body \subseteq Fields(KindOf(id))
    BY <1>1, <1>4, CallShape DEF Inv, Copied, LocksHeld, GoodBody
  <1>6. \/ n = 0 /\ e.sawEvents = 0
        \/ /\ e.sawEvents \in 1 .. n
           /\ \A f \in Fields(KindOf(id)) \ DOMAIN e.body :
                  e.payload[f] = old[e.sawEvents].payload[f]
    <2>1. CASE local[q].call.op = "create"
      BY <1>1, <1>4, <2>1, AuditedRow DEF Inv, LocksHeld, Copied
    <2>2. CASE local[q].call.op = "update"
      BY <1>1, <1>4, <2>2 DEF History, Staged
    <2> QED
      BY <1>5, <2>1, <2>2, CallShape
  <1> HIDE DEF id, old, new, n, e
  <1>7. Staged'
    <2> SUFFICES ASSUME NEW p \in Request, stage'[p] \in Begun,
                        local'[p].call.op = "update"
                 PROVE  LET rec == local'[p].id
                            saw == local'[p].sawEvents
                        IN  /\ saw \in 1 .. Len(audits'[rec])
                            /\ \A f \in Fields(KindOf(rec)) \ DOMAIN local'[p].call.body :
                                   local'[p].row[f] = audits'[rec][saw].payload[f]
      BY DEF Staged
    <2>1. p # q /\ stage[p] \in Begun /\ local'[p] = local[p]
      BY <1>2
    <2>2. /\ local[p].sawEvents \in 1 .. Len(audits[local[p].id])
          /\ \A f \in Fields(KindOf(local[p].id)) \ DOMAIN local[p].call.body :
                 local[p].row[f] = audits[local[p].id][local[p].sawEvents].payload[f]
      BY <2>1 DEF History, Staged
    <2>3. local[p].id \in Records
      <3>1. local[p].call \in Calls /\ local[p].id = local[p].call.id
        BY <2>1 DEF Inv, Copied
      <3> QED
        BY <2>1, <3>1, CallShape
    <2>4. CASE local[p].id = id
      BY <1>3, <2>1, <2>2, <2>4 DEF old, new, n
    <2>5. CASE local[p].id # id
      BY <1>1, <2>1, <2>2, <2>3, <2>5 DEF id
    <2> QED
      BY <2>4, <2>5
  <1>8. BodiesFit'
    <2> SUFFICES ASSUME NEW r \in Records, NEW i \in 1 .. Len(audits'[r])
                 PROVE  DOMAIN audits'[r][i].body \subseteq Fields(KindOf(r))
      BY DEF BodiesFit
    <2>1. CASE r # id
      BY <1>1, <2>1 DEF id, History, BodiesFit
    <2>2. CASE r = id /\ i = n + 1
      BY <1>3, <1>5, <2>2 DEF new
    <2>3. CASE r = id /\ i # n + 1
      <3>1. i \in 1 .. n /\ new[i] = old[i]
        BY <1>3, <2>3 DEF new
      <3> QED
        BY <1>1, <2>3, <3>1 DEF History, BodiesFit, new, old, n, id
    <2> QED
      BY <2>1, <2>2, <2>3
  <1>9. LossIn(new)
    <2> SUFFICES ASSUME NEW k \in 1 .. Len(new), NEW i \in 1 .. k,
                        NEW f \in DOMAIN new[i].body,
                        new[k].payload[f] # new[i].payload[f]
                 PROVE  \E j \in i + 1 .. k : f \in DOMAIN new[j].body \/ new[j].sawEvents < i
      BY DEF LossIn
    <2>1. LossIn(old) /\ id \in Records
      BY <1>1 DEF History, old, id
    <2>2. CASE k \in 1 .. n
      <3>1. /\ new[k] = old[k] /\ new[i] = old[i] /\ i \in 1 .. k
            /\ \A j \in i + 1 .. k : new[j] = old[j]
        BY <1>3, <2>2
      <3>2. \E j \in i + 1 .. k : f \in DOMAIN old[j].body \/ old[j].sawEvents < i
        BY <2>1, <2>2, <3>1 DEF LossIn, n
      <3> QED
        BY <3>1, <3>2
    <2>3. CASE k = n + 1 /\ i \in 1 .. n
      <3>1. CASE f \in DOMAIN e.body \/ e.sawEvents < i
        BY <1>3, <2>3, <3>1
      <3>2. CASE f \notin DOMAIN e.body /\ ~(e.sawEvents < i)
        <4>1. /\ e.sawEvents \in i .. n
              /\ \A g \in Fields(KindOf(id)) \ DOMAIN e.body :
                     e.payload[g] = old[e.sawEvents].payload[g]
          BY <1>3, <1>6, <2>3, <3>2
        <4>2. new[i] = old[i] /\ f \in Fields(KindOf(id))
          BY <1>3, <2>1, <2>3 DEF History, BodiesFit, old, n
        <4>3. new[k].payload[f] = old[e.sawEvents].payload[f]
          BY <1>3, <2>3, <3>2, <4>1, <4>2
        <4>4. PICK j \in i + 1 .. e.sawEvents :
                 f \in DOMAIN old[j].body \/ old[j].sawEvents < i
          BY <1>3, <2>1, <2>3, <4>1, <4>2, <4>3 DEF LossIn, n
        <4>5. j \in i + 1 .. k /\ j \in 1 .. n /\ new[j] = old[j]
          BY <1>3, <2>3, <4>1, <4>4
        <4> QED
          BY <4>4, <4>5
      <3> QED
        BY <3>1, <3>2
    <2>4. k = i \/ k \in 1 .. n \/ (k = n + 1 /\ i \in 1 .. n)
      BY <1>3
    <2> QED
      BY <2>2, <2>3, <2>4
  <1>10. ASSUME NEW r \in Records
         PROVE  LossIn(audits[r])'
    <2>1. CASE r = id
      BY <1>9, <2>1 DEF new
    <2>2. CASE r # id
      BY <1>1, <2>2 DEF id, History
    <2> QED
      BY <2>1, <2>2
  <1>11. SawBefore'
    <2> SUFFICES ASSUME NEW r \in Records, NEW i \in 1 .. Len(audits'[r])
                 PROVE  audits'[r][i].sawEvents < i
      BY DEF SawBefore
    <2>1. CASE r # id
      BY <1>1, <2>1 DEF id, History, SawBefore
    <2>2. CASE r = id /\ i = n + 1
      BY <1>3, <1>6, <2>2 DEF new
    <2>3. CASE r = id /\ i # n + 1
      <3>1. i \in 1 .. n /\ new[i] = old[i]
        BY <1>3, <2>3 DEF new
      <3> QED
        BY <1>1, <2>3, <3>1 DEF History, SawBefore, new, old, n, id
    <2> QED
      BY <2>1, <2>2, <2>3
  <1> QED
    BY <1>7, <1>8, <1>10, <1>11 DEF History

\* Each step keeps the history.
LEMMA NextHistory == Inv /\ History /\ [RecordNext]_recordVars => History'
  <1> SUFFICES ASSUME Inv, History, [RecordNext]_recordVars
               PROVE  History'
    OBVIOUS
  <1>1. ASSUME NEW q \in Request, Arrive(q)
        PROVE  History'
    <2>1. /\ audits' = audits
          /\ stage'[q] \notin Begun
          /\ \A p \in Request \ {q} : local'[p] = local[p] /\ stage'[p] = stage[p]
      BY <1>1 DEF Arrive, End, Begun, InTransaction, Inv, Typed, RecordTypeOK
    <2> QED
      BY <2>1, QuietHistory
  <1>2. ASSUME NEW q \in Request, Begin(q) \/ Write(q)
        PROVE  History'
    BY <1>2, BeginHistory, WriteHistory
  <1>3. ASSUME NEW Q \in SUBSET Request, NEW sent \in SUBSET Q,
               \A p \in sent : stage[p] \in Wrote, Abort(Q, sent)
        PROVE  History'
    <2>1. /\ audits' = audits
          /\ \A p \in Q \ sent : stage'[p] \notin Begun
          /\ \A p \in Request \ (Q \ sent) : local'[p] = local[p]
          /\ \A p \in sent : stage[p] \in Begun
          /\ \A p \in Request \ Q : stage'[p] = stage[p]
      BY <1>3 DEF Abort, Begun, InTransaction, Wrote
    <2> QED
      BY <2>1, QuietHistory
  <1>4. ASSUME NEW q \in Request, Commit(q) \/ Settle(q)
        PROVE  History'
    <2>1. CASE Commit(q)
      BY <2>1, CommitHistory DEF Ended, Commit, Wrote
    <2>2. CASE Settle(q)
      <3>1. stage[q] \in Wrote /\ (CarryOut(q, "unheard") \/ Abort({q}, {}))
        BY <2>2 DEF Settle, Wrote
      <3> QED
        BY <1>3, <3>1, CommitHistory DEF Ended
    <2> QED
      BY <1>4, <2>1, <2>2
  <1>6. ASSUME NEW Q \in SUBSET Open, NEW sent \in MaySend(Q), Abort(Q, sent)
        PROVE  History'
    BY <1>3, <1>6 DEF Open, MaySend, Wrote
  <1>5. CASE UNCHANGED recordVars
    <2>1. audits' = audits /\ local' = local /\ stage' = stage
      BY <1>5 DEF recordVars
    <2> QED
      BY <2>1, QuietHistory
  <1> QED
    BY <1>1, <1>2, <1>4, <1>5, <1>6 DEF RecordNext

-----------------------------------------------------------------------------
\* What the invariants say of the properties.
LEMMA InvImplies ==
    /\ Inv => RecordTypeOK
    /\ Inv /\ History => RowIsLastAudited /\ LossNeedsOverlap
  <1>1. Inv => RecordTypeOK
    BY DEF Inv, Typed
  <1>2. ASSUME Inv, History
        PROVE  LossNeedsOverlap
    <2>1. ASSUME NEW id \in Records, NEW i \in DOMAIN audits[id],
                 NEW f \in DOMAIN audits[id][i].body,
                 rows[id][f] # audits[id][i].payload[f]
          PROVE  \E j \in i + 1 .. Len(audits[id]) :
                     f \in DOMAIN audits[id][j].body \/ audits[id][j].sawEvents < i
      <3>1. /\ Len(audits[id]) \in 1 .. Len(audits[id]) /\ i \in 1 .. Len(audits[id])
            /\ rows[id] = audits[id][Len(audits[id])].payload
        BY <1>2, AuditedRow
      <3>2. LossIn(audits[id])
        BY <1>2 DEF History
      <3> QED
        BY <2>1, <3>1, <3>2 DEF LossIn
    <2> QED
      BY <2>1 DEF LossNeedsOverlap
  <1>3. ASSUME Inv, History
        PROVE  RowIsLastAudited
    <2>1. ASSUME NEW id \in Records
          PROVE  /\ audits[id] = <<>> => rows[id] = NoRow
                 /\ \A n \in DOMAIN audits[id] :
                        \E i \in DOMAIN audits[id] :
                            /\ rows[id] = audits[id][i].payload
                            /\ n = i \/ audits[id][n].sawEvents < i
      <3>1. ASSUME NEW n \in DOMAIN audits[id]
            PROVE  \E i \in DOMAIN audits[id] :
                       /\ rows[id] = audits[id][i].payload
                       /\ n = i \/ audits[id][n].sawEvents < i
        <4>1. /\ Len(audits[id]) \in DOMAIN audits[id] /\ n \in 1 .. Len(audits[id])
              /\ rows[id] = audits[id][Len(audits[id])].payload
          BY <1>3, <3>1, AuditedRow
        <4>2. audits[id][n] \in Events
          BY <1>3, <4>1, AuditedRow
        <4>3. audits[id][n].sawEvents \in Nat /\ audits[id][n].sawEvents < n
          BY <1>3, <4>1, <4>2 DEF History, SawBefore, Events
        <4>4. audits[id][n].sawEvents < Len(audits[id])
          BY <4>1, <4>3
        <4> QED
          BY <4>1, <4>4
      <3>2. audits[id] = <<>> => rows[id] = NoRow
        BY <1>3, AuditedRow
      <3> QED
        BY <3>1, <3>2
    <2> QED
      BY <2>1 DEF RowIsLastAudited
  <1> QED
    BY <1>1, <1>2, <1>3

\* Inv and History hold in every behaviour of the managers.
LEMMA Invariant == RecordSpec => [](Inv /\ History)
  <1>1. RecordInit => Inv /\ History
    BY InitInv, InitHistory
  <1>2. (Inv /\ History) /\ [RecordNext]_recordVars => (Inv /\ History)'
    BY NextInv, NextHistory
  <1> QED
    BY <1>1, <1>2, PTL DEF RecordSpec

\* For any requests and calls the row of a bot or policy is what its newest audit event
\* by created_at says, or an event whose transaction the newest one overlapped: what
\* commits, commits with its event, and nothing else does.
THEOREM RowIsLastAuditedHolds == RecordSpec => []RowIsLastAudited
  BY Invariant, InvImplies, PTL

\* For any requests and calls a field that an update has set keeps its value until it
\* is set again or an update that had read the row before writes it back.
THEOREM LossNeedsOverlapHolds == RecordSpec => []LossNeedsOverlap
  BY Invariant, InvImplies, PTL

\* The managers keep their types: whatever is stored, merged from any PATCH, is a
\* valid record with a name and, for a bot, a known status.
THEOREM RecordTypes == RecordSpec => []RecordTypeOK
  BY Invariant, InvImplies, PTL
=============================================================================
