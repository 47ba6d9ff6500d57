------------------------- MODULE GovernanceForksProofs -------------------------
(***************************************************************************)
(* For any set of requests: two events of the governance ledger share a    *)
(* predecessor only because their appends overlapped or because created_at *)
(* had put the earlier one no later than the head that both chose; and the *)
(* links lead from an effect back to the policy event of its call, or to   *)
(* one whose append overlapped that event's.                               *)
(***************************************************************************)
EXTENDS GovernanceChainProofs

-----------------------------------------------------------------------------
(***************************************************************************)
(* The strengthening.  What a SELECT found is still true when its row is   *)
(* published, because rows that come later have identities of their own:   *)
(* they are not among those the SELECT saw, and are not the head it chose. *)
(***************************************************************************)
\* No two rows share a hash.
Distinct(rows) == \A x, y \in rows : x.id = y.id => x = y

\* h is a newest row among those of ids, as the rows now stand.
Newest(rows, ids, h) ==
    \A x \in rows : x.id \in ids =>
        /\ h # Genesis
        /\ \A y \in rows : y.id = h => x.createdAt <= y.createdAt

\* A SELECT that saw ids among these rows returned h.
Chosen(rows, ids, h) ==
    /\ ids \subseteq IdsOf(rows)
    /\ h \in IdsOf(rows) \cup Root
    /\ Newest(rows, ids, h)

\* A transaction inserts its effect once and then its guardrail event once.
InsertedOnce ==
    \A q \in Request :
        /\ pc[q] \in {"begun", "effectRead"} => pending[q] = {}
        /\ pc[q] \in {"effectDone", "guardrailRead"} => <<q, "guardrail">> \notin IdsOf(pending[q])

DistinctRows == Distinct(committed) /\ \A q \in Request : Distinct(VisibleTo(q))

\* Every hash a request holds, or has linked a row to, was chosen so.
HeadsChosen ==
    /\ \A e \in committed : Chosen(committed, e.seen, e.prev)
    /\ \A q \in Request :
        /\ Chosen(VisibleTo(q), seen[q], head[q])
        /\ \A e \in pending[q] : Chosen(VisibleTo(q), e.seen, e.prev)

ForkInv == InsertedOnce /\ DistinctRows /\ HeadsChosen

-----------------------------------------------------------------------------
\* A choice stands when rows with other identities come in.
LEMMA ChoiceStands ==
    ASSUME NEW rows, NEW more, NEW ids, NEW h,
           Chosen(rows, ids, h), IdsOf(more) \cap IdsOf(rows) = {}
    PROVE  Chosen(rows \cup more, ids, h)
  <1>1. IdsOf(rows \cup more) = IdsOf(rows) \cup IdsOf(more)
    BY DEF IdsOf
  <1>2. ASSUME NEW x \in rows \cup more, x.id \in ids PROVE x \in rows /\ h # Genesis
    BY <1>2 DEF Chosen, Newest, IdsOf
  <1>3. ASSUME NEW y \in rows \cup more, y.id = h, h # Genesis PROVE y \in rows
    BY <1>3 DEF Chosen, IdsOf, Root
  <1>4. Newest(rows \cup more, ids, h)
    BY <1>2, <1>3 DEF Chosen, Newest
  <1> QED
    BY <1>1, <1>4 DEF Chosen

\* A call that has returned has seen nothing.
LEMMA NothingChosen ==
    ASSUME NEW rows
    PROVE  Chosen(rows, {}, Genesis)
  BY DEF Chosen, Newest, Root

\* A SELECT returns the newest row it sees.
LEMMA HeadIsNewest ==
    ASSUME NEW rows \in SUBSET Events, Distinct(rows), NEW h \in Heads(rows)
    PROVE  Chosen(rows, IdsOf(rows), h)
  <1>1. CASE rows = {}
    BY <1>1 DEF Heads, Chosen, Newest, IdsOf, Root
  <1>2. CASE rows # {}
    <2>1. PICK m \in rows : h = m.id /\ \A y \in rows : y.createdAt <= m.createdAt
      BY <1>2 DEF Heads
    <2>2. h # Genesis
      BY <2>1, GenesisIsNoId DEF Events
    <2>3. \A y \in rows : y.id = h => y = m
      BY <2>1 DEF Distinct
    <2> QED
      BY <2>1, <2>2, <2>3 DEF Chosen, Newest, IdsOf
  <1> QED
    BY <1>1, <1>2

\* Rows with identities of their own keep a set distinct.
LEMMA DistinctUnion ==
    ASSUME NEW rows, NEW more, Distinct(rows), Distinct(more),
           IdsOf(more) \cap IdsOf(rows) = {}
    PROVE  Distinct(rows \cup more)
  BY DEF Distinct, IdsOf

\* The same for a single row.
LEMMA DistinctWith ==
    ASSUME NEW rows, NEW row, Distinct(rows), row.id \notin IdsOf(rows)
    PROVE  Distinct(rows \cup {row}) /\ IdsOf({row}) \cap IdsOf(rows) = {}
  BY DEF Distinct, IdsOf

-----------------------------------------------------------------------------
\* Nothing has been inserted or read.
LEMMA InitForkInv == Init => ForkInv
  BY NothingChosen DEF Init, ForkInv, InsertedOnce, DistinctRows, Distinct, HeadsChosen, VisibleTo

\* Rows of a transaction are inserted once each.
LEMMA StepInsertedOnce ==
    ASSUME IInv, InsertedOnce, [Next]_vars
    PROVE  InsertedOnce'
  <1> USE DEF IInv, InsertedOnce
  <1>read. ASSUME NEW q \in Request, ReadHead(q, "begun", "effectRead")
                                      \/ ReadHead(q, "effectDone", "guardrailRead")
                                      \/ ReadHead(q, "idle", "policyRead")
           PROVE  InsertedOnce'
    BY <1>read DEF ReadHead, TypeOK
  <1>1. ASSUME NEW q \in Request, ReadHeadForPolicy(q) PROVE InsertedOnce'
    BY <1>1, <1>read DEF ReadHeadForPolicy
  <1>2. ASSUME NEW q \in Request, InsertPolicyEvent(q) PROVE InsertedOnce'
    <2>1. PICK verdict \in {"permitted", "denied"} : pc' = [pc EXCEPT ![q] = verdict]
      BY <1>2 DEF InsertPolicyEvent
    <2> QED
      BY <1>2, <2>1 DEF InsertPolicyEvent, TypeOK
  <1>3. ASSUME NEW q \in Request, Begin(q) PROVE InsertedOnce'
    <2>1. pending[q] = {}
      BY <1>3 DEF Begin, RowsInPlace, InTransaction
    <2> QED
      BY <1>3, <2>1 DEF Begin, TypeOK
  <1>4. ASSUME NEW q \in Request, ReadHeadForEffect(q) PROVE InsertedOnce'
    BY <1>4, <1>read DEF ReadHeadForEffect
  <1>5. ASSUME NEW q \in Request, InsertEffect(q) PROVE InsertedOnce'
    <2> DEFINE new == NewEvent(q, "effect", beganAt[q])
    <2>1. pending' = [pending EXCEPT ![q] = {new}] /\ pc' = [pc EXCEPT ![q] = "effectDone"]
      BY <1>5 DEF InsertEffect, InsertInTransaction, TypeOK
    <2>2. <<q, "guardrail">> \notin IdsOf({new})
      BY NewEventType DEF TypeOK, Kinds, IdsOf
    <2> HIDE DEF new
    <2> QED
      BY <2>1, <2>2 DEF TypeOK
  <1>6. ASSUME NEW q \in Request, ReadHeadForGuardrail(q) PROVE InsertedOnce'
    BY <1>6, <1>read DEF ReadHeadForGuardrail
  <1>7. ASSUME NEW q \in Request, InsertGuardrail(q) PROVE InsertedOnce'
    BY <1>7 DEF InsertGuardrail, InsertInTransaction, TypeOK
  <1>8. ASSUME NEW q \in Request, Commit(q) PROVE InsertedOnce'
    BY <1>8 DEF Commit, TypeOK
  <1>9. ASSUME NEW q \in Request, Rollback(q) PROVE InsertedOnce'
    BY <1>9 DEF Rollback, TypeOK
  <1>10. ASSUME UNCHANGED vars PROVE InsertedOnce'
    BY <1>10 DEF vars
  <1> QED
    BY <1>1, <1>2, <1>3, <1>4, <1>5, <1>6, <1>7, <1>8, <1>9, <1>10 DEF Next

\* The rows of a request have identities that nobody else's view holds.
LEMMA IdentitiesApart ==
    ASSUME IInv, InsertedOnce, NEW q \in Request
    PROVE  /\ pc[q] = "policyRead" =>
                  \A p \in Request : <<q, "policy">> \notin IdsOf(VisibleTo(p))
           /\ IdsOf(pending[q]) \cap IdsOf(committed) = {}
           /\ \A p \in Request \ {q} : IdsOf(pending[q]) \cap IdsOf(VisibleTo(p)) = {}
           /\ pc[q] = "effectRead" => <<q, "effect">> \notin IdsOf(VisibleTo(q))
           /\ pc[q] = "guardrailRead" => <<q, "guardrail">> \notin IdsOf(VisibleTo(q))
  <1> USE DEF IInv, RowsInPlace
  <1>1. \A p \in Request : IdsOf(VisibleTo(p)) = IdsOf(committed) \cup IdsOf(pending[p])
    BY DEF IdsOf, VisibleTo
  <1>2. \A p \in Request : IdsOf(pending[p]) \subseteq {<<p, "effect">>, <<p, "guardrail">>}
    BY DEF IdsOf
  <1>3. IdsOf(pending[q]) \cap IdsOf(committed) = {}
    <2>1. CASE pc[q] = "committed"
      BY <2>1 DEF InTransaction, IdsOf
    <2>2. CASE pc[q] # "committed"
      BY <2>2, <1>2
    <2> QED
      BY <2>1, <2>2
  <1>4. ASSUME pc[q] = "policyRead", NEW p \in Request
        PROVE  <<q, "policy">> \notin IdsOf(VisibleTo(p))
    <2>1. <<q, "policy">> \notin IdsOf(committed)
      BY <1>4
    <2>2. <<q, "policy">> \notin IdsOf(pending[p])
      BY <1>2
    <2> QED
      BY <1>1, <2>1, <2>2
  <1>5. ASSUME NEW p \in Request \ {q}
        PROVE  IdsOf(pending[q]) \cap IdsOf(VisibleTo(p)) = {}
    <2>1. IdsOf(pending[q]) \cap IdsOf(pending[p]) = {}
      BY <1>2
    <2> QED
      BY <1>1, <1>3, <2>1
  <1>6. pc[q] = "effectRead" => <<q, "effect">> \notin IdsOf(VisibleTo(q))
    BY <1>1 DEF InsertedOnce, IdsOf
  <1>7. pc[q] = "guardrailRead" => <<q, "guardrail">> \notin IdsOf(VisibleTo(q))
    BY <1>1 DEF InsertedOnce
  <1> QED
    BY <1>3, <1>4, <1>5, <1>6, <1>7

\* Views stay distinct as rows come in.
LEMMA StepDistinctRows ==
    ASSUME IInv, InsertedOnce, DistinctRows, [Next]_vars
    PROVE  DistinctRows'
  <1> USE DEF IInv, DistinctRows
  <1>same. ASSUME UNCHANGED <<committed, pending>> PROVE DistinctRows'
    BY <1>same DEF VisibleTo
  <1>shrink. ASSUME committed' = committed, \A p \in Request : pending'[p] \subseteq pending[p]
             PROVE  DistinctRows'
    BY <1>shrink DEF VisibleTo, Distinct
  <1>insert. ASSUME NEW q \in Request, NEW kind \in Kinds,
                    pending' = [pending EXCEPT ![q] = @ \cup {NewEvent(q, kind, beganAt[q])}],
                    committed' = committed, <<q, kind>> \notin IdsOf(VisibleTo(q))
             PROVE  DistinctRows'
    <2> DEFINE new == NewEvent(q, kind, beganAt[q])
    <2>1. new.id = <<q, kind>>
      BY NewEventType DEF TypeOK
    <2> HIDE DEF new
    <2>2. VisibleTo(q)' = VisibleTo(q) \cup {new}
      BY <1>insert DEF VisibleTo, TypeOK, new
    <2>3. Distinct(VisibleTo(q))'
      <3>1. Distinct(VisibleTo(q) \cup {new})
        BY <1>insert, <2>1, DistinctWith
      <3> QED
        BY <2>2, <3>1 DEF Distinct
    <2>4. \A p \in Request \ {q} : VisibleTo(p)' = VisibleTo(p)
      BY <1>insert DEF VisibleTo, TypeOK
    <2> QED
      BY <1>insert, <2>3, <2>4 DEF Distinct
  <1>1. ASSUME NEW q \in Request, InsertPolicyEvent(q) PROVE DistinctRows'
    <2> DEFINE new == NewEvent(q, "policy", clock')
    <2>1. pc[q] = "policyRead" /\ clock' \in Nat
      BY <1>1 DEF InsertPolicyEvent, TypeOK
    <2>2. new.id = <<q, "policy">>
      BY <2>1, NewEventType DEF Kinds
    <2>3. committed' = committed \cup {new} /\ pending' = pending
      BY <1>1 DEF InsertPolicyEvent
    <2> HIDE DEF new
    <2>4. Distinct(committed')
      BY <2>1, <2>2, <2>3, DistinctWith DEF RowsInPlace
    <2>5. ASSUME NEW p \in Request PROVE Distinct(VisibleTo(p))'
      <3>1. VisibleTo(p)' = VisibleTo(p) \cup {new}
        BY <2>3 DEF VisibleTo
      <3>2. Distinct(VisibleTo(p) \cup {new})
        BY <2>1, <2>2, IdentitiesApart, DistinctWith
      <3> QED
        BY <3>1, <3>2 DEF Distinct
    <2> QED
      BY <2>4, <2>5 DEF Distinct
  <1>2. ASSUME NEW q \in Request, InsertEffect(q) PROVE DistinctRows'
    <2>1. <<q, "effect">> \notin IdsOf(VisibleTo(q))
      BY <1>2, IdentitiesApart DEF InsertEffect, InsertInTransaction
    <2> QED
      BY <1>2, <2>1, <1>insert DEF InsertEffect, InsertInTransaction, Kinds
  <1>3. ASSUME NEW q \in Request, InsertGuardrail(q) PROVE DistinctRows'
    <2>1. <<q, "guardrail">> \notin IdsOf(VisibleTo(q))
      BY <1>3, IdentitiesApart DEF InsertGuardrail, InsertInTransaction
    <2> QED
      BY <1>3, <2>1, <1>insert DEF InsertGuardrail, InsertInTransaction, Kinds
  <1>4. ASSUME NEW q \in Request, Commit(q) PROVE DistinctRows'
    <2>1. committed' = VisibleTo(q) /\ pending' = [pending EXCEPT ![q] = {}]
      BY <1>4 DEF Commit, VisibleTo
    <2>2. Distinct(committed') /\ Distinct(VisibleTo(q))'
      BY <2>1 DEF VisibleTo, TypeOK, Distinct
    <2>3. ASSUME NEW p \in Request \ {q} PROVE Distinct(VisibleTo(p))'
      <3>1. VisibleTo(p)' = VisibleTo(p) \cup pending[q]
        BY <2>1 DEF VisibleTo, TypeOK
      <3>2. Distinct(pending[q])
        BY DEF Distinct, VisibleTo
      <3>3. Distinct(VisibleTo(p) \cup pending[q])
        BY <3>2, IdentitiesApart, DistinctUnion
      <3> QED
        BY <3>1, <3>3 DEF Distinct
    <2> QED
      BY <2>2, <2>3
  <1>5. ASSUME NEW q \in Request, Rollback(q) PROVE DistinctRows'
    BY <1>5, <1>shrink DEF Rollback, TypeOK
  <1>6. ASSUME NEW q \in Request,
               \/ ReadHeadForPolicy(q) \/ ReadHeadForEffect(q) \/ ReadHeadForGuardrail(q)
               \/ Begin(q)
        PROVE  DistinctRows'
    BY <1>6, <1>same DEF ReadHeadForPolicy, ReadHeadForEffect, ReadHeadForGuardrail, ReadHead,
                         Begin
  <1>7. ASSUME UNCHANGED vars PROVE DistinctRows'
    BY <1>7, <1>same DEF vars
  <1> QED
    BY <1>1, <1>2, <1>3, <1>4, <1>5, <1>6, <1>7 DEF Next

\* No step makes a choice wrong: a SELECT chooses among distinct rows, an INSERT
\* and a COMMIT bring rows with identities of their own, a ROLLBACK only takes
\* rows that nobody else has seen.
LEMMA StepHeadsChosen ==
    ASSUME IInv, ForkInv, [Next]_vars
    PROVE  HeadsChosen'
  <1> USE DEF IInv, ForkInv, HeadsChosen
  <1>read. ASSUME NEW q \in Request, NEW from, NEW to, ReadHead(q, from, to)
           PROVE  HeadsChosen'
    <2>1. PICK h \in Heads(VisibleTo(q)) : head' = [head EXCEPT ![q] = h]
      BY <1>read DEF ReadHead
    <2>2. VisibleTo(q) \in SUBSET Events
      BY DEF VisibleTo, TypeOK
    <2>3. Chosen(VisibleTo(q), IdsOf(VisibleTo(q)), h)
      BY <2>1, <2>2, HeadIsNewest DEF DistinctRows
    <2>4. /\ seen' = [seen EXCEPT ![q] = IdsOf(VisibleTo(q))]
          /\ committed' = committed /\ pending' = pending
          /\ \A p \in Request : VisibleTo(p)' = VisibleTo(p)
      BY <1>read DEF ReadHead, VisibleTo
    <2> QED
      BY <2>1, <2>3, <2>4 DEF TypeOK
  <1>insert. ASSUME NEW q \in Request, NEW kind \in Kinds, NEW from, NEW to,
                    InsertInTransaction(q, kind, from, to), <<q, kind>> \notin IdsOf(VisibleTo(q))
             PROVE  HeadsChosen'
    <2> DEFINE new == NewEvent(q, kind, beganAt[q])
    <2>1. new.id = <<q, kind>> /\ new.seen = seen[q] /\ new.prev = head[q]
      BY NewEventType DEF TypeOK, NewEvent
    <2>2. /\ pending' = [pending EXCEPT ![q] = @ \cup {new}]
          /\ head' = [head EXCEPT ![q] = Genesis] /\ seen' = [seen EXCEPT ![q] = {}]
          /\ committed' = committed
      BY <1>insert DEF InsertInTransaction, Returned
    <2> HIDE DEF new
    <2>3. /\ VisibleTo(q)' = VisibleTo(q) \cup {new}
          /\ \A p \in Request \ {q} : VisibleTo(p)' = VisibleTo(p)
      BY <2>2 DEF VisibleTo, TypeOK
    <2>4. IdsOf({new}) \cap IdsOf(VisibleTo(q)) = {}
      BY <1>insert, <2>1 DEF IdsOf
    <2>5. \A e \in pending'[q] : Chosen(VisibleTo(q) \cup {new}, e.seen, e.prev)
      BY <2>1, <2>2, <2>4, ChoiceStands DEF TypeOK
    <2> QED
      BY <2>2, <2>3, <2>5, NothingChosen DEF TypeOK
  <1>1. ASSUME NEW q \in Request, InsertPolicyEvent(q) PROVE HeadsChosen'
    <2> DEFINE new == NewEvent(q, "policy", clock')
    <2>1. pc[q] = "policyRead" /\ clock' \in Nat
      BY <1>1 DEF InsertPolicyEvent, TypeOK
    <2>2. new.id = <<q, "policy">> /\ new.seen = seen[q] /\ new.prev = head[q]
      BY <2>1, NewEventType DEF Kinds, NewEvent
    <2>3. /\ committed' = committed \cup {new} /\ pending' = pending
          /\ head' = [head EXCEPT ![q] = Genesis] /\ seen' = [seen EXCEPT ![q] = {}]
      BY <1>1 DEF InsertPolicyEvent, Returned
    <2>4. VisibleTo(q) = committed
      BY <2>1 DEF VisibleTo, RowsInPlace, InTransaction
    <2> HIDE DEF new
    <2>5. IdsOf({new}) \cap IdsOf(committed) = {}
      BY <2>1, <2>2 DEF RowsInPlace, IdsOf
    <2>6. \A e \in committed' : Chosen(committed', e.seen, e.prev)
      BY <2>2, <2>3, <2>4, <2>5, ChoiceStands
    <2>7. ASSUME NEW p \in Request
          PROVE  /\ Chosen(VisibleTo(p)', seen'[p], head'[p])
                 /\ \A e \in pending'[p] : Chosen(VisibleTo(p)', e.seen, e.prev)
      <3>1. VisibleTo(p)' = VisibleTo(p) \cup {new}
        BY <2>3 DEF VisibleTo
      <3>2. IdsOf({new}) \cap IdsOf(VisibleTo(p)) = {}
        BY <2>1, <2>2, IdentitiesApart DEF IdsOf
      <3> QED
        BY <2>3, <3>1, <3>2, ChoiceStands, NothingChosen DEF TypeOK
    <2> QED
      BY <2>6, <2>7
  <1>2. ASSUME NEW q \in Request, InsertEffect(q) PROVE HeadsChosen'
    <2>1. <<q, "effect">> \notin IdsOf(VisibleTo(q))
      BY <1>2, IdentitiesApart DEF InsertEffect, InsertInTransaction
    <2> QED
      BY <1>2, <2>1, <1>insert DEF InsertEffect, Kinds
  <1>3. ASSUME NEW q \in Request, InsertGuardrail(q) PROVE HeadsChosen'
    <2>1. <<q, "guardrail">> \notin IdsOf(VisibleTo(q))
      BY <1>3, IdentitiesApart DEF InsertGuardrail, InsertInTransaction
    <2> QED
      BY <1>3, <2>1, <1>insert DEF InsertGuardrail, Kinds
  <1>4. ASSUME NEW q \in Request, Commit(q) PROVE HeadsChosen'
    <2>1. /\ committed' = VisibleTo(q) /\ pending' = [pending EXCEPT ![q] = {}]
          /\ head' = head /\ seen' = seen
      BY <1>4 DEF Commit, VisibleTo
    <2>2. VisibleTo(q)' = VisibleTo(q) /\ VisibleTo(q) = committed \cup pending[q]
      BY <2>1 DEF VisibleTo, TypeOK
    <2>3. \A e \in committed' : Chosen(VisibleTo(q), e.seen, e.prev)
      <3>1. IdsOf(pending[q]) \cap IdsOf(committed) = {}
        BY IdentitiesApart
      <3>2. \A e \in committed : Chosen(committed \cup pending[q], e.seen, e.prev)
        BY <3>1, ChoiceStands
      <3> QED
        BY <2>1, <2>2, <3>2
    <2>4. ASSUME NEW p \in Request \ {q}
          PROVE  /\ Chosen(VisibleTo(p)', seen'[p], head'[p])
                 /\ \A e \in pending'[p] : Chosen(VisibleTo(p)', e.seen, e.prev)
      <3>1. VisibleTo(p)' = VisibleTo(p) \cup pending[q]
        BY <2>1 DEF VisibleTo, TypeOK
      <3>2. IdsOf(pending[q]) \cap IdsOf(VisibleTo(p)) = {}
        BY IdentitiesApart
      <3> QED
        BY <2>1, <3>1, <3>2, ChoiceStands DEF TypeOK
    <2> QED
      BY <2>1, <2>2, <2>3, <2>4 DEF TypeOK
  <1>5. ASSUME NEW q \in Request, Rollback(q) PROVE HeadsChosen'
    <2>1. /\ committed' = committed /\ pending' = [pending EXCEPT ![q] = {}]
          /\ head' = [head EXCEPT ![q] = Genesis] /\ seen' = [seen EXCEPT ![q] = {}]
      BY <1>5 DEF Rollback, Returned
    <2>2. \A p \in Request \ {q} : VisibleTo(p)' = VisibleTo(p)
      BY <2>1 DEF VisibleTo, TypeOK
    <2> QED
      BY <2>1, <2>2, NothingChosen DEF TypeOK
  <1>6. ASSUME NEW q \in Request,
               \/ ReadHeadForPolicy(q) \/ ReadHeadForEffect(q) \/ ReadHeadForGuardrail(q)
        PROVE  HeadsChosen'
    BY <1>6, <1>read DEF ReadHeadForPolicy, ReadHeadForEffect, ReadHeadForGuardrail
  <1>same. ASSUME UNCHANGED <<committed, pending, head, seen>> PROVE HeadsChosen'
    <2>1. \A p \in Request : VisibleTo(p)' = VisibleTo(p)
      BY <1>same DEF VisibleTo
    <2> QED
      BY <1>same, <2>1
  <1>7. ASSUME NEW q \in Request, Begin(q) PROVE HeadsChosen'
    BY <1>7, <1>same DEF Begin
  <1>8. ASSUME UNCHANGED vars PROVE HeadsChosen'
    BY <1>8, <1>same DEF vars
  <1> QED
    BY <1>1, <1>2, <1>3, <1>4, <1>5, <1>6, <1>7, <1>8 DEF Next

-----------------------------------------------------------------------------
\* Events fork off one predecessor only for the two reasons ForksExplained names,
\* for every set of requests and every order of their statements.
THEOREM ForksAlwaysExplained ==
    Spec => []ForksExplained
  <1>1. IInv /\ ForkInv /\ [Next]_vars => ForkInv'
    BY StepInsertedOnce, StepDistinctRows, StepHeadsChosen DEF ForkInv
  <1>2. IInv /\ ForkInv => ForksExplained
    <2> SUFFICES ASSUME IInv, ForkInv, NEW e \in committed, NEW f \in committed,
                        e.prev = f.prev, e.id \in f.seen
                 PROVE  e.prev # Genesis /\ e.createdAt <= EventOf(e.prev).createdAt
      BY DEF ForksExplained
    <2>1. Newest(committed, f.seen, e.prev)
      BY DEF ForkInv, HeadsChosen, Chosen
    <2>2. e.prev # Genesis
      BY <2>1 DEF Newest
    <2>3. \E y \in committed : y.id = e.prev
      BY <2>2 DEF IInv, LinksResolve, ChainGrounded, IdsOf
    <2>4. EventOf(e.prev) \in committed /\ EventOf(e.prev).id = e.prev
      BY <2>3 DEF EventOf
    <2> QED
      BY <2>1, <2>2, <2>4 DEF Newest
  <1> QED
    BY <1>1, <1>2, InitForkInv, InductiveInvariant, PTL DEF Spec

-----------------------------------------------------------------------------
(***************************************************************************)
(* Links back to a decision.  Induction on the length of a trail is out of *)
(* reach here, so the steps do it: a row is appended once, to rows of      *)
(* which each leads back to what its SELECT saw.                           *)
(***************************************************************************)
Closed(trail) == \A x \in trail : x.prev \in IdsOf(trail) \cup Root

\* Every trail through e comes to d, or to a policy event that missed it.
Leads(e, d, rows) ==
    \A trail \in SUBSET rows :
        e \in trail /\ Closed(trail) => d \in trail \/ \E f \in trail : Missed(d, f)

PolicyRows == {d \in committed : d.id[2] = "policy"}

\* A row that is no policy event is stamped with the start of a transaction in which
\* it was chosen what to link to: every older policy event was visible then.
Informed ==
    /\ \A e \in committed, d \in PolicyRows :
           e.id[2] # "policy" /\ d.createdAt <= e.createdAt => d.id \in e.seen
    /\ \A q \in Request :
        /\ \A e \in pending[q], d \in PolicyRows : d.createdAt <= e.createdAt => d.id \in e.seen
        /\ pc[q] \in {"effectRead", "guardrailRead"} =>
               \A d \in PolicyRows : d.createdAt <= beganAt[q] => d.id \in seen[q]

LeadBack ==
    \A q \in Request : \A e \in VisibleTo(q), d \in PolicyRows :
        d.id \in e.seen => Leads(e, d, VisibleTo(q))

TrailInv == Informed /\ LeadBack

\* What a row leads to stands when rows with other identities come in.
LEMMA LeadsStands ==
    ASSUME NEW rows, NEW more, NEW e \in rows, NEW d, Leads(e, d, rows), Closed(rows),
           IdsOf(more) \cap IdsOf(rows) = {}
    PROVE  Leads(e, d, rows \cup more)
  <1> SUFFICES ASSUME NEW trail \in SUBSET (rows \cup more), e \in trail, Closed(trail)
               PROVE  d \in trail \/ \E f \in trail : Missed(d, f)
    BY DEF Leads
  <1> DEFINE kept == trail \cap rows
  <1>1. ASSUME NEW x \in kept PROVE x.prev \in IdsOf(kept) \cup Root
    <2>1. CASE x.prev \in Root
      BY <2>1
    <2>2. CASE x.prev \notin Root
      <3>1. PICK y \in trail : y.id = x.prev
        BY <2>2 DEF Closed, IdsOf
      <3>2. x.prev \in IdsOf(rows)
        BY <2>2 DEF Closed
      <3>3. y \in rows
        BY <3>1, <3>2 DEF IdsOf
      <3> QED
        BY <3>1, <3>3 DEF IdsOf
    <2> QED
      BY <2>1, <2>2
  <1>2. Closed(kept)
    BY <1>1 DEF Closed
  <1> QED
    BY <1>2 DEF Leads

\* A new row leads where the row it links to leads.
LEMMA LinkLeads ==
    ASSUME NEW rows, NEW new, NEW h \in rows, NEW d, Closed(rows), Distinct(rows),
           new.id \notin IdsOf(rows), new.prev = h.id, h.id # Genesis,
           h = d \/ Missed(d, h) \/ Leads(h, d, rows)
    PROVE  Leads(new, d, rows \cup {new})
  <1> SUFFICES ASSUME NEW trail \in SUBSET (rows \cup {new}), new \in trail, Closed(trail)
               PROVE  d \in trail \/ \E f \in trail : Missed(d, f)
    BY DEF Leads
  <1>1. PICK y \in trail : y.id = h.id
    BY DEF Closed, IdsOf, Root
  <1>2. y \in rows
    BY <1>1 DEF IdsOf
  <1>3. h \in trail
    BY <1>1, <1>2 DEF Distinct
  <1>4. CASE Leads(h, d, rows)
    <2>1. IdsOf({new}) \cap IdsOf(rows) = {}
      BY DEF IdsOf
    <2>2. Leads(h, d, rows \cup {new})
      BY <1>4, <2>1, LeadsStands
    <2> QED
      BY <1>3, <2>2 DEF Leads
  <1> QED
    BY <1>3, <1>4

\* What a request sees is closed under links.
LEMMA ViewsClosed ==
    ASSUME IInv, NEW q \in Request
    PROVE  Closed(VisibleTo(q))
  BY DEF IInv, LinksResolve, ChainGrounded, Closed, VisibleTo, IdsOf, Root

\* The head a request holds is a row that leads to every policy event it saw, is that
\* event, or missed it: only a policy event can sort behind one it has not seen.
LEMMA HeadLeads ==
    ASSUME IInv, ForkInv, TrailInv, NEW q \in Request,
           NEW d \in PolicyRows, d.id \in seen[q]
    PROVE  \E h \in VisibleTo(q) :
               /\ head[q] = h.id /\ h.id # Genesis
               /\ h = d \/ Missed(d, h) \/ d.id \in h.seen
  <1>1. Chosen(VisibleTo(q), seen[q], head[q]) /\ d \in VisibleTo(q)
    BY DEF ForkInv, HeadsChosen, PolicyRows, VisibleTo
  <1>2. head[q] # Genesis
    BY <1>1 DEF Chosen, Newest
  <1>3. PICK h \in VisibleTo(q) : h.id = head[q]
    BY <1>1, <1>2 DEF Chosen, IdsOf, Root
  <1>4. d.createdAt <= h.createdAt
    BY <1>1, <1>3 DEF Chosen, Newest
  <1>5. h.id[2] = "policy" \/ d.id \in h.seen
    BY <1>4 DEF TrailInv, Informed, VisibleTo
  <1> QED
    BY <1>2, <1>3, <1>4, <1>5 DEF Missed

\* A transaction inserts no policy event.
LEMMA NoPolicyPending ==
    ASSUME IInv, NEW q \in Request, NEW e \in pending[q]
    PROVE  e.id[2] # "policy"
  <1>1. e.id = <<q, "effect">> \/ e.id = <<q, "guardrail">>
    BY DEF IInv, RowsInPlace
  <1> QED
    BY <1>1

\* There is no row.
LEMMA InitTrailInv == Init => TrailInv
  BY DEF Init, TrailInv, Informed, LeadBack, PolicyRows, VisibleTo

\* A policy event is stamped later than everything that has been chosen without it.
LEMMA StepInformed ==
    ASSUME IInv, Ordered, Informed, [Next]_vars
    PROVE  Informed'
  <1> USE DEF IInv, Informed, InTransaction
  <1>read. ASSUME NEW q \in Request, NEW from, NEW to, ReadHead(q, from, to)
           PROVE  Informed'
    <2>1. \A d \in PolicyRows : d.id \in IdsOf(VisibleTo(q))
      BY DEF PolicyRows, VisibleTo, IdsOf
    <2>2. /\ seen' = [seen EXCEPT ![q] = IdsOf(VisibleTo(q))]
          /\ pc' = [pc EXCEPT ![q] = to]
          /\ UNCHANGED <<committed, pending, beganAt>>
          /\ PolicyRows' = PolicyRows
      BY <1>read DEF ReadHead, PolicyRows
    <2> QED
      BY <2>1, <2>2 DEF TypeOK
  <1>insert. ASSUME NEW q \in Request, NEW kind \in Kinds, NEW to \in {"effectDone", "guardrailDone"},
                    NEW from \in {"effectRead", "guardrailRead"},
                    InsertInTransaction(q, kind, from, to)
             PROVE  Informed'
    <2> DEFINE new == NewEvent(q, kind, beganAt[q])
    <2>1. new.createdAt = beganAt[q] /\ new.seen = seen[q]
      BY DEF NewEvent
    <2>2. /\ pc[q] = from /\ pc' = [pc EXCEPT ![q] = to]
          /\ pending' = [pending EXCEPT ![q] = @ \cup {new}]
          /\ seen' = [seen EXCEPT ![q] = {}]
          /\ UNCHANGED <<committed, beganAt>>
          /\ PolicyRows' = PolicyRows
      BY <1>insert DEF InsertInTransaction, Returned, PolicyRows
    <2> HIDE DEF new
    <2>3. \A e \in pending'[q], d \in PolicyRows : d.createdAt <= e.createdAt => d.id \in e.seen
      BY <2>1, <2>2 DEF TypeOK
    <2> QED
      BY <2>2, <2>3 DEF TypeOK
  <1>1. ASSUME NEW q \in Request, InsertPolicyEvent(q) PROVE Informed'
    <2> DEFINE new == NewEvent(q, "policy", clock')
    <2>1. pc[q] = "policyRead" /\ clock' = clock + 1 /\ clock \in Nat
      BY <1>1 DEF InsertPolicyEvent, TypeOK
    <2>2. new.id = <<q, "policy">> /\ new.createdAt = clock + 1
      BY <2>1 DEF NewEvent
    <2>3. PICK verdict \in {"permitted", "denied"} : pc' = [pc EXCEPT ![q] = verdict]
      BY <1>1 DEF InsertPolicyEvent
    <2>4. /\ committed' = committed \cup {new}
          /\ seen' = [seen EXCEPT ![q] = {}]
          /\ UNCHANGED <<pending, beganAt>>
      BY <1>1 DEF InsertPolicyEvent, Returned
    <2> HIDE DEF new
    <2>5. PolicyRows' = PolicyRows \cup {new}
      BY <2>2, <2>4 DEF PolicyRows
    <2>6. \A e \in committed : e.createdAt \in Nat /\ ~(clock + 1 <= e.createdAt)
      BY <2>1 DEF Ordered, TypeOK, Events
    <2>7. \A p \in Request : pc[p] \in InTransaction =>
              beganAt[p] \in Nat /\ ~(clock + 1 <= beganAt[p])
      BY <2>1 DEF Ordered, TypeOK
    <2>8. \A p \in Request : \A e \in pending[p] : ~(clock + 1 <= e.createdAt)
      BY <2>7 DEF Ordered, RowsInPlace
    <2>9. ASSUME NEW e \in committed', NEW d \in PolicyRows', e.id[2] # "policy",
                 d.createdAt <= e.createdAt
          PROVE  d.id \in e.seen
      BY <2>2, <2>4, <2>5, <2>6, <2>9
    <2>10. ASSUME NEW p \in Request, NEW e \in pending'[p], NEW d \in PolicyRows',
                  d.createdAt <= e.createdAt
           PROVE  d.id \in e.seen
      BY <2>2, <2>4, <2>5, <2>8, <2>10
    <2>11. ASSUME NEW p \in Request, pc'[p] \in {"effectRead", "guardrailRead"},
                  NEW d \in PolicyRows', d.createdAt <= beganAt'[p]
           PROVE  d.id \in seen'[p]
      <3>1. p # q /\ pc'[p] = pc[p] /\ seen'[p] = seen[p]
        BY <2>3, <2>4, <2>11 DEF TypeOK
      <3> QED
        BY <2>2, <2>4, <2>5, <2>7, <2>11, <3>1
    <2> QED
      BY <2>9, <2>10, <2>11
  <1>2. ASSUME NEW q \in Request, Begin(q) PROVE Informed'
    <2>1. PolicyRows' = PolicyRows
      BY <1>2 DEF Begin, PolicyRows
    <2> QED
      BY <1>2, <2>1 DEF Begin, TypeOK
  <1>3. ASSUME NEW q \in Request, Commit(q) PROVE Informed'
    <2>1. /\ committed' = committed \cup pending[q] /\ pending' = [pending EXCEPT ![q] = {}]
          /\ pc' = [pc EXCEPT ![q] = "committed"] /\ seen' = seen
          /\ beganAt' = [beganAt EXCEPT ![q] = 0]
      BY <1>3 DEF Commit
    <2>2. \A e \in pending[q] : e.id[2] # "policy"
      BY NoPolicyPending
    <2>3. PolicyRows' = PolicyRows
      BY <2>1, <2>2 DEF PolicyRows
    <2> QED
      BY <2>1, <2>3 DEF TypeOK
  <1>4. ASSUME NEW q \in Request, Rollback(q) PROVE Informed'
    <2>1. PolicyRows' = PolicyRows
      BY <1>4 DEF Rollback, PolicyRows
    <2> QED
      BY <1>4, <2>1 DEF Rollback, Returned, TypeOK
  <1>5. ASSUME UNCHANGED vars PROVE Informed'
    BY <1>5 DEF vars, PolicyRows
  <1>6. ASSUME NEW q \in Request,
               \/ ReadHeadForPolicy(q) \/ ReadHeadForEffect(q) \/ ReadHeadForGuardrail(q)
        PROVE  Informed'
    BY <1>6, <1>read DEF ReadHeadForPolicy, ReadHeadForEffect, ReadHeadForGuardrail
  <1>7. ASSUME NEW q \in Request, InsertEffect(q) \/ InsertGuardrail(q) PROVE Informed'
    BY <1>7, <1>insert DEF InsertEffect, InsertGuardrail, Kinds
  <1> QED
    BY <1>1, <1>2, <1>3, <1>4, <1>5, <1>6, <1>7 DEF Next

\* A row that comes in leads to what its SELECT saw, and takes no other off its way.
LEMMA StepLeadBack ==
    ASSUME IInv, ForkInv, TrailInv, [Next]_vars
    PROVE  LeadBack'
  <1> USE DEF IInv, ForkInv, TrailInv, LeadBack
  <1>less. ASSUME committed' = committed, \A p \in Request : pending'[p] \subseteq pending[p]
           PROVE  LeadBack'
    <2>1. PolicyRows' = PolicyRows /\ \A p \in Request : VisibleTo(p)' \subseteq VisibleTo(p)
      BY <1>less DEF PolicyRows, VisibleTo
    <2>2. \A p \in Request : \A e \in VisibleTo(p)', d \in PolicyRows :
              d.id \in e.seen => Leads(e, d, VisibleTo(p)')
      BY <2>1 DEF Leads
    <2> QED
      BY <2>1, <2>2 DEF Leads
  \* What q's new row comes to, for a view that holds all that q has seen.
  <1>new. ASSUME NEW q \in Request, NEW p \in Request, VisibleTo(q) \subseteq VisibleTo(p),
                 NEW new, new.prev = head[q], new.id \notin IdsOf(VisibleTo(p)),
                 NEW d \in PolicyRows, d.id \in seen[q]
          PROVE  Leads(new, d, VisibleTo(p) \cup {new})
    <2>1. PICK h \in VisibleTo(q) : /\ head[q] = h.id /\ h.id # Genesis
                                    /\ h = d \/ Missed(d, h) \/ d.id \in h.seen
      BY HeadLeads, <1>new
    <2>2. h = d \/ Missed(d, h) \/ Leads(h, d, VisibleTo(p))
      BY <2>1, <1>new
    <2> QED
      BY <1>new, <2>1, <2>2, ViewsClosed, LinkLeads DEF DistinctRows
  <1>insert. ASSUME NEW q \in Request, NEW kind \in Kinds, NEW from, NEW to,
                    InsertInTransaction(q, kind, from, to), <<q, kind>> \notin IdsOf(VisibleTo(q))
             PROVE  LeadBack'
    <2> DEFINE new == NewEvent(q, kind, beganAt[q])
    <2>1. new.id = <<q, kind>> /\ new.seen = seen[q] /\ new.prev = head[q]
      BY NewEventType DEF TypeOK, NewEvent
    <2>2. pending' = [pending EXCEPT ![q] = @ \cup {new}] /\ committed' = committed
      BY <1>insert DEF InsertInTransaction
    <2> HIDE DEF new
    <2>3. /\ VisibleTo(q)' = VisibleTo(q) \cup {new}
          /\ \A p \in Request \ {q} : VisibleTo(p)' = VisibleTo(p)
          /\ PolicyRows' = PolicyRows
      BY <2>2 DEF VisibleTo, TypeOK, PolicyRows
    <2>4. IdsOf({new}) \cap IdsOf(VisibleTo(q)) = {}
      BY <1>insert, <2>1 DEF IdsOf
    <2>5. ASSUME NEW e \in VisibleTo(q) \cup {new}, NEW d \in PolicyRows, d.id \in e.seen
          PROVE  Leads(e, d, VisibleTo(q) \cup {new})
      <3>1. CASE e \in VisibleTo(q)
        BY <2>4, <2>5, <3>1, ViewsClosed, LeadsStands
      <3>2. CASE e = new
        BY <1>new, <1>insert, <2>1, <2>5, <3>2
      <3> QED
        BY <3>1, <3>2
    <2>6. \A p \in Request : \A e \in VisibleTo(p)', d \in PolicyRows :
              d.id \in e.seen => Leads(e, d, VisibleTo(p)')
      BY <2>3, <2>5
    <2> QED
      BY <2>3, <2>6 DEF Leads
  <1>1. ASSUME NEW q \in Request, InsertPolicyEvent(q) PROVE LeadBack'
    <2> DEFINE new == NewEvent(q, "policy", clock')
    <2>1. pc[q] = "policyRead" /\ clock' \in Nat
      BY <1>1 DEF InsertPolicyEvent, TypeOK
    <2>2. new.id = <<q, "policy">> /\ new.seen = seen[q] /\ new.prev = head[q]
      BY <2>1, NewEventType DEF Kinds, NewEvent
    <2>3. committed' = committed \cup {new} /\ pending' = pending
      BY <1>1 DEF InsertPolicyEvent
    <2>4. VisibleTo(q) = committed
      BY <2>1 DEF VisibleTo, RowsInPlace, InTransaction
    <2> HIDE DEF new
    <2>5. PolicyRows' = PolicyRows \cup {new}
      BY <2>2, <2>3 DEF PolicyRows
    <2>6. ASSUME NEW p \in Request, NEW e \in VisibleTo(p) \cup {new},
                 NEW d \in PolicyRows \cup {new}, d.id \in e.seen
          PROVE  Leads(e, d, VisibleTo(p) \cup {new})
      <3>1. new.id \notin IdsOf(VisibleTo(p)) /\ IdsOf({new}) \cap IdsOf(VisibleTo(p)) = {}
        BY <2>1, <2>2, IdentitiesApart DEF IdsOf
      <3>2. new.id \notin IdsOf(committed)
        BY <3>1 DEF VisibleTo, IdsOf
      <3>3. seen[q] \subseteq IdsOf(committed)
        BY <2>4 DEF HeadsChosen, Chosen
      <3>4. \A x \in VisibleTo(p) : x.seen \subseteq IdsOf(VisibleTo(p))
        <4>1. \A x \in committed : x.seen \subseteq IdsOf(committed)
          BY DEF HeadsChosen, Chosen
        <4>2. \A x \in pending[p] : x.seen \subseteq IdsOf(VisibleTo(p))
          BY DEF HeadsChosen, Chosen
        <4> QED
          BY <4>1, <4>2 DEF VisibleTo, IdsOf
      <3>5. d \in PolicyRows
        BY <2>2, <2>6, <3>1, <3>2, <3>3, <3>4
      <3>6. CASE e \in VisibleTo(p)
        BY <2>6, <3>1, <3>5, <3>6, ViewsClosed, LeadsStands
      <3>7. CASE e = new
        <4>1. VisibleTo(q) \subseteq VisibleTo(p)
          BY <2>4 DEF VisibleTo
        <4> QED
          BY <1>new, <2>2, <2>6, <3>1, <3>5, <3>7, <4>1
      <3> QED
        BY <3>6, <3>7
    <2>7. \A p \in Request : VisibleTo(p)' = VisibleTo(p) \cup {new}
      BY <2>3 DEF VisibleTo
    <2>8. \A p \in Request : \A e \in VisibleTo(p)', d \in PolicyRows' :
              d.id \in e.seen => Leads(e, d, VisibleTo(p)')
      BY <2>5, <2>6, <2>7
    <2> QED
      BY <2>8 DEF Leads
  <1>2. ASSUME NEW q \in Request, Commit(q) PROVE LeadBack'
    <2>1. committed' = VisibleTo(q) /\ pending' = [pending EXCEPT ![q] = {}]
      BY <1>2 DEF Commit, VisibleTo
    <2>2. \A e \in pending[q] : e.id[2] # "policy"
      BY NoPolicyPending
    <2>3. PolicyRows' = PolicyRows
      BY <2>1, <2>2 DEF PolicyRows, VisibleTo
    <2>4. VisibleTo(q)' = VisibleTo(q)
      BY <2>1 DEF VisibleTo, TypeOK
    <2>5. ASSUME NEW p \in Request \ {q}, NEW e \in VisibleTo(p)', NEW d \in PolicyRows, d.id \in e.seen
          PROVE  Leads(e, d, VisibleTo(p)')
      <3>1. /\ VisibleTo(p)' = VisibleTo(p) \cup pending[q]
            /\ VisibleTo(p)' = VisibleTo(q) \cup pending[p]
        BY <2>1 DEF VisibleTo, TypeOK
      <3>2. CASE e \in VisibleTo(p)
        <4>1. IdsOf(pending[q]) \cap IdsOf(VisibleTo(p)) = {}
          BY IdentitiesApart
        <4> QED
          BY <2>5, <3>1, <3>2, <4>1, ViewsClosed, LeadsStands
      <3>3. CASE e \in pending[q]
        <4>1. IdsOf(pending[p]) \cap IdsOf(VisibleTo(q)) = {}
          BY IdentitiesApart
        <4>2. e \in VisibleTo(q)
          BY <3>3 DEF VisibleTo
        <4> QED
          BY <2>5, <3>1, <4>1, <4>2, ViewsClosed, LeadsStands
      <3> QED
        BY <3>1, <3>2, <3>3
    <2>6. \A p \in Request : \A e \in VisibleTo(p)', d \in PolicyRows :
              d.id \in e.seen => Leads(e, d, VisibleTo(p)')
      BY <2>4, <2>5
    <2> QED
      BY <2>3, <2>6 DEF Leads
  <1>3. ASSUME NEW q \in Request, Rollback(q) PROVE LeadBack'
    BY <1>3, <1>less DEF Rollback, TypeOK
  <1>4. ASSUME NEW q \in Request, InsertEffect(q) PROVE LeadBack'
    <2>1. <<q, "effect">> \notin IdsOf(VisibleTo(q))
      BY <1>4, IdentitiesApart DEF InsertEffect, InsertInTransaction
    <2> QED
      BY <1>4, <2>1, <1>insert DEF InsertEffect, Kinds
  <1>5. ASSUME NEW q \in Request, InsertGuardrail(q) PROVE LeadBack'
    <2>1. <<q, "guardrail">> \notin IdsOf(VisibleTo(q))
      BY <1>5, IdentitiesApart DEF InsertGuardrail, InsertInTransaction
    <2> QED
      BY <1>5, <2>1, <1>insert DEF InsertGuardrail, Kinds
  <1>6. ASSUME NEW q \in Request,
               \/ ReadHeadForPolicy(q) \/ ReadHeadForEffect(q) \/ ReadHeadForGuardrail(q)
               \/ Begin(q)
        PROVE  LeadBack'
    BY <1>6, <1>less DEF ReadHeadForPolicy, ReadHeadForEffect, ReadHeadForGuardrail, ReadHead,
                         Begin
  <1>7. ASSUME UNCHANGED vars PROVE LeadBack'
    BY <1>7, <1>less DEF vars
  <1> QED
    BY <1>1, <1>2, <1>3, <1>4, <1>5, <1>6, <1>7 DEF Next

\* For every set of requests: the policy event of a governed effect is stamped
\* strictly before it, and following the links back from the effect comes to it,
\* or to the policy event of another call whose append overlapped its own.
THEOREM PolicyAlwaysFirst == Spec => []PolicyPrecedesEffect
  <1>1. IInv /\ Ordered /\ ForkInv /\ TrailInv /\ [Next]_vars => ForkInv' /\ TrailInv'
    BY StepInsertedOnce, StepDistinctRows, StepHeadsChosen, StepInformed, StepLeadBack
       DEF ForkInv, TrailInv
  <1>2. IInv /\ Ordered /\ TrailInv => PolicyPrecedesEffect
    <2> SUFFICES ASSUME IInv, Ordered, TrailInv, NEW e \in committed,
                        e.id[2] # "policy", e.id[1] \notin Comparisons
                 PROVE  \E d \in committed :
                            /\ d.id = <<e.id[1], "policy">>
                            /\ d.createdAt < e.createdAt
                            /\ \A trail \in Trails :
                                   e \in trail => d \in trail \/ \E f \in trail : Missed(d, f)
      BY DEF PolicyPrecedesEffect
    <2>1. PICK d \in committed : /\ d.id = <<e.id[1], "policy">> /\ d.id \in e.seen
                                 /\ d.createdAt < e.createdAt
      BY DEF Ordered, PolicySeen
    <2>2. e.id[1] \in Request
      BY DEF IInv, TypeOK, Events, Id
    <2>3. d \in PolicyRows /\ e \in VisibleTo(e.id[1])
      BY <2>1 DEF PolicyRows, VisibleTo
    <2>4. Leads(e, d, VisibleTo(e.id[1]))
      BY <2>1, <2>2, <2>3 DEF TrailInv, LeadBack
    <2>5. ASSUME NEW trail \in Trails, e \in trail
          PROVE  d \in trail \/ \E f \in trail : Missed(d, f)
      <3>1. trail \in SUBSET VisibleTo(e.id[1]) /\ Closed(trail)
        BY DEF Trails, VisibleTo, Closed, Root
      <3> QED
        BY <2>4, <2>5, <3>1 DEF Leads
    <2> QED
      BY <2>1, <2>5
  <1> QED
    BY <1>1, <1>2, InitForkInv, InitTrailInv, InitOrdered, StepOrdered, InductiveInvariant,
       PTL DEF Spec
=============================================================================
