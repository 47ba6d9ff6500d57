----------------------- MODULE GovernanceChainProofs -----------------------
(***************************************************************************)
(* For any set of requests: the governance ledger is well typed, every     *)
(* link in it resolves, an effect was appended by a statement that saw its *)
(* policy event, and the ledger implements AuditForest.                    *)
(***************************************************************************)
EXTENDS GovernanceChain, TLAPS

Root == {Genesis}

-----------------------------------------------------------------------------
(***************************************************************************)
(* The inductive invariant.  A link is chosen when the head is read and    *)
(* published much later, so what must be kept is where every hash that a   *)
(* transaction holds can be found: among the rows that transaction sees.   *)
(***************************************************************************)
\* The hash a request holds, the rows it has inserted and the published rows all
\* link to rows the request sees.
LinksResolve ==
    /\ ChainGrounded
    /\ \A q \in Request :
        /\ head[q] \in IdsOf(VisibleTo(q)) \cup Root
        /\ \A e \in pending[q] : e.prev \in IdsOf(VisibleTo(q)) \cup Root

\* Rows are where their request's stage says: this makes identities unique.
RowsInPlace ==
    \A q \in Request :
        /\ \A e \in pending[q] : e.id \in {<<q, "effect">>, <<q, "guardrail">>}
        /\ pc[q] \notin InTransaction => pending[q] = {}
        /\ pc[q] \in {"idle", "policyRead"} => <<q, "policy">> \notin IdsOf(committed)
        /\ pc[q] # "committed" =>
            /\ <<q, "effect">> \notin IdsOf(committed)
            /\ <<q, "guardrail">> \notin IdsOf(committed)

IInv == TypeOK /\ LinksResolve /\ RowsInPlace

-----------------------------------------------------------------------------
\* The newest row is one of the rows, and an empty table gives the root.
LEMMA HeadsAreVisible ==
    ASSUME NEW events
    PROVE  Heads(events) \subseteq IdsOf(events) \cup Root
  BY DEF Heads, IdsOf, Root

\* An inserted row is an event that carries the hash its request held.
LEMMA NewEventType ==
    ASSUME TypeOK, NEW q \in Request, NEW kind \in Kinds, NEW createdAt \in Nat
    PROVE  /\ NewEvent(q, kind, createdAt) \in Events
           /\ NewEvent(q, kind, createdAt).id = <<q, kind>>
           /\ NewEvent(q, kind, createdAt).prev = head[q]
  BY DEF TypeOK, NewEvent, Events, Id

-----------------------------------------------------------------------------
\* An empty ledger has the types.
LEMMA InitTypeOK == Init => TypeOK
  BY DEF Init, TypeOK, Stages, Events

\* No append, COMMIT or rollback leaves the types.
LEMMA StepTypeOK == TypeOK /\ [Next]_vars => TypeOK'
  <1> SUFFICES ASSUME TypeOK, [Next]_vars PROVE TypeOK'
    OBVIOUS
  <1> USE DEF TypeOK, Stages
  <1>heads. ASSUME NEW q \in Request, NEW h \in Heads(VisibleTo(q))
            PROVE  h \in Id \cup {Genesis} /\ IdsOf(VisibleTo(q)) \subseteq Id
    <2>1. VisibleTo(q) \subseteq Events
      BY DEF VisibleTo
    <2>2. IdsOf(VisibleTo(q)) \subseteq Id
      BY <2>1 DEF IdsOf, Events
    <2> QED
      BY <2>2, HeadsAreVisible DEF Root
  <1>read. ASSUME NEW q \in Request, NEW from \in Stages, NEW to \in Stages, ReadHead(q, from, to)
           PROVE  TypeOK'
    BY <1>read, <1>heads DEF ReadHead
  <1>insert. ASSUME NEW q \in Request, NEW kind \in Kinds, NEW from \in Stages, NEW to \in Stages,
                    InsertInTransaction(q, kind, from, to)
             PROVE  TypeOK'
    <2>1. NewEvent(q, kind, beganAt[q]) \in Events
      BY NewEventType
    <2> QED
      BY <1>insert, <2>1 DEF InsertInTransaction, Returned
  <1>1. ASSUME NEW q \in Request, ReadHeadForPolicy(q) PROVE TypeOK'
    BY <1>1, <1>read DEF ReadHeadForPolicy
  <1>2. ASSUME NEW q \in Request, InsertPolicyEvent(q) PROVE TypeOK'
    <2>1. clock' \in Nat /\ NewEvent(q, "policy", clock') \in Events
      BY <1>2, NewEventType DEF InsertPolicyEvent, Kinds
    <2> QED
      BY <1>2, <2>1 DEF InsertPolicyEvent, Returned
  <1>3. ASSUME NEW q \in Request, Begin(q) PROVE TypeOK'
    BY <1>3 DEF Begin
  <1>4. ASSUME NEW q \in Request, ReadHeadForEffect(q) PROVE TypeOK'
    BY <1>4, <1>read DEF ReadHeadForEffect
  <1>5. ASSUME NEW q \in Request, InsertEffect(q) PROVE TypeOK'
    BY <1>5, <1>insert DEF InsertEffect, Kinds
  <1>6. ASSUME NEW q \in Request, ReadHeadForGuardrail(q) PROVE TypeOK'
    BY <1>6, <1>read DEF ReadHeadForGuardrail
  <1>7. ASSUME NEW q \in Request, InsertGuardrail(q) PROVE TypeOK'
    BY <1>7, <1>insert DEF InsertGuardrail, Kinds
  <1>8. ASSUME NEW q \in Request, Commit(q) PROVE TypeOK'
    BY <1>8 DEF Commit
  <1>9. ASSUME NEW q \in Request, Rollback(q) PROVE TypeOK'
    BY <1>9 DEF Rollback, Returned
  <1>10. CASE UNCHANGED vars
    BY <1>10 DEF vars
  <1> QED
    BY <1>1, <1>2, <1>3, <1>4, <1>5, <1>6, <1>7, <1>8, <1>9, <1>10 DEF Next

\* The variables of the chain stay in their types: TypeOK of the checked runs,
\* for every set of requests.
THEOREM TypeCorrect == Spec => []TypeOK
  BY InitTypeOK, StepTypeOK, PTL DEF Spec

-----------------------------------------------------------------------------
\* No request has inserted a row yet.
LEMMA InitRowsInPlace == Init => RowsInPlace
  BY DEF Init, RowsInPlace, IdsOf

\* A request's rows become visible under its own identities only, and only as it
\* leaves the stage that allows them.
LEMMA StepRowsInPlace == TypeOK /\ RowsInPlace /\ [Next]_vars => RowsInPlace'
  <1> SUFFICES ASSUME TypeOK, RowsInPlace, [Next]_vars PROVE RowsInPlace'
    OBVIOUS
  <1> USE DEF RowsInPlace, InTransaction, IdsOf
  <1>read. ASSUME NEW q \in Request, ReadHead(q, "begun", "effectRead")
                                      \/ ReadHead(q, "effectDone", "guardrailRead")
                                      \/ ReadHead(q, "idle", "policyRead")
           PROVE  RowsInPlace'
    BY <1>read DEF ReadHead, TypeOK
  <1>insert. ASSUME NEW q \in Request, NEW kind \in {"effect", "guardrail"},
                    NEW from \in InTransaction, NEW to \in InTransaction,
                    InsertInTransaction(q, kind, from, to)
             PROVE  RowsInPlace'
    <2> DEFINE new == NewEvent(q, kind, beganAt[q])
    <2>1. new.id = <<q, kind>>
      BY NewEventType DEF TypeOK, Kinds
    <2>2. /\ pc[q] \in InTransaction
          /\ pending' = [pending EXCEPT ![q] = @ \cup {new}]
          /\ pc' = [pc EXCEPT ![q] = to]
          /\ committed' = committed
      BY <1>insert DEF InsertInTransaction
    <2> HIDE DEF new
    <2> QED
      BY <2>1, <2>2 DEF TypeOK
  <1>1. ASSUME NEW q \in Request, ReadHeadForPolicy(q) PROVE RowsInPlace'
    BY <1>1, <1>read DEF ReadHeadForPolicy
  <1>2. ASSUME NEW q \in Request, InsertPolicyEvent(q) PROVE RowsInPlace'
    <2> DEFINE new == NewEvent(q, "policy", clock')
    <2>1. pc[q] = "policyRead" /\ clock' \in Nat
      BY <1>2 DEF InsertPolicyEvent, TypeOK
    <2>2. new.id = <<q, "policy">>
      BY <2>1, NewEventType DEF Kinds
    <2>3. PICK verdict \in {"permitted", "denied"} : pc' = [pc EXCEPT ![q] = verdict]
      BY <1>2 DEF InsertPolicyEvent
    <2>4. committed' = committed \cup {new} /\ pending' = pending
      BY <1>2 DEF InsertPolicyEvent
    <2> HIDE DEF new
    <2>5. IdsOf(committed') = IdsOf(committed) \cup {<<q, "policy">>}
      BY <2>2, <2>4
    <2> QED
      BY <2>1, <2>3, <2>4, <2>5 DEF TypeOK
  <1>3. ASSUME NEW q \in Request, Begin(q) PROVE RowsInPlace'
    <2>1. pc[q] \in {"idle", "permitted"}
      BY <1>3 DEF Begin
    <2> QED
      BY <1>3, <2>1 DEF Begin, TypeOK
  <1>4. ASSUME NEW q \in Request, ReadHeadForEffect(q) PROVE RowsInPlace'
    BY <1>4, <1>read DEF ReadHeadForEffect
  <1>5. ASSUME NEW q \in Request, InsertEffect(q) PROVE RowsInPlace'
    BY <1>5, <1>insert DEF InsertEffect
  <1>6. ASSUME NEW q \in Request, ReadHeadForGuardrail(q) PROVE RowsInPlace'
    BY <1>6, <1>read DEF ReadHeadForGuardrail
  <1>7. ASSUME NEW q \in Request, InsertGuardrail(q) PROVE RowsInPlace'
    BY <1>7, <1>insert DEF InsertGuardrail
  <1>8. ASSUME NEW q \in Request, Commit(q) PROVE RowsInPlace'
    <2>1. /\ committed' = committed \cup pending[q]
          /\ pending' = [pending EXCEPT ![q] = {}]
          /\ pc[q] \in InTransaction
          /\ pc' = [pc EXCEPT ![q] = "committed"]
      BY <1>8 DEF Commit
    <2>2. IdsOf(committed') \subseteq IdsOf(committed) \cup {<<q, "effect">>, <<q, "guardrail">>}
      BY <2>1
    <2> QED
      BY <2>1, <2>2 DEF TypeOK
  <1>9. ASSUME NEW q \in Request, Rollback(q) PROVE RowsInPlace'
    BY <1>9 DEF Rollback, TypeOK
  <1>10. CASE UNCHANGED vars
    BY <1>10 DEF vars
  <1> QED
    BY <1>1, <1>2, <1>3, <1>4, <1>5, <1>6, <1>7, <1>8, <1>9, <1>10 DEF Next

-----------------------------------------------------------------------------
\* There is no link yet.
LEMMA InitLinksResolve == Init => LinksResolve
  BY DEF Init, LinksResolve, ChainGrounded, IdsOf, VisibleTo, Root

\* Publishing never takes a row away from anybody: if each request's rows and the
\* published ones only grow, every link that resolved still does.
LEMMA StepLinksResolve == IInv /\ [Next]_vars => LinksResolve'
  <1> SUFFICES ASSUME TypeOK, LinksResolve, RowsInPlace, [Next]_vars PROVE LinksResolve'
    BY DEF IInv
  <1> USE DEF LinksResolve, ChainGrounded, VisibleTo, IdsOf, Root
  <1>read. ASSUME NEW q \in Request, NEW from \in Stages, NEW to \in Stages, ReadHead(q, from, to)
           PROVE  LinksResolve'
    <2>1. PICK h \in Heads(VisibleTo(q)) : head' = [head EXCEPT ![q] = h]
      BY <1>read DEF ReadHead
    <2>2. h \in IdsOf(VisibleTo(q)) \cup Root
      BY <2>1, HeadsAreVisible
    <2> QED
      BY <1>read, <2>1, <2>2 DEF ReadHead, TypeOK
  <1>insert. ASSUME NEW q \in Request, NEW kind \in Kinds, NEW from \in Stages, NEW to \in Stages,
                    InsertInTransaction(q, kind, from, to)
             PROVE  LinksResolve'
    <2> DEFINE new == NewEvent(q, kind, beganAt[q])
    <2>1. new.prev = head[q]
      BY NewEventType DEF TypeOK
    <2>2. /\ pending' = [pending EXCEPT ![q] = @ \cup {new}]
          /\ head' = [head EXCEPT ![q] = Genesis]
          /\ committed' = committed
      BY <1>insert DEF InsertInTransaction, Returned
    <2> HIDE DEF new
    <2> QED
      BY <2>1, <2>2 DEF TypeOK
  <1>1. ASSUME NEW q \in Request, ReadHeadForPolicy(q) PROVE LinksResolve'
    BY <1>1, <1>read DEF ReadHeadForPolicy, Stages
  <1>2. ASSUME NEW q \in Request, InsertPolicyEvent(q) PROVE LinksResolve'
    <2> DEFINE new == NewEvent(q, "policy", clock')
    <2>1. pc[q] = "policyRead" /\ clock' \in Nat
      BY <1>2 DEF InsertPolicyEvent, TypeOK
    <2>2. new.prev = head[q]
      BY <2>1, NewEventType DEF Kinds
    <2>3. /\ committed' = committed \cup {new}
          /\ head' = [head EXCEPT ![q] = Genesis]
          /\ pending' = pending
      BY <1>2 DEF InsertPolicyEvent, Returned
    <2>4. pending[q] = {}
      BY <2>1 DEF RowsInPlace, InTransaction
    <2> HIDE DEF new
    <2> QED
      BY <2>2, <2>3, <2>4 DEF TypeOK
  <1>3. ASSUME NEW q \in Request, Begin(q) PROVE LinksResolve'
    BY <1>3 DEF Begin
  <1>4. ASSUME NEW q \in Request, ReadHeadForEffect(q) PROVE LinksResolve'
    BY <1>4, <1>read DEF ReadHeadForEffect, Stages
  <1>5. ASSUME NEW q \in Request, InsertEffect(q) PROVE LinksResolve'
    BY <1>5, <1>insert DEF InsertEffect, Kinds, Stages
  <1>6. ASSUME NEW q \in Request, ReadHeadForGuardrail(q) PROVE LinksResolve'
    BY <1>6, <1>read DEF ReadHeadForGuardrail, Stages
  <1>7. ASSUME NEW q \in Request, InsertGuardrail(q) PROVE LinksResolve'
    BY <1>7, <1>insert DEF InsertGuardrail, Kinds, Stages
  <1>8. ASSUME NEW q \in Request, Commit(q) PROVE LinksResolve'
    BY <1>8 DEF Commit, TypeOK
  <1>9. ASSUME NEW q \in Request, Rollback(q) PROVE LinksResolve'
    BY <1>9 DEF Rollback, Returned, TypeOK
  <1>10. CASE UNCHANGED vars
    BY <1>10 DEF vars
  <1> QED
    BY <1>1, <1>2, <1>3, <1>4, <1>5, <1>6, <1>7, <1>8, <1>9, <1>10 DEF Next

\* Rows are where their request's stage says, and every link, published or not,
\* resolves: what the properties of the chain rest on.
THEOREM InductiveInvariant == Spec => []IInv
  <1>1. Init => IInv
    BY InitTypeOK, InitLinksResolve, InitRowsInPlace DEF IInv
  <1>2. IInv /\ [Next]_vars => IInv'
    BY StepTypeOK, StepLinksResolve, StepRowsInPlace DEF IInv
  <1> QED
    BY <1>1, <1>2, PTL DEF Spec

\* Following previous_event_hash from a visible event never leaves the table,
\* for every set of requests and every order of their statements.
THEOREM ChainAlwaysGrounded == Spec => []ChainGrounded
  <1>1. IInv => ChainGrounded
    BY DEF IInv, LinksResolve
  <1> QED
    BY <1>1, InductiveInvariant, PTL

-----------------------------------------------------------------------------
(***************************************************************************)
(* Order.  A decision is older than the transaction that relies on it: the *)
(* policy row is stamped when it is inserted, and the rows of the          *)
(* transaction with the transaction's start.                               *)
(***************************************************************************)
\* q's policy row is visible and stamped before t.
PolicyBefore(q, t) ==
    \E d \in committed : d.id = <<q, "policy">> /\ d.createdAt < t

\* The SELECT of a governed effect saw the policy row of its call, stamped earlier.
PolicySeen ==
    \A e \in committed :
        e.id[2] # "policy" /\ e.id[1] \notin Comparisons =>
            \E d \in committed :
                /\ d.id = <<e.id[1], "policy">>
                /\ d.id \in e.seen
                /\ d.createdAt < e.createdAt

Ordered ==
    /\ \A d \in committed : d.createdAt <= clock
    /\ \A q \in Request :
        /\ pc[q] \in InTransaction => beganAt[q] <= clock
        /\ \A e \in pending[q] : e.createdAt = beganAt[q]
    /\ \A q \in Request \ Comparisons :
        /\ pc[q] = "permitted" => PolicyBefore(q, clock + 1)
        /\ pc[q] \in InTransaction => PolicyBefore(q, beganAt[q])
        /\ pc[q] \in {"effectRead", "guardrailRead"} => <<q, "policy">> \in seen[q]
        /\ \A e \in pending[q] : <<q, "policy">> \in e.seen
    /\ PolicySeen

\* No row exists and no transaction has begun.
LEMMA InitOrdered == Init => Ordered
  BY DEF Init, Ordered, PolicySeen, InTransaction

\* A visible policy row stays visible, with its stamp.
LEMMA PolicyStays ==
    ASSUME NEW q \in Request, NEW t \in Nat, committed \subseteq committed', PolicyBefore(q, t)
    PROVE  PolicyBefore(q, t)'
  BY DEF PolicyBefore

\* A transaction begins after its policy row is stamped, and stamps its rows then.
LEMMA StepOrdered == IInv /\ Ordered /\ [Next]_vars => Ordered'
  <1> SUFFICES ASSUME TypeOK, RowsInPlace, Ordered, [Next]_vars PROVE Ordered'
    BY DEF IInv
  <1> USE DEF Ordered, InTransaction
  <1>same. ASSUME committed' = committed
           PROVE  /\ PolicySeen'
                  /\ \A q, t : PolicyBefore(q, t) => PolicyBefore(q, t)'
    BY <1>same DEF PolicySeen, PolicyBefore
  <1>read. ASSUME NEW q \in Request, NEW from \in {"idle", "begun", "effectDone"},
                  NEW to \in {"policyRead", "effectRead", "guardrailRead"},
                  ReadHead(q, from, to),
                  from = "idle" <=> to = "policyRead"
           PROVE  Ordered'
    <2>1. /\ seen' = [seen EXCEPT ![q] = IdsOf(VisibleTo(q))]
          /\ pc' = [pc EXCEPT ![q] = to]
          /\ pc[q] = from
          /\ UNCHANGED <<clock, committed, pending, beganAt>>
      BY <1>read DEF ReadHead
    <2>2. ASSUME q \notin Comparisons, to # "policyRead"
          PROVE  <<q, "policy">> \in IdsOf(VisibleTo(q))
      <3>1. PolicyBefore(q, beganAt[q])
        BY <1>read, <2>1, <2>2
      <3> QED
        BY <3>1 DEF PolicyBefore, IdsOf, VisibleTo
    <2> QED
      BY <1>read, <1>same, <2>1, <2>2 DEF TypeOK, PolicyBefore
  <1>insert. ASSUME NEW q \in Request, NEW kind \in {"effect", "guardrail"},
                    NEW from \in {"effectRead", "guardrailRead"},
                    NEW to \in {"effectDone", "guardrailDone"},
                    InsertInTransaction(q, kind, from, to)
             PROVE  Ordered'
    <2> DEFINE new == NewEvent(q, kind, beganAt[q])
    <2>1. new.createdAt = beganAt[q] /\ new.seen = seen[q]
      BY DEF NewEvent
    <2>2. /\ pc[q] = from
          /\ pending' = [pending EXCEPT ![q] = @ \cup {new}]
          /\ seen' = [seen EXCEPT ![q] = {}]
          /\ pc' = [pc EXCEPT ![q] = to]
          /\ UNCHANGED <<clock, committed, beganAt>>
      BY <1>insert DEF InsertInTransaction, Returned
    <2> HIDE DEF new
    <2> QED
      BY <1>same, <2>1, <2>2 DEF TypeOK, PolicyBefore
  <1>1. ASSUME NEW q \in Request, ReadHeadForPolicy(q) PROVE Ordered'
    BY <1>1, <1>read DEF ReadHeadForPolicy
  <1>2. ASSUME NEW q \in Request, InsertPolicyEvent(q) PROVE Ordered'
    <2> DEFINE new == NewEvent(q, "policy", clock')
    <2>1. /\ pc[q] = "policyRead"
          /\ clock' = clock + 1
          /\ committed' = committed \cup {new}
          /\ seen' = [seen EXCEPT ![q] = {}]
          /\ UNCHANGED <<pending, beganAt>>
      BY <1>2 DEF InsertPolicyEvent, Returned
    <2>2. PICK verdict \in {"permitted", "denied"} : pc' = [pc EXCEPT ![q] = verdict]
      BY <1>2 DEF InsertPolicyEvent
    <2>3. new.id = <<q, "policy">> /\ new.createdAt = clock + 1
      BY <2>1 DEF NewEvent
    <2> HIDE DEF new
    <2>4. clock \in Nat /\ clock' \in Nat /\ \A d \in committed : d.createdAt \in Nat
      BY <2>1 DEF TypeOK, Events
    <2>5. \A d \in committed' : d.createdAt <= clock'
      BY <2>1, <2>3, <2>4
    <2>6. PolicyBefore(q, clock + 1)'
      BY <2>1, <2>3, <2>4 DEF PolicyBefore
    <2>7. PolicySeen'
      <3> SUFFICES ASSUME NEW e \in committed', e.id[2] # "policy", e.id[1] \notin Comparisons
                   PROVE  \E d \in committed' : /\ d.id = <<e.id[1], "policy">>
                                              /\ d.id \in e.seen
                                              /\ d.createdAt < e.createdAt
        BY DEF PolicySeen
      <3>1. e \in committed
        BY <2>1, <2>3
      <3> QED
        BY <2>1, <3>1 DEF PolicySeen
    <2>8. ASSUME NEW p \in Request
          PROVE  /\ (pc[p] \in InTransaction => beganAt[p] <= clock)'
                 /\ (\A e \in pending[p] : e.createdAt = beganAt[p])'
      BY <2>1, <2>2, <2>4 DEF TypeOK
    <2>9. ASSUME NEW p \in Request \ Comparisons
          PROVE  /\ (pc[p] = "permitted" => PolicyBefore(p, clock + 1))'
                 /\ (pc[p] \in InTransaction => PolicyBefore(p, beganAt[p]))'
                 /\ (pc[p] \in {"effectRead", "guardrailRead"} => <<p, "policy">> \in seen[p])'
                 /\ (\A e \in pending[p] : <<p, "policy">> \in e.seen)'
      <3>1. \A t : PolicyBefore(p, t) => PolicyBefore(p, t)'
        BY <2>1 DEF PolicyBefore
      <3>2. PolicyBefore(p, clock + 1) => PolicyBefore(p, clock + 1)'
        BY <2>1, <2>4 DEF PolicyBefore
      <3>3. (pc[p] = "permitted" => PolicyBefore(p, clock + 1))'
        <4>1. CASE p = q
          BY <2>6, <4>1
        <4>2. CASE p # q /\ pc[p] = "permitted"
          BY <2>9, <3>2, <4>2
        <4>3. CASE p # q /\ pc[p] # "permitted"
          BY <2>2, <4>3 DEF TypeOK
        <4> QED
          BY <4>1, <4>2, <4>3
      <3>4. (pc[p] \in InTransaction => PolicyBefore(p, beganAt[p]))'
        <4>1. CASE pc'[p] \in InTransaction
          BY <2>1, <2>2, <2>9, <3>1, <4>1 DEF TypeOK, PolicyBefore
        <4> QED
          BY <4>1
      <3>5. (pc[p] \in {"effectRead", "guardrailRead"} => <<p, "policy">> \in seen[p])'
        BY <2>1, <2>2, <2>9 DEF TypeOK
      <3>6. (\A e \in pending[p] : <<p, "policy">> \in e.seen)'
        BY <2>1, <2>9
      <3> QED
        BY <3>3, <3>4, <3>5, <3>6
    <2> QED
      BY <2>5, <2>7, <2>8, <2>9
  <1>3. ASSUME NEW q \in Request, Begin(q) PROVE Ordered'
    <2>1. /\ pc[q] = (IF q \in Comparisons THEN "idle" ELSE "permitted")
          /\ clock' = clock + 1
          /\ beganAt' = [beganAt EXCEPT ![q] = clock + 1]
          /\ pc' = [pc EXCEPT ![q] = "begun"]
          /\ UNCHANGED <<committed, pending, head, seen>>
      BY <1>3 DEF Begin
    <2>2. pending[q] = {}
      BY <2>1 DEF RowsInPlace
    <2>3. clock \in Nat /\ \A d \in committed : d.createdAt \in Nat
      BY DEF TypeOK, Events
    <2>4. ASSUME NEW p \in Request \ Comparisons, PolicyBefore(p, clock + 1)
          PROVE  PolicyBefore(p, clock + 1)'
      BY <2>1, <2>3, <2>4 DEF PolicyBefore
    <2>5. (\A d \in committed : d.createdAt <= clock)'
      BY <2>1, <2>3
    <2>6. ASSUME NEW p \in Request
          PROVE  /\ (pc[p] \in InTransaction => beganAt[p] <= clock)'
                 /\ (\A e \in pending[p] : e.createdAt = beganAt[p])'
      BY <2>1, <2>2, <2>3 DEF TypeOK
    <2>7. ASSUME NEW p \in Request \ Comparisons
          PROVE  /\ (pc[p] = "permitted" => PolicyBefore(p, clock + 1))'
                 /\ (pc[p] \in InTransaction => PolicyBefore(p, beganAt[p]))'
                 /\ (pc[p] \in {"effectRead", "guardrailRead"} => <<p, "policy">> \in seen[p])'
                 /\ (\A e \in pending[p] : <<p, "policy">> \in e.seen)'
      <3>1. CASE p = q
        <4>1. PolicyBefore(q, clock + 1)'
          BY <2>1, <2>4, <2>7, <3>1
        <4>2. beganAt'[q] = clock + 1 /\ pc'[q] = "begun" /\ pending'[q] = {}
          BY <2>1, <2>2 DEF TypeOK
        <4>3. PolicyBefore(q, beganAt[q])'
          BY <2>1, <2>4, <2>7, <3>1, <4>2 DEF PolicyBefore
        <4> QED
          BY <3>1, <4>2, <4>3
      <3>2. CASE p # q
        <4>1. pc'[p] = pc[p] /\ beganAt'[p] = beganAt[p]
          BY <2>1, <3>2 DEF TypeOK
        <4>3. (pc[p] = "permitted" => PolicyBefore(p, clock + 1))'
          BY <2>1, <2>3, <2>4, <2>7, <4>1 DEF PolicyBefore
        <4>4. (pc[p] \in InTransaction => PolicyBefore(p, beganAt[p]))'
          BY <1>same, <2>1, <2>7, <4>1 DEF PolicyBefore
        <4> QED
          BY <2>1, <2>7, <4>1, <4>3, <4>4
      <3> QED
        BY <3>1, <3>2
    <2> QED
      BY <1>same, <2>1, <2>5, <2>6, <2>7
  <1>4. ASSUME NEW q \in Request, ReadHeadForEffect(q) PROVE Ordered'
    BY <1>4, <1>read DEF ReadHeadForEffect
  <1>5. ASSUME NEW q \in Request, InsertEffect(q) PROVE Ordered'
    BY <1>5, <1>insert DEF InsertEffect
  <1>6. ASSUME NEW q \in Request, ReadHeadForGuardrail(q) PROVE Ordered'
    BY <1>6, <1>read DEF ReadHeadForGuardrail
  <1>7. ASSUME NEW q \in Request, InsertGuardrail(q) PROVE Ordered'
    BY <1>7, <1>insert DEF InsertGuardrail
  <1>8. ASSUME NEW q \in Request, Commit(q) PROVE Ordered'
    <2>1. /\ pc[q] \in InTransaction
          /\ committed' = committed \cup pending[q]
          /\ pending' = [pending EXCEPT ![q] = {}]
          /\ beganAt' = [beganAt EXCEPT ![q] = 0]
          /\ pc' = [pc EXCEPT ![q] = "committed"]
          /\ UNCHANGED <<clock, head, seen>>
      BY <1>8 DEF Commit
    <2>2. \A d \in committed' : d.createdAt <= clock'
      BY <2>1 DEF TypeOK
    <2>3. PolicySeen'
      <3> SUFFICES ASSUME NEW e \in committed', e.id[2] # "policy", e.id[1] \notin Comparisons
                   PROVE  \E d \in committed' : /\ d.id = <<e.id[1], "policy">>
                                              /\ d.id \in e.seen
                                              /\ d.createdAt < e.createdAt
        BY DEF PolicySeen
      <3>1. CASE e \in committed
        BY <2>1, <3>1 DEF PolicySeen
      <3>2. CASE e \in pending[q]
        <4>0. e.id = <<q, "effect">> \/ e.id = <<q, "guardrail">>
          BY <3>2 DEF RowsInPlace
        <4>1. e.id[1] = q
          BY <4>0
        <4>2. PolicyBefore(q, beganAt[q]) /\ e.createdAt = beganAt[q] /\ <<q, "policy">> \in e.seen
          BY <2>1, <3>2, <4>1
        <4> QED
          BY <2>1, <4>1, <4>2 DEF PolicyBefore
      <3> QED
        BY <2>1, <3>1, <3>2
    <2>4. \A p, t : PolicyBefore(p, t) => PolicyBefore(p, t)'
      BY <2>1 DEF PolicyBefore
    <2> QED
      BY <2>1, <2>2, <2>3, <2>4 DEF TypeOK, PolicyBefore
  <1>9. ASSUME NEW q \in Request, Rollback(q) PROVE Ordered'
    BY <1>9, <1>same DEF Rollback, Returned, TypeOK, PolicyBefore
  <1>10. CASE UNCHANGED vars
    BY <1>10, <1>same DEF vars, PolicyBefore
  <1> QED
    BY <1>1, <1>2, <1>3, <1>4, <1>5, <1>6, <1>7, <1>8, <1>9, <1>10 DEF Next

-----------------------------------------------------------------------------
(***************************************************************************)
(* Refinement: what a step publishes is one batch of AuditForest.          *)
(***************************************************************************)
\* Links have the identities of the rows they are taken from.
LEMMA LinksKeepIds ==
    ASSUME NEW events
    PROVE  Forest!IdsOf(LinksOf(events)) = IdsOf(events)
  <1>1. ASSUME NEW e \in events PROVE e.id \in Forest!IdsOf(LinksOf(events))
    <2> DEFINE link == [id |-> e.id, prev |-> e.prev]
    <2>1. link \in LinksOf(events) /\ link.id = e.id
      BY DEF LinksOf
    <2> QED
      BY <2>1 DEF Forest!IdsOf
  <1>2. ASSUME NEW link \in LinksOf(events) PROVE link.id \in IdsOf(events)
    BY DEF LinksOf, IdsOf
  <1> QED
    BY <1>1, <1>2 DEF Forest!IdsOf, IdsOf

\* Rows with fresh identities whose links resolve are published.
LEMMA PublishedRows ==
    ASSUME committed \in SUBSET Events, NEW rows \in SUBSET Events,
           committed' = committed \cup rows,
           IdsOf(rows) \cap IdsOf(committed) = {}, ChainGrounded'
    PROVE  Forest!Publish
  <1> DEFINE old == LinksOf(committed)
             new == LinksOf(committed')
             batch == LinksOf(rows)
  <1>1. new = old \cup batch
    BY DEF LinksOf
  <1>2. new \subseteq Forest!Links
    BY DEF LinksOf, Events, Forest!Links
  <1>3. Forest!IdsOf(batch) \cap Forest!IdsOf(old) = {}
    BY LinksKeepIds
  <1>4. Forest!IdsOf(new \ old) \cap Forest!IdsOf(old) = {}
    <2> HIDE DEF old, new, batch
    <2>1. new \ old \subseteq batch
      BY <1>1
    <2> QED
      BY <1>3, <2>1 DEF Forest!IdsOf
  <1>5. Forest!Grounded(new)
    <2>1. Forest!IdsOf(new) = IdsOf(committed')
      BY LinksKeepIds
    <2>2. ASSUME NEW link \in new
          PROVE  link.prev \in IdsOf(committed') \cup {Genesis}
      <3>1. PICK e \in committed' : link = [id |-> e.id, prev |-> e.prev]
        BY DEF LinksOf
      <3> QED
        BY <3>1 DEF ChainGrounded
    <2> HIDE DEF old, new, batch
    <2> QED
      BY <2>1, <2>2 DEF Forest!Grounded
  <1>6. new = LinksOf(committed)'
    OBVIOUS
  <1> HIDE DEF new, batch
  <1> QED
    BY <1>1, <1>2, <1>4, <1>5, <1>6 DEF Forest!Publish

\* The ledger is an append-only forest whose transactions publish their events
\* together: GovernanceChain implements AuditForest for every set of requests.
THEOREM ChainImplementsForest == Spec => ImplementsForest
  <1>1. Init => Forest!Init
    BY DEF Init, Forest!Init, LinksOf
  <1>2. IInv /\ IInv' /\ [Next]_vars => [Forest!Publish]_(LinksOf(committed))
    <2> SUFFICES ASSUME IInv, ChainGrounded', [Next]_vars, committed' # committed
                 PROVE  Forest!Publish
      BY DEF IInv, LinksResolve, LinksOf
    <2> USE DEF IInv, RowsInPlace, InTransaction
    <2>1. ASSUME NEW q \in Request, InsertPolicyEvent(q) PROVE Forest!Publish
      <3> DEFINE new == NewEvent(q, "policy", clock')
      <3>1. pc[q] = "policyRead" /\ clock' \in Nat /\ committed' = committed \cup {new}
        BY <2>1 DEF InsertPolicyEvent, TypeOK
      <3>2. new \in Events /\ new.id = <<q, "policy">>
        BY <3>1, NewEventType DEF Kinds
      <3>3. IdsOf({new}) \cap IdsOf(committed) = {}
        BY <3>1, <3>2 DEF IdsOf
      <3> HIDE DEF new
      <3> QED
        BY <3>1, <3>2, <3>3, PublishedRows DEF TypeOK
    <2>2. ASSUME NEW q \in Request, Commit(q) PROVE Forest!Publish
      <3>1. committed' = committed \cup pending[q] /\ pc[q] # "committed"
        BY <2>2 DEF Commit
      <3>2. pending[q] \in SUBSET Events
        BY DEF TypeOK
      <3>3. IdsOf(pending[q]) \cap IdsOf(committed) = {}
        BY <3>1 DEF IdsOf
      <3> QED
        BY <3>1, <3>2, <3>3, PublishedRows DEF TypeOK
    <2>3. ASSUME NEW q \in Request,
                 \/ ReadHeadForPolicy(q) \/ Begin(q) \/ ReadHeadForEffect(q)
                 \/ InsertEffect(q) \/ ReadHeadForGuardrail(q) \/ InsertGuardrail(q)
                 \/ Rollback(q)
          PROVE  committed' = committed
      BY <2>3 DEF ReadHeadForPolicy, Begin, ReadHeadForEffect, InsertEffect,
                  ReadHeadForGuardrail, InsertGuardrail, Rollback, ReadHead,
                  InsertInTransaction
    <2> QED
      BY <2>1, <2>2, <2>3 DEF Next, vars
  <1> QED
    BY <1>1, <1>2, InductiveInvariant, PTL DEF Spec, ImplementsForest, Forest!Spec
=============================================================================
