--------------------------- MODULE MigrationsProofs ---------------------------
(***************************************************************************)
(* For any number of servers and reverting commands and any number of      *)
(* migrations: schema_migrations matches the schema, has no hole, and a    *)
(* server that serves has found the whole of it.                           *)
(***************************************************************************)
EXTENDS Migrations, FiniteSetTheorems, TLAPS

-----------------------------------------------------------------------------
\* Every nonempty set of numbers has a least member: the segments below its members
\* are finite sets, and inclusion is well-founded on those.
LEMMA LeastMember ==
    ASSUME NEW S \in SUBSET Nat, S # {}
    PROVE  Min(S) \in S /\ \A v \in S : Min(S) <= v
  <1> DEFINE Below(v) == 0 .. (v - 1)
             segments == {Below(v) : v \in S}
  <1>1. segments # {}
    OBVIOUS
  <1>2. segments \subseteq FiniteSubsetsOf(Nat)
    <2>1. ASSUME NEW v \in S PROVE Below(v) \in FiniteSubsetsOf(Nat)
      <3>1. IsFiniteSet(Below(v))
        BY FS_Interval
      <3>2. Below(v) \in SUBSET Nat
        OBVIOUS
      <3> QED
        BY <3>1, <3>2 DEF FiniteSubsetsOf
    <2> QED
      BY <2>1
  <1>3. PICK least \in segments :
            \A other \in segments : ~ (<<other, least>> \in StrictSubsetOrdering(Nat))
    <2> HIDE DEF segments
    <2> QED
      BY <1>1, <1>2, FS_StrictSubsetOrderingWellFounded, WFMin
  <1>4. PICK x \in S : least = Below(x)
    OBVIOUS
  <1>5. ASSUME NEW v \in S PROVE x <= v
    <2> SUFFICES ASSUME v < x PROVE FALSE
      OBVIOUS
    <2>1. Below(v) \in SUBSET Nat /\ Below(x) \in SUBSET Nat /\ Below(v) \in segments
      OBVIOUS
    <2>2. Below(v) \subseteq Below(x) /\ v \in Below(x) /\ v \notin Below(v)
      OBVIOUS
    <2> HIDE DEF Below, segments
    <2>3. <<Below(v), Below(x)>> \in StrictSubsetOrdering(Nat)
      BY <2>1, <2>2 DEF StrictSubsetOrdering
    <2> QED
      BY <1>3, <1>4, <2>1, <2>3
  <1> QED
    BY <1>5 DEF Min

\* Every nonempty set of versions has a greatest one.
LEMMA GreatestVersion ==
    ASSUME NEW S \in SUBSET Versions, S # {}
    PROVE  Max(S) \in S /\ \A v \in S : v <= Max(S)
  <1> DEFINE mirrored == {Latest - v : v \in S}
  <1>1. mirrored \in SUBSET Nat /\ mirrored # {}
    BY MigrationsAssumption DEF Versions
  <1>2. \E least \in mirrored : \A m \in mirrored : least <= m
    <2> HIDE DEF mirrored
    <2> QED
      BY <1>1, LeastMember
  <1>3. PICK x \in S : \A v \in S : Latest - x <= Latest - v
    BY <1>2
  <1>4. ASSUME NEW v \in S PROVE x >= v
    <2>1. x \in Int /\ v \in Int /\ Latest \in Int
      BY MigrationsAssumption DEF Versions
    <2> QED
      BY <1>3, <2>1
  <1> QED
    BY <1>4 DEF Max

-----------------------------------------------------------------------------
(***************************************************************************)
(* The inductive invariant.  While a transaction is open, the tables are   *)
(* what its script has made of them, and a ROLLBACK brings back the schema *)
(* that matches the rows; whoever else works has read the rows too long    *)
(* ago to know anything, except that without a revert they only grow.      *)
(***************************************************************************)
\* The tables are held by the process that is inside a transaction.
OneInside == \A p \in Processes : stage[p] = "inTransaction" <=> holder = p

\* What the script of an open transaction found and has done.
ScriptRun ==
    \A p \in Processes : stage[p] = "inTransaction" =>
        /\ todo[p] # {}
        /\ saved = recorded
        /\ IF p \in Appliers
             THEN /\ Current(p) = 1 \/ Current(p) - 1 \in recorded
                  /\ present = recorded \cup {Current(p)}
             ELSE /\ Current(p) + 1 \notin recorded
                  /\ present = recorded \ {Current(p)}

\* What a server has read, as long as nobody reverts.
Progressed ==
    \A p \in Appliers : ~reverted =>
        /\ stage[p] \in {"working", "inTransaction"} => Versions \ todo[p] \subseteq recorded
        /\ stage[p] = "done" => Versions \subseteq recorded

IInv == TypeOK /\ OneInside /\ ScriptRun /\ LedgerMatchesSchema /\ NoGaps /\ Progressed

-----------------------------------------------------------------------------
\* The version in work is one of the process's versions.
LEMMA CurrentIsPlanned ==
    ASSUME TypeOK, NEW p \in Processes, todo[p] # {}
    PROVE  Current(p) \in todo[p] /\ Current(p) \in Versions
  <1>1. todo[p] \in SUBSET Versions /\ todo[p] \in SUBSET Nat
    BY DEF TypeOK, Versions
  <1> QED
    BY <1>1, LeastMember DEF Current

\* A process plans to work on versions there are.
LEMMA PlanType ==
    ASSUME TypeOK, NEW p \in Processes
    PROVE  Plan(p) \in SUBSET Versions
  <1>1. recorded # {} => Max(recorded) \in Versions
    BY GreatestVersion DEF TypeOK
  <1> QED
    BY <1>1 DEF Plan, TypeOK

\* An empty database agrees with itself.
LEMMA InitIInv == Init => IInv
  BY MigrationsAssumption
     DEF Init, IInv, TypeOK, OneInside, ScriptRun, LedgerMatchesSchema, NoGaps, Progressed,
         Stages, Processes

\* Giving up takes the process out and leaves the others what they had.
LEMMA GiveUpIInv ==
    ASSUME IInv, NEW p \in Processes, GiveUp(p),
           reverted' = reverted, faulted' \in BOOLEAN
    PROVE  IInv'
  <1> USE MigrationsAssumption DEF IInv, GiveUp, GoTo, TypeOK, Stages, Processes
  <1>1. TypeOK'
    OBVIOUS
  <1>2. OneInside' /\ ScriptRun' /\ LedgerMatchesSchema'
    <2>1. CASE holder = p
      BY <2>1 DEF OneInside, ScriptRun, LedgerMatchesSchema, Current
    <2>2. CASE holder # p
      BY <2>2 DEF OneInside, ScriptRun, LedgerMatchesSchema, Current
    <2> QED
      BY <2>1, <2>2
  <1>3. NoGaps' /\ Progressed'
    BY DEF NoGaps, Progressed, Versions
  <1> QED
    BY <1>1, <1>2, <1>3

\* A script finds the rows and the tables in agreement: nobody else is inside.
LEMMA RunScriptIInv ==
    ASSUME IInv, NEW p \in Processes, RunScript(p)
    PROVE  IInv'
  <1> USE MigrationsAssumption DEF IInv
  <1>1. CASE GiveUp(p)
    BY <1>1, GiveUpIInv DEF RunScript, history, TypeOK
  <1>2. CASE ~GiveUp(p)
    <2>1. /\ stage[p] = "working" /\ todo[p] # {} /\ holder = Nobody
          /\ holder' = p /\ saved' = present
          /\ present' = IF p \in Appliers THEN present \cup {Current(p)}
                                          ELSE present \ {Current(p)}
          /\ stage' = [stage EXCEPT ![p] = "inTransaction"]
          /\ UNCHANGED <<tableExists, recorded, todo, reverted, faulted>>
          /\ IF p \in Appliers THEN Applicable(Current(p)) ELSE Removable(Current(p))
      BY <1>2 DEF RunScript, history, GoTo
    <2>2. Current(p) \in Versions /\ recorded = present /\ Current(p)' = Current(p)
      BY <2>1, CurrentIsPlanned DEF LedgerMatchesSchema, Current
    <2>3. TypeOK'
      BY <2>1, <2>2 DEF TypeOK, Stages
    <2>4. OneInside'
      BY <2>1 DEF OneInside, TypeOK, Processes
    <2>5. ScriptRun'
      <3>1. \A other \in Processes \ {p} : stage'[other] # "inTransaction"
        BY <2>1 DEF OneInside, TypeOK, Processes
      <3> QED
        BY <2>1, <2>2, <3>1 DEF ScriptRun, TypeOK, Applicable, Removable
    <2>6. LedgerMatchesSchema' /\ NoGaps' /\ Progressed'
      BY <2>1 DEF LedgerMatchesSchema, NoGaps, Progressed, TypeOK, Processes, Versions
    <2> QED
      BY <2>3, <2>4, <2>5, <2>6
  <1> QED
    BY <1>1, <1>2

\* The row says what the script has done, and a version comes or goes at the end.
LEMMA CommitIInv ==
    ASSUME IInv, NEW p \in Processes, Commit(p)
    PROVE  IInv'
  <1> USE MigrationsAssumption DEF IInv
  <1>1. /\ stage[p] = "inTransaction" /\ holder = p /\ todo[p] # {}
        /\ holder' = Nobody
        /\ todo' = [todo EXCEPT ![p] = @ \ {Current(p)}]
        /\ stage' = [stage EXCEPT ![p] = "working"]
        /\ UNCHANGED <<tableExists, present, saved, faulted>>
    BY DEF Commit, GoTo, OneInside, ScriptRun
  <1>2. Current(p) \in Versions
    BY <1>1, CurrentIsPlanned
  <1>3. recorded' = present
    BY <1>1 DEF Commit, ScriptRun
  <1>4. reverted' \in BOOLEAN /\ (~reverted' => ~reverted /\ p \in Appliers)
    BY DEF Commit, TypeOK
  <1>5. TypeOK'
    BY <1>1, <1>2, <1>3, <1>4 DEF TypeOK, Stages
  <1>6. \A other \in Processes : stage'[other] # "inTransaction" /\ holder' # other
    BY <1>1 DEF OneInside, TypeOK, Processes
  <1>7. OneInside' /\ ScriptRun' /\ LedgerMatchesSchema'
    BY <1>1, <1>3, <1>6 DEF OneInside, ScriptRun, LedgerMatchesSchema
  <1>8. NoGaps'
    <2>1. CASE p \in Appliers
      <3>1. recorded' = recorded \cup {Current(p)}
        BY <1>1, <1>3, <2>1 DEF ScriptRun
      <3>2. Current(p) = 1 \/ 1 .. (Current(p) - 1) \subseteq recorded
        BY <1>1, <2>1 DEF ScriptRun, NoGaps
      <3>3. 1 .. Current(p) \subseteq recorded'
        BY <1>2, <3>1, <3>2 DEF Versions
      <3> QED
        BY <3>1, <3>3 DEF NoGaps
    <2>2. CASE p \notin Appliers
      <3>1. recorded' = recorded \ {Current(p)} /\ Current(p) + 1 \notin recorded
        BY <1>1, <1>3, <2>2 DEF ScriptRun
      <3>2. ASSUME NEW v \in recorded' PROVE 1 .. v \subseteq recorded'
        <4>1. v \in Versions /\ 1 .. v \subseteq recorded /\ v # Current(p)
          BY <3>1 DEF NoGaps, TypeOK
        <4>2. Current(p) \notin 1 .. v
          <5> SUFFICES ASSUME Current(p) \in 1 .. v PROVE FALSE
            OBVIOUS
          <5>1. Current(p) + 1 \in 1 .. v
            BY <1>2, <4>1 DEF Versions
          <5> QED
            BY <3>1, <4>1, <5>1
        <4> QED
          BY <3>1, <4>1, <4>2
      <3> QED
        BY <3>2 DEF NoGaps
    <2> QED
      BY <2>1, <2>2
  <1>9. Progressed'
    <2> SUFFICES ASSUME ~reverted', NEW q \in Appliers
                 PROVE  /\ stage'[q] \in {"working", "inTransaction"} =>
                               Versions \ todo'[q] \subseteq recorded'
                        /\ stage'[q] = "done" => Versions \subseteq recorded'
      BY DEF Progressed, Versions
    <2>1. recorded' = recorded \cup {Current(p)}
      BY <1>1, <1>3, <1>4 DEF ScriptRun
    <2> QED
      BY <1>1, <1>4, <2>1 DEF Progressed, TypeOK, Processes
  <1> QED
    BY <1>5, <1>7, <1>8, <1>9

\* A step that touches no row, table or transaction leaves the rest alone.
LEMMA OutsideIInv ==
    ASSUME IInv, NEW p \in Processes, NEW to \in Stages \ {"inTransaction"},
           stage[p] # "inTransaction", stage' = [stage EXCEPT ![p] = to],
           UNCHANGED <<recorded, present, holder, saved, reverted>>,
           tableExists' \in BOOLEAN, faulted' \in BOOLEAN,
           NEW versions \in SUBSET Versions, todo' = [todo EXCEPT ![p] = versions],
           ~reverted /\ p \in Appliers =>
               /\ to = "working" => Versions \ versions \subseteq recorded
               /\ to = "done" => Versions \subseteq recorded
    PROVE  IInv'
  <1> USE MigrationsAssumption DEF IInv
  <1>1. TypeOK'
    BY DEF TypeOK
  <1>2. OneInside' /\ LedgerMatchesSchema' /\ NoGaps'
    BY DEF OneInside, LedgerMatchesSchema, NoGaps, TypeOK
  <1>3. ScriptRun'
    <2>1. \A q \in Processes : stage'[q] = "inTransaction" =>
              stage[q] = "inTransaction" /\ todo'[q] = todo[q]
      BY DEF TypeOK
    <2> QED
      BY <2>1 DEF ScriptRun, Current
  <1>4. Progressed'
    BY DEF Progressed, TypeOK, Processes, Versions
  <1> QED
    BY <1>1, <1>2, <1>3, <1>4

\* No step breaks it.
LEMMA StepIInv == IInv /\ [Next]_vars => IInv'
  <1> SUFFICES ASSUME IInv, [Next]_vars PROVE IInv'
    OBVIOUS
  <1>todo. ASSUME NEW p \in Processes
           PROVE  todo[p] \in SUBSET Versions /\ todo = [todo EXCEPT ![p] = todo[p]]
    BY DEF IInv, TypeOK
  <1>types. tableExists \in BOOLEAN /\ faulted \in BOOLEAN
    BY DEF IInv, TypeOK
  <1>1. ASSUME NEW p \in Processes, LookForTable(p) PROVE IInv'
    <2> DEFINE to == IF tableExists THEN "reading" ELSE "creating"
    <2>1. to \in Stages \ {"inTransaction"} /\ to \notin {"working", "done"}
      BY DEF Stages
    <2> QED
      BY <1>1, <1>todo, <1>types, <2>1, OutsideIInv
         DEF LookForTable, GoTo, database, history
  <1>2. ASSUME NEW p \in Processes, CreateTable(p) PROVE IInv'
    <2>1. CASE tableExists
      BY <1>2, <1>types, <2>1, GiveUpIInv DEF CreateTable, history
    <2>2. CASE ~tableExists
      BY <1>2, <1>todo, <1>types, <2>2, OutsideIInv DEF CreateTable, GoTo, history, Stages
    <2> QED
      BY <2>1, <2>2
  <1>3. ASSUME NEW p \in Processes, ReadRecorded(p) PROVE IInv'
    <2>1. Plan(p) \in SUBSET Versions
      BY PlanType DEF IInv
    <2>2. p \in Appliers => Versions \ Plan(p) \subseteq recorded
      BY DEF Plan
    <2> DEFINE plan == Plan(p)
    <2>3. stage' = [stage EXCEPT ![p] = "working"] /\ todo' = [todo EXCEPT ![p] = plan]
      BY <1>3 DEF ReadRecorded, GoTo
    <2>4. /\ stage[p] # "inTransaction"
          /\ UNCHANGED <<recorded, present, holder, saved, reverted, tableExists, faulted>>
      BY <1>3 DEF ReadRecorded, database, history
    <2>5. plan \in SUBSET Versions /\ (p \in Appliers => Versions \ plan \subseteq recorded)
      BY <2>1, <2>2
    <2> HIDE DEF plan
    <2>6. "working" \in Stages \ {"inTransaction"}
      BY DEF Stages
    <2> QED
      BY <1>types, <2>3, <2>4, <2>5, <2>6, OutsideIInv
  <1>4. ASSUME NEW p \in Processes, RunScript(p) PROVE IInv'
    BY <1>4, RunScriptIInv
  <1>5. ASSUME NEW p \in Processes, Conflict(p) PROVE IInv'
    BY <1>5, <1>types, GiveUpIInv DEF Conflict, history
  <1>6. ASSUME NEW p \in Processes, Commit(p) PROVE IInv'
    BY <1>6, CommitIInv
  <1>7. ASSUME NEW p \in Processes, Finish(p) PROVE IInv'
    <2>1. ~reverted /\ p \in Appliers => Versions \subseteq recorded
      BY <1>7 DEF Finish, IInv, Progressed
    <2> QED
      BY <1>7, <1>todo, <1>types, <2>1, OutsideIInv DEF Finish, GoTo, database, history, Stages
  <1>8. ASSUME NEW p \in Processes, Break(p) PROVE IInv'
    BY <1>8, GiveUpIInv DEF Break
  <1>9. ASSUME NEW p \in Processes, Restart(p) PROVE IInv'
    <2> DEFINE none == {}
    <2>1. stage' = [stage EXCEPT ![p] = "start"] /\ todo' = [todo EXCEPT ![p] = none]
      BY <1>9 DEF Restart, GoTo
    <2>2. /\ stage[p] # "inTransaction"
          /\ UNCHANGED <<recorded, present, holder, saved, reverted, tableExists, faulted>>
      BY <1>9 DEF Restart, database, history
    <2>3. none \in SUBSET Versions
      OBVIOUS
    <2> HIDE DEF none
    <2>4. "start" \in Stages \ {"inTransaction"}
      BY DEF Stages
    <2> QED
      BY <1>types, <2>1, <2>2, <2>3, <2>4, OutsideIInv
  <1>10. ASSUME UNCHANGED vars PROVE IInv'
    BY <1>10 DEF IInv, TypeOK, OneInside, ScriptRun, LedgerMatchesSchema, NoGaps, Progressed,
                 Current, vars, database, history
  <1> QED
    BY <1>1, <1>2, <1>3, <1>4, <1>5, <1>6, <1>7, <1>8, <1>9, <1>10 DEF Next, Step

-----------------------------------------------------------------------------
(***************************************************************************)
(* Why not everybody fails.  Whoever changes the database last works from  *)
(* what it is now: a server that has just applied a version has exactly    *)
(* the later ones left, a revert has nothing left.  It gets through unless *)
(* somebody else changes the database again, and is then the one to do so. *)
(***************************************************************************)
\* A server has a version and all those after it to do.
UpToLatest ==
    \A p \in Appliers : stage[p] \in {"working", "inTransaction"} =>
        \A v \in todo[p] : v .. Latest \subseteq todo[p]

\* A revert has one version to do, or none.
OneAtMost ==
    \A p \in Reverters : stage[p] \in {"working", "inTransaction"} =>
        todo[p] = {} \/ \E v \in Versions : todo[p] = {v}

\* The process has nothing to do, or what it would plan now.
Abreast(p) ==
    \/ stage[p] \in {"start", "reading", "done"}
    \/ stage[p] = "creating" /\ ~tableExists
    \/ stage[p] \in {"working", "inTransaction"} /\ todo[p] \in {{}, Plan(p)}

SomeoneAbreast == ~faulted => \E p \in Processes : Abreast(p)

SInv == UpToLatest /\ OneAtMost /\ SomeoneAbreast

\* At first everybody is at the start.
LEMMA InitSInv ==
    ASSUME Processes # {}
    PROVE  Init => SInv
  BY DEF Init, SInv, UpToLatest, OneAtMost, SomeoneAbreast, Abreast, Processes

\* What is missing from rows without a hole reaches up to the last version.
LEMMA MissingIsUpper ==
    ASSUME TypeOK, NoGaps, NEW v \in Versions \ recorded
    PROVE  v .. Latest \subseteq Versions \ recorded
  <1> SUFFICES ASSUME NEW w \in v .. Latest PROVE w \in Versions \ recorded
    OBVIOUS
  <1>1. w \in Versions /\ v \in 1 .. w
    BY MigrationsAssumption DEF Versions
  <1> QED
    BY <1>1 DEF NoGaps, TypeOK

\* A process whose plan has a version to do can run its script, and no row is in
\* its way.
LEMMA PlanIsFeasible ==
    ASSUME IInv, NEW p \in Processes, Plan(p) # {}, todo[p] = Plan(p)
    PROVE  /\ p \in Appliers => Current(p) \notin recorded
           /\ holder = Nobody => IF p \in Appliers THEN Applicable(Current(p))
                                                   ELSE Removable(Current(p))
  <1> USE MigrationsAssumption DEF IInv
  <1>1. todo[p] \in SUBSET Nat
    BY DEF TypeOK, Versions
  <1>2. Current(p) \in Plan(p) /\ Current(p) \in Versions /\ \A v \in Plan(p) : Current(p) <= v
    BY <1>1, LeastMember, CurrentIsPlanned DEF Current
  <1>3. CASE p \in Appliers
    <2>1. Plan(p) = Versions \ recorded
      BY <1>3 DEF Plan
    <2>2. Current(p) = 1 \/ Current(p) - 1 \in recorded
      <3> SUFFICES ASSUME Current(p) # 1, Current(p) - 1 \notin recorded PROVE FALSE
        OBVIOUS
      <3>1. Current(p) - 1 \in Versions \ recorded
        BY <1>2 DEF Versions
      <3> QED
        BY <1>2, <2>1, <3>1 DEF Versions
    <2> QED
      BY <1>2, <1>3, <2>1, <2>2 DEF Applicable, LedgerMatchesSchema
  <1>4. CASE p \notin Appliers
    <2>1. recorded # {} /\ Current(p) = Max(recorded)
      BY <1>2, <1>4 DEF Plan
    <2>2. \A v \in recorded : v <= Max(recorded)
      BY <2>1, GreatestVersion DEF TypeOK
    <2>3. Current(p) + 1 \notin recorded
      BY <1>2, <2>1, <2>2 DEF Versions
    <2>4. Current(p) \in recorded
      BY <2>1, GreatestVersion DEF TypeOK
    <2>5. Current(p) = 1 \/ Current(p) - 1 \in recorded
      BY <1>2, <2>4 DEF NoGaps, Versions
    <2> QED
      BY <1>4, <2>3, <2>5 DEF Removable, Applicable, LedgerMatchesSchema
  <1> QED
    BY <1>3, <1>4

\* Without a change of the rows, the table or its own work a process stays abreast.
LEMMA AbreastKeeps ==
    ASSUME NEW q \in Processes, Abreast(q), stage'[q] = stage[q], todo'[q] = todo[q],
           recorded' = recorded, tableExists' = tableExists
    PROVE  Abreast(q)'
  BY DEF Abreast, Plan

\* A commit leaves the one that made it abreast: of the versions a server had to do
\* those above the one it has just applied are left, and no other is missing.
LEMMA CommitSInv ==
    ASSUME IInv, IInv', SInv, NEW p \in Processes, Commit(p)
    PROVE  SInv'
  <1> USE MigrationsAssumption
  <1>1. PICK v \in Versions :
            /\ v = Current(p) /\ v \in todo[p] /\ \A w \in todo[p] : v <= w
            /\ todo[p] \subseteq Versions
    <2>1. todo[p] # {} /\ todo[p] \in SUBSET Versions /\ todo[p] \in SUBSET Nat
      BY DEF Commit, IInv, ScriptRun, TypeOK, Versions
    <2> QED
      BY <2>1, LeastMember DEF Current
  <1>2. /\ stage[p] = "inTransaction" /\ stage'[p] = "working"
        /\ todo'[p] = todo[p] \ {v}
        /\ \A q \in Processes \ {p} : stage'[q] = stage[q] /\ todo'[q] = todo[q]
    BY <1>1 DEF Commit, GoTo, IInv, TypeOK
  <1>3. UpToLatest'
    <2>1. ASSUME p \in Appliers, NEW w \in todo[p] \ {v}
          PROVE  w .. Latest \subseteq todo[p] \ {v}
      <3>1. w .. Latest \subseteq todo[p] /\ w > v
        BY <1>1, <1>2, <2>1 DEF SInv, UpToLatest, Versions
      <3> QED
        BY <1>1, <3>1 DEF Versions
    <2> QED
      BY <1>2, <2>1 DEF SInv, UpToLatest, Processes
  <1>4. OneAtMost' /\ (p \in Reverters => todo'[p] = {})
    BY <1>1, <1>2 DEF SInv, OneAtMost, Processes
  <1>5. Abreast(p)'
    <2>1. CASE p \in Reverters
      BY <1>2, <1>4, <2>1 DEF Abreast
    <2>2. CASE p \in Appliers
      <3>1. recorded' = recorded \cup {v} /\ recorded \subseteq Versions
        BY <1>1, <2>2 DEF Commit, IInv, TypeOK
      <3>2. 1 .. v \subseteq recorded'
        BY <3>1 DEF IInv, NoGaps
      <3>3. v \notin recorded /\ \A w \in recorded : w < v
        <4>1. v \notin recorded
          BY <1>1, <2>2 DEF Commit
        <4>2. ASSUME NEW w \in recorded, v <= w PROVE FALSE
          BY <3>1, <4>1, <4>2 DEF IInv, NoGaps, Versions
        <4> QED
          BY <3>1, <4>1, <4>2 DEF Versions
      <3>4. todo[p] = v .. Latest
        <4>1. v .. Latest \subseteq todo[p]
          BY <1>1, <1>2, <2>2 DEF SInv, UpToLatest
        <4>2. ASSUME NEW w \in todo[p] PROVE w \in v .. Latest
          <5>1. w \in Versions /\ v <= w
            BY <1>1
          <5> QED
            BY <5>1 DEF Versions
        <4> QED
          BY <4>1, <4>2
      <3>5. todo[p] \ {v} = Versions \ recorded'
        BY <3>1, <3>2, <3>3, <3>4 DEF Versions
      <3> QED
        BY <1>2, <2>2, <3>5 DEF Abreast, Plan, Versions
    <2> QED
      BY <2>1, <2>2 DEF Processes
  <1> QED
    BY <1>3, <1>4, <1>5 DEF SInv, SomeoneAbreast

\* Each step leaves somebody abreast: the one that took it, or the one that was.
LEMMA StepSInv == IInv /\ IInv' /\ SInv /\ [Next]_vars => SInv'
  <1> SUFFICES ASSUME IInv, IInv', SInv, [Next]_vars PROVE SInv'
    OBVIOUS
  <1> USE MigrationsAssumption
  <1>types. TypeOK /\ NoGaps
    BY DEF IInv
  \* Steps that leave everybody's work as it was.
  <1>idle. ASSUME todo' = todo, recorded' = recorded,
                  \A q \in Processes : stage'[q] \in {"working", "inTransaction"} =>
                      stage[q] \in {"working", "inTransaction"}
           PROVE  UpToLatest' /\ OneAtMost'
    BY <1>idle DEF SInv, UpToLatest, OneAtMost, Processes
  \* A step of p that leaves p abreast, if it was, and the others what they had.
  <1>own. ASSUME NEW p \in Processes, Abreast(p) => Abreast(p)', recorded' = recorded,
                 tableExists' = tableExists, faulted' = faulted,
                 \A q \in Processes \ {p} : stage'[q] = stage[q] /\ todo'[q] = todo[q]
          PROVE  SomeoneAbreast'
    <2>1. SUFFICES ASSUME ~faulted PROVE \E q \in Processes : Abreast(q)'
      BY <1>own DEF SomeoneAbreast
    <2>2. PICK q \in Processes : Abreast(q)
      BY <2>1 DEF SInv, SomeoneAbreast
    <2>3. CASE q = p
      BY <1>own, <2>2, <2>3
    <2>4. CASE q # p
      BY <1>own, <2>2, <2>4, AbreastKeeps
    <2> QED
      BY <2>3, <2>4
  \* Giving up, of a process that was not abreast or for a fault.
  <1>quit. ASSUME NEW p \in Processes, GiveUp(p), (~Abreast(p) /\ faulted' = faulted) \/ faulted'
           PROVE  SInv'
    <2>1. UpToLatest' /\ OneAtMost'
      BY <1>idle, <1>quit, <1>types DEF GiveUp, GoTo, TypeOK
    <2>2. SomeoneAbreast'
      <3>1. \A q \in Processes \ {p} : stage'[q] = stage[q] /\ todo'[q] = todo[q]
        BY <1>quit, <1>types DEF GiveUp, GoTo, TypeOK
      <3> QED
        BY <1>own, <1>quit, <3>1 DEF GiveUp, SomeoneAbreast
    <2> QED
      BY <2>1, <2>2 DEF SInv
  <1>1. ASSUME NEW p \in Processes, LookForTable(p) PROVE SInv'
    <2>1. UpToLatest' /\ OneAtMost'
      BY <1>1, <1>idle, <1>types DEF LookForTable, GoTo, TypeOK, database
    <2>2. SomeoneAbreast'
      BY <1>1, <1>own, <1>types DEF LookForTable, GoTo, TypeOK, database, history, Abreast
    <2> QED
      BY <2>1, <2>2 DEF SInv
  <1>2. ASSUME NEW p \in Processes, CreateTable(p) PROVE SInv'
    <2>1. CASE tableExists
      <3>1. ~Abreast(p)
        BY <1>2, <2>1 DEF CreateTable, Abreast
      <3> QED
        BY <1>2, <1>quit, <2>1, <3>1 DEF CreateTable, history
    <2>2. CASE ~tableExists
      <3>1. UpToLatest' /\ OneAtMost'
        BY <1>2, <1>idle, <1>types, <2>2 DEF CreateTable, GoTo, TypeOK
      <3>2. stage'[p] = "reading"
        BY <1>2, <1>types, <2>2 DEF CreateTable, GoTo, TypeOK
      <3> QED
        BY <3>1, <3>2 DEF SInv, SomeoneAbreast, Abreast
    <2> QED
      BY <2>1, <2>2
  <1>3. ASSUME NEW p \in Processes, ReadRecorded(p) PROVE SInv'
    <2>1. PICK plan \in SUBSET Versions : plan = Plan(p)
      BY <1>types, PlanType
    <2>2. /\ stage'[p] = "working" /\ todo'[p] = plan
          /\ \A q \in Processes \ {p} : stage'[q] = stage[q] /\ todo'[q] = todo[q]
          /\ UNCHANGED <<recorded, tableExists, faulted>>
      BY <1>3, <1>types, <2>1 DEF ReadRecorded, GoTo, database, history, TypeOK
    <2>3. UpToLatest'
      <3>1. p \in Appliers => \A v \in plan : v .. Latest \subseteq plan
        BY <1>types, <2>1, MissingIsUpper DEF Plan
      <3> QED
        BY <2>2, <3>1 DEF SInv, UpToLatest, Processes
    <2>4. OneAtMost'
      <3>1. p \in Reverters => plan = {} \/ \E v \in Versions : plan = {v}
        BY <1>types, <2>1, GreatestVersion DEF Plan, TypeOK
      <3> QED
        BY <2>2, <3>1 DEF SInv, OneAtMost, Processes
    <2>5. Plan(p)' = plan
      BY <2>1, <2>2 DEF Plan
    <2>6. Abreast(p)'
      BY <2>2, <2>5 DEF Abreast
    <2> QED
      BY <2>3, <2>4, <2>6 DEF SInv, SomeoneAbreast
  <1>4. ASSUME NEW p \in Processes, RunScript(p) PROVE SInv'
    <2>1. CASE GiveUp(p)
      <3>1. CASE ~Abreast(p)
        BY <1>4, <1>quit, <2>1, <3>1 DEF RunScript, history
      <3>2. CASE Abreast(p)
        <4>1. stage[p] = "working" /\ todo[p] # {} /\ todo[p] = Plan(p) /\ holder = Nobody
          BY <1>4, <3>2 DEF RunScript, Abreast
        <4>2. IF p \in Appliers THEN Applicable(Current(p)) ELSE Removable(Current(p))
          BY <4>1, PlanIsFeasible
        <4>3. stage'[p] = "inTransaction"
          BY <1>4, <1>types, <4>2 DEF RunScript, GoTo, TypeOK
        <4> QED
          BY <1>types, <2>1, <4>3 DEF GiveUp, GoTo, TypeOK
      <3> QED
        BY <3>1, <3>2
    <2>2. CASE ~GiveUp(p)
      <3>1. /\ stage[p] = "working" /\ stage' = [stage EXCEPT ![p] = "inTransaction"]
            /\ UNCHANGED <<tableExists, recorded, todo, faulted>>
        BY <1>4, <2>2 DEF RunScript, GoTo, history
      <3>2. UpToLatest' /\ OneAtMost'
        BY <1>idle, <1>types, <3>1 DEF TypeOK
      <3>3. SomeoneAbreast'
        BY <1>own, <1>types, <3>1 DEF Abreast, Plan, TypeOK
      <3> QED
        BY <3>2, <3>3 DEF SInv
    <2> QED
      BY <2>1, <2>2
  <1>5. ASSUME NEW p \in Processes, Conflict(p) PROVE SInv'
    <2>1. todo[p] # {}
      BY <1>5 DEF Conflict, IInv, ScriptRun
    <2>2. ~Abreast(p)
      BY <1>5, <2>1, PlanIsFeasible DEF Conflict, Abreast
    <2> QED
      BY <1>5, <1>quit, <2>2 DEF Conflict, history
  <1>6. ASSUME NEW p \in Processes, Commit(p) PROVE SInv'
    BY <1>6, CommitSInv
  <1>7. ASSUME NEW p \in Processes, Finish(p) PROVE SInv'
    <2>1. UpToLatest' /\ OneAtMost'
      BY <1>7, <1>idle, <1>types DEF Finish, GoTo, TypeOK, database
    <2>2. SomeoneAbreast'
      BY <1>7, <1>own, <1>types DEF Finish, GoTo, TypeOK, database, history, Abreast
    <2> QED
      BY <2>1, <2>2 DEF SInv
  <1>8. ASSUME NEW p \in Processes, Break(p) PROVE SInv'
    BY <1>8, <1>quit DEF Break
  <1>9. ASSUME NEW p \in Processes, Restart(p) PROVE SInv'
    <2>1. /\ stage'[p] = "start"
          /\ \A q \in Processes \ {p} : stage'[q] = stage[q] /\ todo'[q] = todo[q]
      BY <1>9, <1>types DEF Restart, GoTo, TypeOK
    <2>2. UpToLatest' /\ OneAtMost'
      BY <2>1 DEF SInv, UpToLatest, OneAtMost, Processes
    <2>3. SomeoneAbreast'
      BY <2>1 DEF SomeoneAbreast, Abreast
    <2> QED
      BY <2>2, <2>3 DEF SInv
  <1>10. ASSUME UNCHANGED vars PROVE SInv'
    BY <1>10 DEF SInv, UpToLatest, OneAtMost, SomeoneAbreast, Abreast, Plan, vars, database,
                 history
  <1> QED
    BY <1>1, <1>2, <1>3, <1>4, <1>5, <1>6, <1>7, <1>8, <1>9, <1>10 DEF Next, Step

-----------------------------------------------------------------------------
(***************************************************************************)
(* The migrations implement AtomicMigrations.  Only a commit changes what  *)
(* others see, and it changes the rows and the tables by its version.      *)
(***************************************************************************)
\* What others see are the tables of the versions that are recorded.
LEMMA VisibleIsRecorded ==
    ASSUME IInv
    PROVE  VisibleTables = recorded
  <1>1. CASE holder = Nobody
    BY <1>1 DEF VisibleTables, IInv, LedgerMatchesSchema
  <1>2. CASE holder # Nobody
    BY <1>2 DEF VisibleTables, IInv, TypeOK, OneInside, ScriptRun
  <1> QED
    BY <1>1, <1>2

\* Rows without a hole, without the next version, end with this one.
LEMMA RowsUpTo ==
    ASSUME TypeOK, NoGaps, NEW v \in Nat, v = 0 \/ v \in recorded, v + 1 \notin recorded
    PROVE  recorded = 1 .. v
  <1>1. 1 .. v \subseteq recorded
    BY DEF NoGaps
  <1>2. ASSUME NEW w \in recorded, v < w PROVE FALSE
    <2>1. w \in Versions /\ v + 1 \in 1 .. w
      BY <1>2 DEF TypeOK, Versions
    <2> QED
      BY <2>1 DEF NoGaps
  <1>3. \A w \in recorded : w \in 1 .. v
    BY <1>2 DEF TypeOK, Versions
  <1> QED
    BY <1>1, <1>3

\* Each step shows others a version more, a version less, or nothing.
LEMMA StepAtomic ==
    ASSUME IInv, IInv', [Next]_vars
    PROVE  [Atomic!Next]_<<recorded, VisibleTables>>
  <1>1. VisibleTables = recorded /\ VisibleTables' = recorded'
    <2>1. IInv => VisibleTables = recorded
      BY VisibleIsRecorded
    <2>2. IInv' => VisibleTables' = recorded'
      <3>1. CASE holder' = Nobody
        BY <3>1 DEF VisibleTables, IInv, LedgerMatchesSchema
      <3>2. CASE holder' # Nobody
        BY <3>2 DEF VisibleTables, IInv, TypeOK, OneInside, ScriptRun
      <3> QED
        BY <3>1, <3>2
    <2> QED
      BY <2>1, <2>2
  <1>2. ASSUME recorded' = recorded PROVE [Atomic!Next]_<<recorded, VisibleTables>>
    BY <1>1, <1>2
  <1>3. ASSUME NEW p \in Processes, Commit(p)
        PROVE  [Atomic!Next]_<<recorded, VisibleTables>>
    <2>1. PICK v \in Versions : v = Current(p) /\ v \in todo[p]
      BY <1>3, CurrentIsPlanned DEF Commit, IInv, ScriptRun
    <2>2. CASE p \in Appliers
      <3>1. recorded' = recorded \cup {v} /\ v \notin recorded /\ (v = 1 \/ v - 1 \in recorded)
        BY <1>3, <2>1, <2>2 DEF Commit, IInv, ScriptRun
      <3>2. v - 1 \in Nat /\ (v - 1) + 1 = v /\ v - 1 \in {0} \cup recorded
        BY <3>1 DEF Versions
      <3>3. recorded = 1 .. (v - 1)
        BY <3>1, <3>2, RowsUpTo DEF IInv
      <3>4. recorded' = 1 .. v
        BY <3>1, <3>3 DEF Versions
      <3>5. Atomic!MigrateUp(v)
        BY <1>1, <3>3, <3>4 DEF Atomic!MigrateUp, Atomic!At
      <3> QED
        BY <3>5 DEF Atomic!Next, Versions
    <2>3. CASE p \notin Appliers
      <3>1. recorded' = recorded \ {v} /\ v + 1 \notin recorded
        BY <1>3, <2>1, <2>3 DEF Commit, IInv, ScriptRun
      <3>2. CASE v \in recorded
        <4>1. recorded = 1 .. v
          BY <3>1, <3>2, RowsUpTo DEF IInv, Versions
        <4>2. recorded' = 1 .. (v - 1)
          BY <3>1, <4>1 DEF Versions
        <4>3. Atomic!MigrateDown(v)
          BY <1>1, <4>1, <4>2 DEF Atomic!MigrateDown, Atomic!At
        <4> QED
          BY <4>3 DEF Atomic!Next, Versions
      <3>3. CASE v \notin recorded
        BY <1>2, <3>1, <3>3
      <3> QED
        BY <3>2, <3>3
    <2> QED
      BY <2>2, <2>3
  <1>4. ASSUME NEW p \in Processes, Step(p) \/ Break(p) \/ Restart(p), ~Commit(p)
        PROVE  recorded' = recorded
    BY <1>4 DEF Step, LookForTable, CreateTable, ReadRecorded, RunScript, Conflict, Finish,
                Break, Restart, GiveUp, database
  <1>5. CASE UNCHANGED vars
    BY <1>2, <1>5 DEF vars, database
  <1> QED
    BY <1>2, <1>3, <1>4, <1>5 DEF Next

-----------------------------------------------------------------------------
(***************************************************************************)
(* The theorems.                                                           *)
(***************************************************************************)
\* Where an open transaction is, and what it will leave either way.
THEOREM InductiveInvariant == Spec => []IInv
  BY InitIInv, StepIInv, PTL DEF Spec

\* Rows and stages stay in their types, for any processes and any last version.
THEOREM TypeCorrect == Spec => []TypeOK
  <1>1. IInv => TypeOK
    BY DEF IInv
  <1> QED
    BY <1>1, InductiveInvariant, PTL

\* A version has a row exactly when its tables are there, whichever processes
\* conflict, fail or die.
THEOREM LedgerNeverLies == Spec => []LedgerMatchesSchema
  <1>1. IInv => LedgerMatchesSchema
    BY DEF IInv
  <1> QED
    BY <1>1, InductiveInvariant, PTL

\* No version is recorded without those before it, although processes apply and
\* revert what they read earlier.
THEOREM NeverAnyGap == Spec => []NoGaps
  <1>1. IInv => NoGaps
    BY DEF IInv
  <1> QED
    BY <1>1, InductiveInvariant, PTL

\* A server that serves has the whole schema, unless somebody reverts.
THEOREM ServersFindWholeSchema == Spec => []ServesWholeSchema
  <1>1. IInv => ServesWholeSchema
    BY DEF IInv, Progressed, ServesWholeSchema, TypeOK
  <1> QED
    BY <1>1, InductiveInvariant, PTL

\* With no fault but each other, one of the processes gets through, however many
\* start at once and however their steps mix.
THEOREM SomeoneGetsThrough ==
    ASSUME Processes # {}
    PROVE  Spec => []SomeoneSurvives
  <1>1. Init => SInv
    BY InitSInv
  <1>2. Spec => []SInv
    BY <1>1, StepSInv, InductiveInvariant, PTL DEF Spec
  <1>3. SInv => SomeoneSurvives
    BY DEF SInv, SomeoneAbreast, Abreast, SomeoneSurvives
  <1> QED
    BY <1>2, <1>3, PTL

\* The detailed migrations implement the atomic ones, for any number of processes
\* and versions: whatever step comes between a script and its row.
THEOREM MigrationsAreAtomic == Spec => MigratesAtomically
  <1>1. Init => Atomic!Init
    BY DEF Init, Atomic!Init, Atomic!At, VisibleTables
  <1>2. IInv /\ IInv' /\ [Next]_vars => [Atomic!Next]_<<recorded, VisibleTables>>
    BY StepAtomic
  <1> QED
    BY <1>1, <1>2, InductiveInvariant, PTL DEF Spec, MigratesAtomically, Atomic!Spec
=============================================================================
