--------------------------- MODULE GovernedCalls ---------------------------
(***************************************************************************)
(* What the runs Manager promises about each call, whatever the others do: *)
(* it is judged at most once, what it leaves in the database appears in    *)
(* one step or not at all, and nothing governed appears without a verdict  *)
(* that allowed it.                                                        *)
(***************************************************************************)
CONSTANT Request

VARIABLES verdict,    \* per call: "none", "allow" or "deny"
          published   \* per call: the kinds of records it has left

\* An audit event, a governance event of a governed operation or of a comparison
\* upsert, an artifact row, a review action.
Evidence == {"audit", "effect", "comparison", "artifact", "review"}

Init ==
    /\ verdict = [q \in Request |-> "none"]
    /\ published = [q \in Request |-> {}]

Judge(q) ==
    /\ verdict[q] = "none"
    /\ published[q] = {}
    /\ \E v \in {"allow", "deny"} : verdict' = [verdict EXCEPT ![q] = v]
    /\ UNCHANGED published

\* Records come together, always with an audit event; artifacts and reviews only
\* with the governance event of the operation that made them.
Publish(q, records) ==
    /\ published[q] = {}
    /\ "audit" \in records
    /\ {"artifact", "review"} \cap records # {} => "effect" \in records
    /\ "effect" \in records => verdict[q] = "allow"
    /\ published' = [published EXCEPT ![q] = records]
    /\ UNCHANGED verdict

Next ==
    \E q \in Request :
        \/ Judge(q)
        \/ \E records \in SUBSET Evidence : Publish(q, records)

Spec == Init /\ [][Next]_<<verdict, published>>
=============================================================================
