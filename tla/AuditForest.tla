---------------------------- MODULE AuditForest ----------------------------
(***************************************************************************)
(* What the governance ledger promises as the code stands: a set of        *)
(* hash-linked events that only grows, and in which every event's previous *)
(* hash is the root or the hash of an event that is also in the ledger.    *)
(* It is a forest, not a list: nothing here says that two events cannot    *)
(* name the same predecessor.                                              *)
(***************************************************************************)
CONSTANTS Id,       \* identities of events, standing for their hashes
          Genesis   \* the empty hash a first event links to

VARIABLE forest     \* [id, prev] of every published event

Links == [id : Id, prev : Id \cup {Genesis}]

IdsOf(events) == {e.id : e \in events}

\* Every link leads to the root or to a member.
Grounded(events) == \A e \in events : e.prev \in IdsOf(events) \cup {Genesis}

Init == forest = {}

\* A transaction publishes its events together; none takes the place of another.
Publish ==
    /\ forest \subseteq forest'
    /\ forest' \subseteq Links
    /\ IdsOf(forest' \ forest) \cap IdsOf(forest) = {}
    /\ Grounded(forest')

Spec == Init /\ [][Publish]_forest
=============================================================================
