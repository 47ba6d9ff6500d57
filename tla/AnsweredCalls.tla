--------------------------- MODULE AnsweredCalls ---------------------------
(***************************************************************************)
(* What a server promises to those who call it, whatever becomes of its    *)
(* process: a call takes effect at most once, and while its caller waits,  *)
(* unless the server has lost track of it; what the caller is told is what *)
(* became of the call, and an error when the server has lost track; a      *)
(* caller who is told nothing sees the connection cut.  A call that was    *)
(* lost track of may take effect at any time, after the error or the cut   *)
(* too, until it settles.                                                  *)
(***************************************************************************)
EXTENDS Naturals

CONSTANT Call

VARIABLES client,   \* per call what its caller knows
          effects,  \* per call how often it has taken effect
          lost      \* calls of which the server does not know what becomes

vars == <<client, effects, lost>>

Init ==
    /\ client = [q \in Call |-> "unasked"]
    /\ effects = [q \in Call |-> 0]
    /\ lost = {}

Ask(q) ==
    /\ client[q] = "unasked"
    /\ client' = [client EXCEPT ![q] = "waiting"]
    /\ UNCHANGED <<effects, lost>>

TakeEffect(q) ==
    /\ client[q] = "waiting" /\ q \notin lost /\ effects[q] = 0
    /\ effects' = [effects EXCEPT ![q] = 1]
    /\ UNCHANGED <<client, lost>>

\* Calls of which the server can lose track: asked, and without an effect.
Undecided == {q \in Call : client[q] = "waiting" /\ effects[q] = 0}

LoseTrack(q) ==
    /\ q \in Undecided
    /\ lost' = lost \cup {q}
    /\ UNCHANGED <<client, effects>>

\* What was lost track of takes effect after all, or will not.
Settle(q) ==
    /\ q \in lost /\ effects[q] = 0
    /\ \/ effects' = [effects EXCEPT ![q] = 1] /\ UNCHANGED lost
       \/ lost' = lost \ {q} /\ UNCHANGED effects
    /\ UNCHANGED client

\* Success is an effect, heard of; an error is none, or nobody knows.
Truth(q) ==
    IF effects[q] = 1 /\ q \notin lost THEN {"ok"}
    ELSE IF q \in lost THEN {"error"} ELSE {"notFound", "error"}

Tell(q) ==
    /\ client[q] = "waiting"
    /\ \E word \in Truth(q) : client' = [client EXCEPT ![q] = word]
    /\ UNCHANGED <<effects, lost>>

\* The process ends: everybody who waits is cut off, and some calls are lost track of.
CutOff ==
    /\ client' = [q \in Call |-> IF client[q] = "waiting" THEN "cut" ELSE client[q]]
    /\ \E Q \in SUBSET Undecided : lost' = lost \cup Q
    /\ UNCHANGED effects

Next ==
    \/ \E q \in Call : Ask(q) \/ TakeEffect(q) \/ LoseTrack(q) \/ Settle(q) \/ Tell(q)
    \/ CutOff

Spec == Init /\ [][Next]_vars
=============================================================================
