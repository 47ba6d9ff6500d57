-------------------------- MODULE MCServerProcess --------------------------
(***************************************************************************)
(* An instance of ServerProcess: two calls about records and an execution *)
(* share a pool of two connections, in a process that is started twice.    *)
(***************************************************************************)
EXTENDS ServerProcess

CONSTANTS p, q, e, bot, otherBot, policy

TwoRequests == {p, q}

OneExecution == {e}

SomeBots == {bot, otherBot}

OnePolicy == {policy}

SomeTexts == {"x", "y"}

PolicyRow == [name |-> "x", enabled |-> TRUE, text |-> "x", rules |-> "x"]

OnlyAPolicy ==
    {[id \in SomeBots \cup OnePolicy |-> IF id = policy THEN PolicyRow ELSE NoRow]}

Update(target, body) ==
    [op |-> "update", kind |-> IF target = policy THEN "policy" ELSE "bot",
     id |-> target, body |-> body]

CreateBot(body) == [op |-> "create", kind |-> "bot", id |-> NoRow, body |-> body]

\* One request updates the policy, or a bot that may not exist yet, with what
\* validation refuses, or creates a bot; the other updates another field of the
\* policy, or creates a bot.  The pairs left out are mirror images of these, or
\* twice the same update.
CallsOfP ==
    {Update(policy, [enabled |-> FALSE]),
     Update(bot, [status |-> "unknown"]),
     CreateBot([name |-> "y", config |-> "y"])}

CallsOfQ ==
    {Update(policy, [rules |-> "y"]),
     CreateBot([name |-> "y", config |-> "y"])}

SomeCalls == CallsOfP \cup CallsOfQ

TwoCallers == [r \in TwoRequests |-> IF r = p THEN CallsOfP ELSE CallsOfQ]

TwoSubjects == <<"compare", "screening">>
=============================================================================
