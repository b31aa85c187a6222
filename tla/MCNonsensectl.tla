--------------------------- MODULE MCNonsensectl ---------------------------
(* Small instances of Nonsensectl: root and another user share tokens. *)
EXTENDS Nonsensectl, TLC

CONSTANTS alice, root

P(path, text) == [path |-> path, text |-> text]
Root == <<P(<<"network", "role">>, "root")>>
Client == <<P(<<"network", "role">>, "client"), P(<<"network", "uplink">>, "a")>>
Broken == <<P(<<"network">>, "5"), P(<<"network", "role">>, "root")>>
Lists == {Root, Client, Broken}

NoJson == "5" :> (<<>> :> Scalar("5"))
NoNames == {}
EmptyFile == {"!metadata" :> ((<<>> :> Object) @@ (<<"version">> :> Scalar("1")))}
MCUid == (alice :> 1) @@ (root :> 0)

C(verb, token, wellFormed, name, parameters) ==
    [verb |-> verb, token |-> token, wellFormed |-> wellFormed,
     name |-> name, parameters |-> parameters]
Plain(verb, token)  == C(verb, token, TRUE, None, <<>>)

Printed(id)         == [id |-> id, printed |-> TRUE]
Bare(id)            == [id |-> id, printed |-> FALSE]
Garbage             == [id |-> None, printed |-> FALSE]

Transact ==
    {Plain("get new-transaction-token", None)}
    \cup UNION {{C("add", Printed(id), TRUE, "a", Root), C("add", Printed(id), TRUE, "b", Client),
                 Plain("commit", Bare(id)), Plain("discard", Printed(id))} : id \in Ids}

(* One command of every other verb, and mistakes of every kind. *)
Others ==
    {Plain("commit", Garbage), Plain("start", None), Plain("stop", None),
     Plain("lock", None), Plain("get", None)}
    \cup {C("add", Printed(id), TRUE, "a", Broken) : id \in Ids}

MCCommands == Transact \cup Others
=============================================================================
