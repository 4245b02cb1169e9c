--------------------------- MODULE MCContentServer ---------------------------
(***************************************************************************)
(* This device, whose name begins with the broadcast domain, and a peer    *)
(* that has the rest of it as its name and the same content: the Interest  *)
(* <<"ndn", "me">> may be meant for either.                                *)
(***************************************************************************)
EXTENDS ContentServer

MCUser == <<"ndn", "me">>
MCComponent == {"ndn", "me", "home"}
MCDevice == {MCUser, <<"me">>}
MCBroadcast == <<"ndn">>
MCHint == {MCBroadcast, <<"home">>}

Ask(hint, dev, kind, key, n, ours) ==
    [hint |-> hint, dev |-> dev, kind |-> kind, key |-> key, n |-> n, ours |-> ours]

MCRequest ==
    {Ask(hint, MCUser, "file", "x", 0, TRUE) : hint \in {<<>>, MCBroadcast}}
    \cup {Ask(hint, <<"me">>, "file", "x", 0, TRUE) : hint \in MCHint}
    \cup {Ask(<<"ndn">>, MCUser, "action", "update", 1, TRUE)}
    \cup {Ask(<<"ndn">>, MCUser, "action", "delete", 2, TRUE)}
    \cup {Ask(<<"ndn">>, MCUser, "action", "update", 2, FALSE)}

MCPorts == {{}, Conversions}
=============================================================================
