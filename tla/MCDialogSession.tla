-------------------------- MODULE MCDialogSession ---------------------------
(* Two bots, and policies that start, continue and leave a state, and that *)
(* write the same keys by parameters and by output.session.context, one of *)
(* them twice, and the key of the text of the answer.                      *)
EXTENDS DialogSession

CONSTANTS b1, b2, k1, k2, v1, v2, weather, music, asked

Start ==
    [domain |-> weather, trigger |-> NoName, states |-> {asked},
     params |-> {k1}, context |-> <<>>]

\* It writes k1 to two entries.
Continue ==
    [domain |-> weather, trigger |-> asked, states |-> {NoName},
     params |-> {}, context |-> <<{k1}, {k1}>>]

\* Its state, and the key that it writes to, are templates.
Leave ==
    [domain |-> music, trigger |-> NoName, states |-> {asked, NoName},
     params |-> {k2}, context |-> <<{k1, LastTts}>>]

\* A state of the same name in another domain.
Elsewhere ==
    [domain |-> music, trigger |-> asked, states |-> {NoName},
     params |-> {LastTts}, context |-> <<>>]

MCBot == {b1, b2}
MCKey == {k1, k2, LastTts}
MCValue == {v1, v2}
MCPolicies == {Start, Continue, Leave, Elsewhere}

\* Policies that write a key at most once.
OncePolicies == {Start, [Continue EXCEPT !.context = <<{k1}, {k2}>>]}
=============================================================================
