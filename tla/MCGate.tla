-------------------------------- MODULE MCGate --------------------------------
\* Two calls of one client: with two tokens of one family (a refresh lies
\* between them), or with tokens of two families (two consents).
EXTENDS Gate, TLC

CONSTANTS c1, c2, alice, t1, t2, f1, f2, v1, v2

MCClientOf == [c \in Call |-> alice]
MCTokenOf == [c \in Call |-> IF c = c1 THEN t1 ELSE t2]
MCOwnerOf == (t1 :> alice) @@ (t2 :> alice)
MCOneFamily == (t1 :> f1) @@ (t2 :> f1)
MCTwoFamilies == (t1 :> f1) @@ (t2 :> f2)

Policy(r, m) == [read_only |-> r, mutating |-> m]
MCAskOnce == {Policy("auto", "ask_once")}
MCPolicies == {Policy("ask_once", "ask_once"), Policy("ask_once", "ask_always"),
               Policy("deny", "ask_once"), Policy("auto", "ask_once")}
MCOneVault == [c \in Call |-> {<<v1, "mutating">>}]
MCScopes == [c \in Call |->
               IF c = c1 THEN {<<v1, "mutating">>}
               ELSE {<<v1, "mutating">>, <<v2, "mutating">>, <<v1, "read_only">>}]
=============================================================================
