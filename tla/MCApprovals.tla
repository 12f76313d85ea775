----------------------------- MODULE MCApprovals -----------------------------
\* The registry with two calls of one client.
EXTENDS Approvals, TLC

CONSTANTS c1, c2, alice

MCClientOf == (c1 :> alice) @@ (c2 :> alice)
=============================================================================
