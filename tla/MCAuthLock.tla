------------------------------ MODULE MCAuthLock ------------------------------
\* Two threads of the gateway and one of the CLI.
EXTENDS AuthLock, TLC

CONSTANTS g1, g2, k1, gateway, cli

MCProcessOf == [t \in Caller |-> IF t = k1 THEN cli ELSE gateway]
MCTries == [t \in Caller |-> IF t = g1 THEN 2 ELSE 1]
=============================================================================
