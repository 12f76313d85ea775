----------------------------- MODULE MCVaultSync -----------------------------
EXTENDS VaultSync
CONSTANTS manifest, body, extra
MCShips == [r \in Release |-> IF r = 1 THEN {manifest, body, extra} ELSE {manifest, body}]
=============================================================================
