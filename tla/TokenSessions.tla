--------------------------- MODULE TokenSessions ---------------------------
(***************************************************************************)
(* What the OAuth store promises of a login, with no files, lock or clock: *)
(* a code opens at most one session, a session has one refresh token that  *)
(* can be rotated, rotation hands that role to a new token, and a closed   *)
(* session stays closed.                                                   *)
(***************************************************************************)
EXTENDS Integers

CONSTANTS Code, Token   \* a session is named by the token it opens with

VARIABLES
  phase,    \* of each session: "unborn", "live" or "closed"
  current,  \* the one refresh token of a live session; 0 if there is none
  openedBy  \* the code that opened it; 0 before

vars == <<phase, current, openedBy>>

Init ==
  /\ phase = [s \in Token |-> "unborn"]
  /\ current = [s \in Token |-> 0]
  /\ openedBy = [s \in Token |-> 0]

Open(s, k) ==
  /\ phase[s] = "unborn"
  /\ \A r \in Token : openedBy[r] # k
  /\ \A r \in Token : current[r] # s
  /\ phase' = [phase EXCEPT ![s] = "live"]
  /\ current' = [current EXCEPT ![s] = s]
  /\ openedBy' = [openedBy EXCEPT ![s] = k]

Rotate(s, t) ==
  /\ phase[s] = "live"
  /\ phase[t] = "unborn"
  /\ \A r \in Token : current[r] # t
  /\ current' = [current EXCEPT ![s] = t]
  /\ UNCHANGED <<phase, openedBy>>

\* A replay, a reuse, a revocation, a removal or expiry ends sessions.
Close(S) ==
  /\ \A s \in S : phase[s] = "live"
  /\ phase' = [s \in Token |-> IF s \in S THEN "closed" ELSE phase[s]]
  /\ current' = [s \in Token |-> IF s \in S THEN 0 ELSE current[s]]
  /\ UNCHANGED openedBy

Next ==
  \/ \E s \in Token, k \in Code : Open(s, k)
  \/ \E s, t \in Token : Rotate(s, t)
  \/ \E S \in SUBSET Token : Close(S)

Spec == Init /\ [][Next]_vars
=============================================================================
