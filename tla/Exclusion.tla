------------------------------ MODULE Exclusion ------------------------------
(***************************************************************************)
(* What `auth.lock` promises those who write the store, with no handles,   *)
(* helpers, time-outs or counters: one may come in when nobody is inside,  *)
(* is inside until it leaves or is killed, and what the lock guards is     *)
(* written from inside only.  AuthLock is how the code brings that about;  *)
(* AuthStore takes the coming in for granted and keeps the rest.           *)
(***************************************************************************)
CONSTANT Locker
VARIABLES
  inside,   \* those with the guard of the lock in their hands
  guarded   \* what they write

vars == <<inside, guarded>>

Init == inside = {}

ComeIn(t) == inside = {} /\ inside' = {t} /\ UNCHANGED guarded

Leave == inside # {} /\ inside' = {} /\ UNCHANGED guarded

Write == inside # {} /\ UNCHANGED inside

Next == (\E t \in Locker : ComeIn(t)) \/ Leave \/ Write

Spec == Init /\ [][Next]_vars
=============================================================================
