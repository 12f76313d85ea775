-------------------------------- MODULE MCAuth --------------------------------
(***************************************************************************)
(* The store under two processes, and authorize requests, which hold its   *)
(* lock for one step at a time, next to a third process.  The two are      *)
(* checked together: which of them runs is chosen to begin with.           *)
(***************************************************************************)
EXTENDS Authorize, TLC

CONSTANT cli   \* the process that serves no authorize request

VARIABLE part   \* what runs

AuthInit == AuthorizeInit /\ part \in {"store", "authorize"}

\* Two processes, gateways or not, that call the store.
StoreStep == Next /\ lock' # cli /\ UNCHANGED authVars

\* Requests that are served while a process works on the store: within smaller
\* bounds than the store alone has.
AuthorizeStep ==
  AuthorizeNext /\ now' < MaxNow /\ minted'.client < MaxClient /\ minted'.pair < MaxPair

AuthNext ==
  /\ UNCHANGED part
  /\ \/ part = "store" /\ StoreStep
     \/ part = "authorize" /\ AuthorizeStep

AuthSpec == AuthInit /\ [][AuthNext]_<<allVars, part>>

Symmetry == Permutations(Handler)
=============================================================================
