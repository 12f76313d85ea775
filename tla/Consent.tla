------------------------------- MODULE Consent -------------------------------
(***************************************************************************)
(* What the gateway promises the operator about a gated tool call, with    *)
(* none of the registry, the channels or the waiting: a call acts only     *)
(* because its class is `auto`, because a standing consent for exactly its *)
(* client, family, vault and class has not run out, or because a human     *)
(* said yes to this very call and its token was good after that.           *)
(***************************************************************************)
EXTENDS Integers, Functions

CONSTANTS Call, Token,
          TokenOf,     \* the token each call presents
          GrantTTL     \* how long a standing consent lasts

VARIABLES mode,      \* the operator's mode for the class of each call
          key,       \* what a consent to each call would cover
          fate,      \* what became of each call
          yes,       \* the calls a human said yes to
          standing,  \* the standing consents: when each runs out
          revoked,   \* the tokens withdrawn
          now

vars == <<mode, key, fate, yes, standing, revoked, now>>

Init ==
  /\ fate = [c \in Call |-> "open"]
  /\ yes = {}
  /\ standing = <<>>
  /\ revoked = {}
  /\ now = 0

Becomes(c, from, to) == fate[c] = from /\ fate' = [fate EXCEPT ![c] = to]

SayYes(c) ==
  /\ yes' = yes \union {c}
  /\ UNCHANGED <<mode, key, fate, standing, revoked, now>>

Withdraw ==
  /\ revoked' \in SUBSET Token /\ revoked \subseteq revoked'
  /\ UNCHANGED <<mode, key, fate, yes, standing, now>>

LetBy(c) ==
  /\ Becomes(c, "open", "cleared")
  /\ \/ mode[c] = "auto"
     \/ mode[c] = "ask_once" /\ key[c] \in DOMAIN standing /\ standing[key[c]] > now
  /\ UNCHANGED <<mode, key, yes, standing, revoked, now>>

Vouch(c) ==
  /\ Becomes(c, "open", "vouched")
  /\ c \in yes /\ mode[c] \in {"ask_once", "ask_always"} /\ TokenOf[c] \notin revoked
  /\ UNCHANGED <<mode, key, yes, standing, revoked, now>>

Settle(c) ==
  /\ Becomes(c, "vouched", "cleared")
  /\ standing' = IF mode[c] = "ask_once"
                 THEN [k \in DOMAIN standing \union {key[c]} |->
                         IF k = key[c] THEN now + GrantTTL ELSE standing[k]]
                 ELSE standing
  /\ UNCHANGED <<mode, key, yes, revoked, now>>

Act(c) == Becomes(c, "cleared", "acted") /\ UNCHANGED <<mode, key, yes, standing, revoked, now>>

Refuse(c) == Becomes(c, "open", "refused") /\ UNCHANGED <<mode, key, yes, standing, revoked, now>>

Later ==
  /\ now' = now + 1
  /\ UNCHANGED <<mode, key, fate, yes, standing, revoked>>

Next ==
  \/ Withdraw \/ Later
  \/ \E c \in Call : SayYes(c) \/ LetBy(c) \/ Vouch(c) \/ Settle(c) \/ Act(c) \/ Refuse(c)

Spec == Init /\ [][Next]_vars
=============================================================================
