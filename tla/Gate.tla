--------------------------------- MODULE Gate ---------------------------------
(***************************************************************************)
(* A gated tool call from the bearer gate to the write: the policy         *)
(* decision (gateway/policy.rs), the wait for a human with everything that *)
(* can cut it short, the check at Allow time, and the grant that an        *)
(* approval leaves behind (gateway/server.rs).  The waiting itself is the  *)
(* registry of module Approvals, whose steps happen inside the steps here. *)
(***************************************************************************)
EXTENDS Approvals

CONSTANTS Token, Family, Vault,
          TokenOf,     \* the token each call presents
          FamilyOf,    \* the family of each token
          OwnerOf,     \* the client each token was issued to
          Modes,       \* the policies to explore, each [Class -> PolicyMode]
          Requests,    \* the <<vault, class>> pairs each call may name
          GrantTTL     \* grant_ttl_minutes * 60

PolicyMode == {"auto", "ask_once", "ask_always", "deny"}
Class == {"read_only", "mutating"}

ASSUME TokenOfType == TokenOf \in [Call -> Token]
ASSUME FamilyOfType == FamilyOf \in [Token -> Family]
ASSUME OwnerOfType == OwnerOf \in [Token -> Client]
ASSUME OwnCalls == \A c \in Call : OwnerOf[TokenOf[c]] = ClientOf[c]
ASSUME ModesType == Modes \subseteq [Class -> PolicyMode]
ASSUME RequestsType == Requests \in [Call -> SUBSET (Vault \X Class)]
ASSUME GrantTTLNat == GrantTTL \in Nat

VARIABLES
  mode,        \* the loaded policy
  request,     \* what each call asks for
  stage,       \* how far the handler of each call has got
  verdict,     \* the decision and channel each call's audit line will carry
  gone,        \* the calls whose client has disconnected
  revoked,     \* the tokens revoked in the store
  registered,  \* the clients registered in the store
  grants       \* Grants.inner: when each grant runs out

gateVars == <<mode, request, stage, verdict, gone, revoked, registered, grants>>
allVars == <<vars, gateVars>>

ModeOf(c) == mode[request[c][2]]

\* GrantKey::new.
GrantKey(c) == <<ClientOf[c], FamilyOf[TokenOf[c]], request[c][1], request[c][2]>>
Key == Client \X Family \X Vault \X Class

GateTypeOK ==
  /\ TypeOK
  /\ mode \in [Class -> PolicyMode]
  /\ request \in [Call -> Vault \X Class]
  /\ stage \in [Call -> {"new", "admitted", "undecided", "asking", "cut", "client", "tokens",
                         "vouched", "cleared", "acted", "refused", "dropped"}]
  /\ verdict \in [Call -> Answer \union {TimedOut, AtCapacity, Undecided}]
  /\ gone \subseteq Call
  /\ revoked \subseteq Token
  /\ registered \subseteq Client
  /\ DOMAIN grants \subseteq Key /\ Range(grants) \subseteq Nat

GateInit ==
  /\ Init
  /\ mode \in Modes
  /\ request \in {q \in [Call -> UNION Range(Requests)] : \A c \in Call : q[c] \in Requests[c]}
  /\ stage = [c \in Call |-> "new"]
  /\ verdict = [c \in Call |-> Undecided]
  /\ gone = {}
  /\ revoked = {}
  /\ registered = Client
  /\ grants = <<>>

Move(c, from, to) == stage[c] = from /\ stage' = [stage EXCEPT ![c] = to]

Refuse(c, from, why) ==
  /\ Move(c, from, "refused")
  /\ verdict' = [verdict EXCEPT ![c] = why]

-----------------------------------------------------------------------------
(* From the bearer gate to the policy decision *)

Admit(c) ==
  /\ \/ Move(c, "new", "admitted") /\ TokenOf[c] \notin revoked
     \/ Move(c, "new", "refused") /\ TokenOf[c] \in revoked
  /\ UNCHANGED <<vars, mode, request, verdict, gone, revoked, registered, grants>>

\* Mutant: a grant of the client for the vault, whichever family it came from.
HasGrantOfClient(c) ==
  \E k \in DOMAIN grants :
     k[1] = ClientOf[c] /\ k[3] = request[c][1] /\ k[4] = request[c][2] /\ grants[k] > now

\* Grants::has.
HasGrant(c) == GrantKey(c) \in DOMAIN grants /\ grants[GrantKey(c)] > now

Allowed(c) == ModeOf(c) = "auto" \/ (ModeOf(c) = "ask_once" /\ HasGrant(c))

Decide(c) ==
  /\ \/ Allowed(c) /\ Move(c, "admitted", "cleared")
     \/ ModeOf(c) = "deny" /\ Move(c, "admitted", "refused")
     \/ /\ ModeOf(c) = "ask_always" \/ (ModeOf(c) = "ask_once" /\ ~HasGrant(c))
        /\ Move(c, "admitted", "undecided")
  /\ UNCHANGED <<vars, mode, request, verdict, gone, revoked, registered, grants>>

-----------------------------------------------------------------------------
(* Waiting for a human: await_approval *)

Ask(c) ==
  /\ \/ RegisterAccepted(c) /\ Move(c, "undecided", "asking") /\ UNCHANGED verdict
     \/ (RegisterShut(c) \/ RegisterRefused(c)) /\ Refuse(c, "undecided", outcome'[c])
  /\ UNCHANGED <<mode, request, gone, revoked, registered, grants>>

\* Mutant: the select takes whichever branch is ready.
AttendedOrNot(c) == TRUE

\* The select is biased: a client known to be gone is looked at before the
\* answer is.
Attended(c) == stage[c] = "asking" => c \notin gone

\* A call that denied itself has sent that denial before it waits on.
SaidSo(c) ==
  stage[c] = "cut" => \A h \in hands : h.call = c => h.answer.via \notin {"disconnect", "revoked"}

\* The answer, or the time-out, reaches the handler.
Hear(c) ==
  /\ Receive(c) \/ Elapse(c)
  /\ Attended(c) /\ SaidSo(c)
  /\ UNCHANGED gateVars

\* check_access_state says Revoked: the token, or the client it is of.
CredentialGone(c) == TokenOf[c] \in revoked \/ ClientOf[c] \notin registered

\* The other branches of the select.  The call denies itself through the
\* registry if nobody has answered it yet.
Cut(c, via) ==
  /\ call[c] = "waiting"
  /\ Move(c, "asking", "cut")
  /\ \/ via = "disconnect" /\ c \in gone
     \/ via = "revoked" /\ c \notin gone /\ CredentialGone(c)
  /\ verdict' = [verdict EXCEPT ![c] = [d |-> "deny", via |-> via]]
  /\ Resolve(c, "deny", via) \/ (c \notin Pending /\ UNCHANGED vars)
  /\ UNCHANGED <<mode, request, gone, revoked, registered, grants>>

\* Mutant: whatever the registry answered.
AfterCutAsAnswered(c) == outcome[c]

\* outcome_on_disconnect and outcome_on_revoke: a denial that came first keeps
\* its channel, and so does a time-out of a revoked call; anything else is
\* this denial.
AfterCut(c) ==
  IF outcome[c].d = "deny" \/ (outcome[c] = TimedOut /\ verdict[c].via = "revoked")
  THEN outcome[c] ELSE verdict[c]

Conclude(c) ==
  /\ call[c] = "over"
  /\ \/ stage[c] = "cut" /\ Refuse(c, "cut", AfterCut(c))
     \/ outcome[c].d # "approve" /\ Refuse(c, "asking", outcome[c])
     \/ outcome[c].d = "approve" /\ Move(c, "asking", "client") /\ UNCHANGED verdict
  /\ UNCHANGED <<vars, mode, request, gone, revoked, registered, grants>>

-----------------------------------------------------------------------------
(* The check at Allow time, and what follows it *)

Revoked == [d |-> "deny", via |-> "revoked"]
Unverified == [d |-> "deny", via |-> "unverified"]

CheckClient(c) ==
  /\ \/ ClientOf[c] \in registered /\ Move(c, "client", "tokens") /\ UNCHANGED verdict
     \/ ClientOf[c] \notin registered /\ Refuse(c, "client", Revoked)
     \/ Refuse(c, "client", Unverified)
  /\ UNCHANGED <<vars, mode, request, gone, revoked, registered, grants>>

\* Mutant: the client's registration is all that is looked at.
StillRegistered(c) == ClientOf[c] \in registered

\* What list_tokens says of the token the call presented.
StillGood(c) == TokenOf[c] \notin revoked

CheckTokens(c) ==
  /\ \/ StillGood(c) /\ Move(c, "tokens", "vouched") /\ UNCHANGED verdict
     \/ ~StillGood(c) /\ Refuse(c, "tokens", Revoked)
     \/ Refuse(c, "tokens", Unverified)
  /\ UNCHANGED <<vars, mode, request, gone, revoked, registered, grants>>

\* Grants::record, the only writer of grants.
Recorded(c) ==
  IF ModeOf(c) # "ask_always"
  THEN [k \in DOMAIN grants \union {GrantKey(c)} |->
          IF k = GrantKey(c) THEN now + GrantTTL ELSE grants[k]]
  ELSE grants

Record(c) ==
  /\ Move(c, "vouched", "cleared")
  /\ grants' = Recorded(c)
  /\ verdict' = [verdict EXCEPT ![c] = outcome[c]]
  /\ UNCHANGED <<vars, mode, request, gone, revoked, registered>>

\* The tool's own work: capture_note.
Act(c) ==
  /\ Move(c, "cleared", "acted")
  /\ UNCHANGED <<vars, mode, request, verdict, gone, revoked, registered, grants>>

-----------------------------------------------------------------------------
(* What happens around a call *)

Disconnect(c) ==
  /\ stage[c] \in {"asking", "undecided"} /\ c \notin gone
  /\ gone' = gone \union {c}
  /\ UNCHANGED <<vars, mode, request, stage, verdict, revoked, registered, grants>>

\* The handler's future is dropped while its call waits.
Drop(c) ==
  /\ Abandon(c) /\ Move(c, "asking", "dropped")
  /\ UNCHANGED <<mode, request, verdict, gone, revoked, registered, grants>>

\* `tokens revoke`: one token, a family's, or a client's.
RevokeTokens(ts) ==
  /\ revoked' = revoked \union ts /\ revoked' # revoked
  /\ UNCHANGED <<vars, mode, request, stage, verdict, gone, registered, grants>>

TokensOf(k) == {t \in Token : OwnerOf[t] = k}

\* The last save of `clients remove`: the client's tokens were revoked by the
\* first (module AuthStore).
RemoveClient(k) ==
  /\ k \in registered /\ TokensOf(k) \subseteq revoked
  /\ registered' = registered \ {k}
  /\ UNCHANGED <<vars, mode, request, stage, verdict, gone, revoked, grants>>

Revocation ==
  \/ \E t \in Token : RevokeTokens({t})
  \/ \E f \in Family : RevokeTokens({t \in Token : FamilyOf[t] = f})
  \/ \E k \in Client : RevokeTokens(TokensOf(k)) \/ RemoveClient(k)

\* The registry's own steps that are none of the call's.
Around(c) ==
  /\ \/ BeginWait(c) \/ Forget(c) \/ GiveUpWaiting(c) \/ AttachPrompt(c) \/ ResolveNative(c)
     \/ \E h \in hands : h.call = c /\ (Withdraw(h) \/ Send(h))
  /\ UNCHANGED gateVars

Operator ==
  /\ \/ DenyAll
     \/ \E c \in Call : Dismiss(c) \/ \E d \in Decision : Click(c, d)
     \/ \E c \in Call, d \in Decision, via \in Channel : Resolve(c, d, via)
  /\ UNCHANGED gateVars

Handle(c) ==
  \/ Admit(c) \/ Decide(c) \/ Ask(c) \/ Hear(c) \/ Conclude(c)
  \/ Cut(c, "disconnect") \/ Cut(c, "revoked")
  \/ CheckClient(c) \/ CheckTokens(c) \/ Record(c) \/ Act(c)

GateNext ==
  \/ Tick /\ UNCHANGED gateVars
  \/ Operator \/ Revocation
  \/ \E c \in Call : Handle(c) \/ Around(c) \/ Disconnect(c) \/ Drop(c)

\* A handler and the registry's threads keep running; a select that can take
\* the disconnect or the revocation branch for ever takes it (the first wakes
\* it, the second polls every five seconds).  The clock need not advance.
GateSpec ==
  /\ GateInit /\ [][GateNext]_allVars
  /\ \A c \in Call : WF_allVars(Handle(c)) /\ WF_allVars(Around(c))
  /\ \A c \in Call : WF_allVars(Cut(c, "disconnect")) /\ WF_allVars(Cut(c, "revoked"))

-----------------------------------------------------------------------------
(* Properties *)

Human == {"http", "telegram", "native"}

\* The audit line names who decided: a human's channel only if that human's
\* answer was accepted for this call, and each of the gateway's own channels
\* only if what it stands for did happen.
AuditNamesTheDecider ==
  \A c \in Call :
    LET v == verdict[c]
    IN  stage[c] \in {"cleared", "acted", "refused"} =>
          /\ v.d = "approve" => stage[c] # "refused"
          /\ v.via \in Human => [call |-> c, answer |-> v] \in acked
          /\ v.via = "shutdown" => closed
          /\ v.via = "disconnect" => c \in gone
          /\ v.via = "revoked" => TokenOf[c] \in revoked

\* A call that is cut off, because its client is gone while the operator is
\* asked, or because its token was revoked before the answer was taken, ends as
\* a refusal without waiting for its timer.  No Allow that races with the cut
\* is acted on.
CutsRefuse ==
  \A c \in Call :
    (\/ stage[c] = "asking" /\ call[c] \in {"registered", "waiting"} /\ c \in gone
     \/ stage[c] \in {"undecided", "asking"} /\ TokenOf[c] \in revoked)
      ~> (stage[c] \in {"refused", "dropped"})

Fate(c) ==
  CASE stage[c] \in {"vouched", "cleared", "acted"} -> stage[c]
    [] stage[c] \in {"refused", "dropped"} -> "refused"
    [] OTHER -> "open"

Promise == INSTANCE Consent WITH
  mode <- [c \in Call |-> ModeOf(c)],
  key <- [c \in Call |-> <<ClientOf[c], FamilyOf[TokenOf[c]], request[c][1], request[c][2]>>],
  fate <- [c \in Call |-> Fate(c)],
  yes <- {c \in Call : \E a \in acked : a.call = c /\ a.answer.d = "approve"},
  standing <- grants

\* The gateway keeps its promise to the operator.
KeepsPromise == Promise!Spec
=============================================================================
