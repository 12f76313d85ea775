------------------------------ MODULE GateProofs ------------------------------
(* Proofs about Gate, for any calls, tokens, families, vaults and policies.  *)
EXTENDS Gate, ApprovalsProofs

(***************************************************************************)
(* Every step of the gate is one of the registry's, or a call's own denial *)
(* of itself.                                                              *)
(***************************************************************************)

OwnDenial(c, via) == via \in {"disconnect", "revoked"} /\ Resolve(c, "deny", via)

LEMMA ChannelsKnown ==
  \A d \in Decision, via \in Channel \union {"disconnect", "revoked"} :
    [d |-> d, via |-> via] \in Answer
  BY ChannelType DEF Answer, Decision, Via

LEMMA HandleIsRegistry ==
  ASSUME NEW c \in Call, Handle(c)
  PROVE  [Next]_vars \/ \E via \in {"disconnect", "revoked"} : OwnDenial(c, via)
  <1>1. CASE Admit(c) \/ Decide(c) \/ Conclude(c) \/ CheckClient(c) \/ CheckTokens(c)
             \/ Record(c) \/ Act(c)
    BY <1>1 DEF Admit, Decide, Conclude, CheckClient, CheckTokens, Record, Act
  <1>2. CASE Ask(c)
    BY <1>2 DEF Ask, Register, Next
  <1>3. CASE Hear(c)
    BY <1>3 DEF Hear, Work, Next
  <1>4. ASSUME NEW via \in {"disconnect", "revoked"}, Cut(c, via)
        PROVE  UNCHANGED vars \/ OwnDenial(c, via)
    BY <1>4 DEF Cut, OwnDenial
  <1> QED BY <1>1, <1>2, <1>3, <1>4 DEF Handle

LEMMA GateIsRegistry ==
  ASSUME [GateNext]_allVars
  PROVE  [Next]_vars \/ \E c \in Call, via \in {"disconnect", "revoked"} : OwnDenial(c, via)
  <1>1. CASE UNCHANGED allVars
    BY <1>1 DEF allVars
  <1>2. CASE Tick /\ UNCHANGED gateVars
    BY <1>2 DEF Next
  <1>3. CASE Operator
    BY <1>3 DEF Operator, Next
  <1>4. CASE Revocation
    BY <1>4 DEF Revocation, RevokeTokens, RemoveClient
  <1>5. ASSUME NEW c \in Call, Handle(c)
        PROVE  [Next]_vars \/ \E via \in {"disconnect", "revoked"} : OwnDenial(c, via)
    BY <1>5, HandleIsRegistry
  <1>6. ASSUME NEW c \in Call, Around(c)
        PROVE  Next
    BY <1>6 DEF Around, Work, Next
  <1>7. ASSUME NEW c \in Call, Disconnect(c) \/ Drop(c)
        PROVE  [Next]_vars
    BY <1>7 DEF Disconnect, Drop, Next
  <1> QED BY <1>1, <1>2, <1>3, <1>4, <1>5, <1>6, <1>7 DEF GateNext

LEMMA RegistryTypesKept == TypeOK /\ [GateNext]_allVars => TypeOK'
  <1> SUFFICES ASSUME TypeOK, [GateNext]_allVars PROVE TypeOK'
    OBVIOUS
  <1>1. ASSUME NEW c \in Call, NEW via \in {"disconnect", "revoked"}, OwnDenial(c, via)
        PROVE  TypeOK'
    <2>1. [d |-> "deny", via |-> via] \in Answer
      BY ChannelsKnown DEF Decision
    <2>2. /\ DOMAIN pending' \subseteq Call /\ Range(pending') \subseteq Nat
          /\ hands' \subseteq Hand \union Withdrawal
      BY <1>1, <2>1, TakeType DEF OwnDenial, Resolve
    <2> QED BY <1>1, <2>2 DEF OwnDenial, Resolve, TypeOK
  <1> QED BY <1>1, GateIsRegistry, TypeStep

-----------------------------------------------------------------------------
(* Types *)

GateShape ==
  /\ mode \in [Class -> PolicyMode]
  /\ request \in [Call -> Vault \X Class]
  /\ stage \in [Call -> {"new", "admitted", "undecided", "asking", "cut", "client", "tokens",
                         "vouched", "cleared", "acted", "refused", "dropped"}]
  /\ verdict \in [Call -> Answer \union {TimedOut, AtCapacity, Undecided}]
  /\ gone \subseteq Call
  /\ revoked \subseteq Token
  /\ registered \subseteq Client
  /\ DOMAIN grants \subseteq Key /\ Range(grants) \subseteq Nat

LEMMA TypeIsBoth == GateTypeOK <=> TypeOK /\ GateShape
  BY DEF GateTypeOK, GateShape

LEMMA GateTypeInit == GateInit => GateTypeOK
  <1> SUFFICES ASSUME GateInit PROVE GateTypeOK
    OBVIOUS
  <1>1. TypeOK
    BY TypeInit DEF GateInit
  <1>2. mode \in [Class -> PolicyMode]
    BY ModesType DEF GateInit
  <1>3. request \in [Call -> Vault \X Class]
    <2>1. \A c \in Call : request[c] \in Requests[c] /\ Requests[c] \subseteq Vault \X Class
      BY RequestsType DEF GateInit
    <2>2. request \in [Call -> UNION Range(Requests)]
      BY DEF GateInit
    <2> QED BY <2>1, <2>2
  <1>4. DOMAIN grants \subseteq Key /\ Range(grants) \subseteq Nat
    BY DEF GateInit, Range
  <1> QED BY <1>1, <1>2, <1>3, <1>4 DEF GateInit, GateTypeOK

LEMMA KeyTyped ==
  ASSUME GateTypeOK, NEW c \in Call
  PROVE  GrantKey(c) \in Key
  BY ClientOfType, TokenOfType, FamilyOfType DEF GateTypeOK, GrantKey, Key

LEMMA HandleShape ==
  ASSUME GateTypeOK, TypeOK', NEW c \in Call, Handle(c)
  PROVE  GateShape'
  <1> USE DEF GateTypeOK, GateShape
  <1>1. CASE Admit(c)
    BY <1>1 DEF Admit, Move
  <1>2. CASE Decide(c)
    BY <1>2 DEF Decide, Move
  <1>3. CASE Ask(c)
    <2>1. outcome'[c] \in Answer \union {TimedOut, AtCapacity, Undecided}
      BY DEF TypeOK
    <2> QED BY <1>3, <2>1 DEF Ask, Move, Refuse
  <1>4. CASE Hear(c)
    BY <1>4 DEF Hear, gateVars
  <1>5. CASE Conclude(c)
    <2>1. AfterCut(c) \in Answer \union {TimedOut, AtCapacity, Undecided}
      BY DEF AfterCut, TypeOK
    <2>2. outcome[c] \in Answer \union {TimedOut, AtCapacity, Undecided}
      BY DEF TypeOK
    <2> QED BY <1>5, <2>1, <2>2 DEF Conclude, Move, Refuse
  <1>6. ASSUME NEW via \in {"disconnect", "revoked"}, Cut(c, via)
        PROVE  GateShape'
    <2>1. [d |-> "deny", via |-> via] \in Answer
      BY ChannelsKnown DEF Decision
    <2> QED BY <1>6, <2>1 DEF Cut, Move
  <1>7. CASE CheckClient(c) \/ CheckTokens(c)
    <2>1. Revoked \in Answer /\ Unverified \in Answer
      BY DEF Revoked, Unverified, Answer, Decision, Via
    <2> QED BY <1>7, <2>1 DEF CheckClient, CheckTokens, Move, Refuse
  <1>8. CASE Record(c)
    <2>1. GrantKey(c) \in Key
      BY KeyTyped
    <2>2. now + GrantTTL \in Nat
      BY GrantTTLNat DEF TypeOK
    <2>3. DOMAIN Recorded(c) \subseteq Key /\ Range(Recorded(c)) \subseteq Nat
      BY <2>1, <2>2 DEF Recorded, Range
    <2>4. outcome[c] \in Answer \union {TimedOut, AtCapacity, Undecided}
      BY DEF TypeOK
    <2> QED BY <1>8, <2>3, <2>4 DEF Record, Move
  <1>9. CASE Act(c)
    BY <1>9 DEF Act, Move
  <1> QED BY <1>1, <1>2, <1>3, <1>4, <1>5, <1>6, <1>7, <1>8, <1>9 DEF Handle

LEMMA GateTypeStep == GateTypeOK /\ [GateNext]_allVars => GateTypeOK'
  <1> SUFFICES ASSUME GateTypeOK, [GateNext]_allVars PROVE GateTypeOK'
    OBVIOUS
  <1>1. TypeOK'
    BY RegistryTypesKept, TypeIsBoth
  <1>2. GateShape'
    <2>1. CASE UNCHANGED gateVars
      BY <2>1 DEF gateVars, GateTypeOK, GateShape
    <2>2. CASE Revocation
      BY <2>2 DEF Revocation, RevokeTokens, RemoveClient, TokensOf, GateTypeOK, GateShape
    <2>3. ASSUME NEW c \in Call, Handle(c)
          PROVE  GateShape'
      BY <1>1, <2>3, HandleShape
    <2>4. ASSUME NEW c \in Call, Disconnect(c) \/ Drop(c)
          PROVE  GateShape'
      BY <2>4 DEF Disconnect, Drop, Move, GateTypeOK, GateShape
    <2> QED BY <2>1, <2>2, <2>3, <2>4 DEF GateNext, allVars, Operator, Around
  <1> QED BY <1>1, <1>2 DEF GateTypeOK, GateShape

-----------------------------------------------------------------------------
(* What a step leaves alone, and what only grows *)

Growing ==
  /\ UNCHANGED <<mode, request>>
  /\ gone \subseteq gone' /\ revoked \subseteq revoked' /\ acked \subseteq acked'
  /\ closed => closed'

LEMMA HandleGrows ==
  ASSUME NEW c \in Call, Handle(c)
  PROVE  UNCHANGED <<mode, request, gone, revoked, registered>>
  <1>1. CASE Admit(c) \/ Decide(c) \/ Ask(c) \/ Conclude(c) \/ CheckClient(c) \/ CheckTokens(c)
    BY <1>1 DEF Admit, Decide, Ask, Conclude, CheckClient, CheckTokens
  <1>2. CASE Hear(c)
    BY <1>2 DEF Hear, gateVars
  <1>3. CASE Record(c) \/ Act(c)
    BY <1>3 DEF Record, Act
  <1>4. ASSUME NEW via \in {"disconnect", "revoked"}, Cut(c, via)
        PROVE  UNCHANGED <<mode, request, gone, revoked, registered>>
    BY <1>4 DEF Cut
  <1> QED BY <1>1, <1>2, <1>3, <1>4 DEF Handle

LEMMA GatePart ==
  ASSUME [GateNext]_allVars
  PROVE  \/ UNCHANGED gateVars
         \/ Revocation
         \/ \E c \in Call : Handle(c)
         \/ \E c \in Call : /\ Disconnect(c) \/ Drop(c)
                            /\ UNCHANGED <<mode, request, verdict, revoked, registered, grants>>
  BY DEF GateNext, allVars, Operator, Around, Disconnect, Drop

LEMMA RegistryGrows ==
  ASSUME [Next]_vars
  PROVE  acked \subseteq acked' /\ (closed => closed')
  <1>1. CASE UNCHANGED vars \/ Tick \/ DenyAll
    BY <1>1 DEF vars, Tick, DenyAll
  <1>2. ASSUME NEW c \in Call, Register(c) \/ Abandon(c) \/ Dismiss(c)
        PROVE  UNCHANGED <<acked, closed>>
    BY <1>2 DEF Register, RegisterShut, RegisterRefused, RegisterAccepted, Abandon, Dismiss
  <1>3. ASSUME NEW c \in Call, NEW d \in Decision, Click(c, d) \/ \E via \in Channel : Resolve(c, d, via)
        PROVE  UNCHANGED <<acked, closed>>
    BY <1>3 DEF Click, Resolve
  <1>4. ASSUME NEW c \in Call, Work(c)
        PROVE  acked \subseteq acked' /\ closed' = closed
    BY <1>4 DEF Work, BeginWait, Receive, Elapse, Forget, GiveUpWaiting, AttachPrompt,
                ResolveNative, Withdraw, Send
  <1> QED BY <1>1, <1>2, <1>3, <1>4 DEF Next

LEMMA StepGrows == [GateNext]_allVars => Growing
  <1> SUFFICES ASSUME [GateNext]_allVars PROVE Growing
    OBVIOUS
  <1>1. UNCHANGED <<mode, request>> /\ gone \subseteq gone' /\ revoked \subseteq revoked'
    <2>1. CASE UNCHANGED gateVars
      BY <2>1 DEF gateVars
    <2>2. CASE Revocation
      BY <2>2 DEF Revocation, RevokeTokens, RemoveClient
    <2>3. ASSUME NEW c \in Call, Disconnect(c) \/ Drop(c)
          PROVE  UNCHANGED <<mode, request>> /\ gone \subseteq gone' /\ revoked \subseteq revoked'
      BY <2>3 DEF Disconnect, Drop
    <2> QED BY <2>1, <2>2, <2>3, GatePart, HandleGrows
  <1>2. acked \subseteq acked' /\ (closed => closed')
    BY GateIsRegistry, RegistryGrows DEF OwnDenial, Resolve
  <1> QED BY <1>1, <1>2 DEF Growing

-----------------------------------------------------------------------------
(* "Always ask" leaves nothing behind: only a call that was asked about is *)
(* ever recorded, and it is asked about only under one of two policies.    *)

Asked ==
  \A c \in Call :
    stage[c] \in {"undecided", "asking", "cut", "client", "tokens", "vouched"} =>
      ModeOf(c) \in {"ask_once", "ask_always"}

LEMMA AskedStep == GateTypeOK /\ Asked /\ [GateNext]_allVars => Asked'
  <1> SUFFICES ASSUME GateTypeOK, Asked, [GateNext]_allVars PROVE Asked'
    OBVIOUS
  <1> USE DEF Asked, ModeOf, GateTypeOK
  <1>0. UNCHANGED <<mode, request>>
    BY StepGrows DEF Growing
  <1>1. CASE UNCHANGED stage
    BY <1>0, <1>1
  <1>2. ASSUME NEW c \in Call, NEW from, NEW to, Move(c, from, to),
               \/ to \in {"admitted", "cleared", "acted", "refused", "dropped"}
               \/ from \in {"undecided", "asking", "cut", "client", "tokens", "vouched"}
        PROVE  Asked'
    BY <1>0, <1>2 DEF Move
  <1>3. ASSUME NEW c \in Call, Handle(c)
        PROVE  Asked'
    <2>1. CASE Decide(c)
      <3>1. CASE Move(c, "admitted", "cleared") \/ Move(c, "admitted", "refused")
        BY <1>2, <3>1
      <3>2. CASE ModeOf(c) \in {"ask_once", "ask_always"} /\ Move(c, "admitted", "undecided")
        BY <1>0, <3>2 DEF Move
      <3> QED BY <2>1, <3>1, <3>2 DEF Decide
    <2>2. CASE Admit(c) \/ Ask(c)
      BY <1>2, <2>2 DEF Admit, Ask, Refuse
    <2>3. CASE Hear(c)
      BY <1>1, <2>3 DEF Hear, gateVars
    <2>4. CASE Conclude(c)
      BY <1>2, <2>4 DEF Conclude, Refuse
    <2>5. CASE CheckClient(c) \/ CheckTokens(c)
      BY <1>2, <2>5 DEF CheckClient, CheckTokens, Refuse
    <2>6. CASE Record(c) \/ Act(c)
      BY <1>2, <2>6 DEF Record, Act
    <2>7. ASSUME NEW via \in {"disconnect", "revoked"}, Cut(c, via)
          PROVE  Asked'
      BY <1>2, <2>7 DEF Cut
    <2> QED BY <1>3, <2>1, <2>2, <2>3, <2>4, <2>5, <2>6, <2>7 DEF Handle
  <1>4. ASSUME NEW c \in Call, Disconnect(c) \/ Drop(c)
        PROVE  Asked'
    BY <1>1, <1>2, <1>4 DEF Disconnect, Drop
  <1>5. CASE Revocation
    BY <1>1, <1>5 DEF Revocation, RevokeTokens, RemoveClient
  <1> QED BY <1>1, <1>3, <1>4, <1>5, GatePart DEF gateVars

-----------------------------------------------------------------------------
(* Where the registry's answers come from.  An answer is carried from the   *)
(* hands that took it to the channel and from there to the outcome; a new   *)
(* one is a human's, a shutdown's, or the call's own denial.                *)

FromHuman(a) == a.via \in {"http", "telegram", "native"}

LEMMA HandsCome ==
  ASSUME TypeOK, [Next]_vars, NEW h \in hands'
  PROVE  \/ \E g \in hands : g.call = h.call /\ g.answer = h.answer
         \/ FromHuman(h.answer) \/ h.answer.via = "timeout"
         \/ h.answer.via = "shutdown" /\ closed'
  <1> DEFINE Fine == \/ \E g \in hands : g.call = h.call /\ g.answer = h.answer
                     \/ FromHuman(h.answer) \/ h.answer.via = "timeout"
                     \/ h.answer.via = "shutdown" /\ closed'
  <1>1. CASE UNCHANGED hands
    BY <1>1
  <1>2. CASE DenyAll
    BY <1>2 DEF DenyAll, ShutDown
  <1>3. ASSUME NEW c \in Call, RegisterRefused(c) \/ RegisterAccepted(c)
        PROVE  Fine
    BY <1>3 DEF RegisterRefused, RegisterAccepted, Prune, TimedOut
  <1>4. ASSUME NEW c \in Call, NEW d, NEW via \in Channel \union {"native"}, Take(c, d, via)
        PROVE  Fine
    BY <1>4, ChannelType DEF Take, FromHuman
  <1>5. ASSUME NEW g \in hands, Withdraw(g) \/ Send(g)
        PROVE  Fine
    <2>1. g \in [call : Call, step : {"withdraw", "send"}, answer : Answer \union {TimedOut}]
      BY DEF TypeOK, Hand, Withdrawal
    <2>2. \A f \in StillOwed(g) : f.call = g.call /\ f.answer = g.answer
      BY <2>1 DEF StillOwed
    <2> QED BY <1>5, <2>2 DEF Withdraw, Send
  <1>6. ASSUME NEW c \in Call, RegisterShut(c) \/ Abandon(c) \/ Dismiss(c)
        PROVE  UNCHANGED hands
    BY <1>6 DEF RegisterShut, Abandon, Dismiss
  <1>7. ASSUME NEW c \in Call, NEW d \in Decision, Click(c, d)
        PROVE  UNCHANGED hands
    BY <1>7 DEF Click
  <1>8. ASSUME NEW c \in Call, NEW d \in Decision, NEW via \in Channel, Resolve(c, d, via)
        PROVE  Fine
    BY <1>4, <1>8 DEF Resolve
  <1>9. ASSUME NEW c \in Call, Work(c)
        PROVE  Fine
    <2>1. CASE BeginWait(c) \/ Receive(c) \/ Elapse(c) \/ Forget(c) \/ GiveUpWaiting(c) \/ AttachPrompt(c)
      BY <1>1, <2>1 DEF BeginWait, Receive, Elapse, Forget, GiveUpWaiting, AttachPrompt
    <2>2. CASE ResolveNative(c)
      BY <1>1, <1>4, <2>2 DEF ResolveNative
    <2> QED BY <1>5, <1>9, <2>1, <2>2 DEF Work
  <1> HIDE DEF Fine
  <1>10. CASE UNCHANGED vars \/ Tick
    BY <1>1, <1>10 DEF vars, Tick, Fine
  <1>11. Fine
    BY <1>1, <1>2, <1>3, <1>6, <1>7, <1>8, <1>9, <1>10 DEF Next, Register, Fine
  <1> QED BY <1>11 DEF Fine

LEMMA ChanComes ==
  ASSUME TypeOK, [Next]_vars, NEW c \in Call
  PROVE  \/ chan'[c] \in {chan[c], Silent, Dropped}
         \/ \E h \in hands : /\ h.call = c /\ chan'[c] = h.answer
                             /\ [call |-> c, answer |-> h.answer] \in acked'
  <1>1. CASE UNCHANGED vars \/ Tick \/ DenyAll
    BY <1>1 DEF vars, Tick, DenyAll
  <1>2. ASSUME NEW d \in Call, Register(d) \/ Abandon(d) \/ Dismiss(d)
        PROVE  chan'[c] \in {chan[c], Dropped}
    BY <1>2 DEF Register, RegisterShut, RegisterRefused, RegisterAccepted, Prune, Abandon, Dismiss
  <1>3. ASSUME NEW p \in Call, NEW d \in Decision,
               Click(p, d) \/ \E via \in Channel : Resolve(p, d, via)
        PROVE  UNCHANGED chan
    BY <1>3 DEF Click, Resolve
  <1>4. ASSUME NEW d \in Call, Receive(d)
        PROVE  chan'[c] \in {chan[c], Silent}
    BY <1>4 DEF Receive, TypeOK
  <1>5. ASSUME NEW h \in hands, Send(h)
        PROVE  \/ chan'[c] = chan[c]
               \/ /\ h.call = c /\ chan'[c] = h.answer
                  /\ [call |-> c, answer |-> h.answer] \in acked'
    BY <1>5 DEF Send, TypeOK
  <1>6. ASSUME NEW d \in Call, Work(d), ~Receive(d), ~(\E h \in hands : Send(h))
        PROVE  UNCHANGED chan
    BY <1>6 DEF Work, BeginWait, Elapse, Forget, GiveUpWaiting, AttachPrompt, ResolveNative, Withdraw
  <1> QED BY <1>1, <1>2, <1>3, <1>4, <1>5, <1>6 DEF Next

LEMMA OutcomeComes ==
  ASSUME TypeOK, [Next]_vars, NEW c \in Call
  PROVE  \/ outcome'[c] \in {outcome[c], chan[c], TimedOut, AtCapacity}
         \/ outcome'[c] = ShutDown /\ closed
  <1>1. CASE UNCHANGED vars \/ Tick \/ DenyAll
    BY <1>1 DEF vars, Tick, DenyAll
  <1>2. ASSUME NEW d \in Call, Register(d) \/ Abandon(d) \/ Dismiss(d)
        PROVE  \/ outcome'[c] \in {outcome[c], AtCapacity}
               \/ outcome'[c] = ShutDown /\ closed
    BY <1>2 DEF Register, RegisterShut, RegisterRefused, RegisterAccepted, Abandon, Dismiss, TypeOK
  <1>3. ASSUME NEW p \in Call, NEW d \in Decision,
               Click(p, d) \/ \E via \in Channel : Resolve(p, d, via)
        PROVE  UNCHANGED outcome
    BY <1>3 DEF Click, Resolve
  <1>4. ASSUME NEW d \in Call, Receive(d) \/ GiveUpWaiting(d)
        PROVE  outcome'[c] \in {outcome[c], chan[c], TimedOut}
    BY <1>4 DEF Receive, GiveUpWaiting, TypeOK
  <1>5. ASSUME NEW d \in Call, Work(d), ~(Receive(d) \/ GiveUpWaiting(d))
        PROVE  UNCHANGED outcome
    BY <1>5 DEF Work, BeginWait, Elapse, Forget, AttachPrompt, ResolveNative, Withdraw, Send
  <1> QED BY <1>1, <1>2, <1>3, <1>4, <1>5 DEF Next

-----------------------------------------------------------------------------
(* The audit names who decided *)

\* What the gateway's own channels stand for did happen.
Grounded(c, a) ==
  /\ a.via = "shutdown" => closed
  /\ a.via = "disconnect" => c \in gone
  /\ a.via = "revoked" => TokenOf[c] \in revoked

\* And a human's answer was accepted.
Backed(c, a) ==
  /\ Grounded(c, a)
  /\ FromHuman(a) => [call |-> c, answer |-> a] \in acked

HandsGrounded == \A h \in hands : Grounded(h.call, h.answer)
ChanBacked == \A c \in Call : Backed(c, chan[c])
OutcomeBacked == \A c \in Call : Backed(c, outcome[c])
VerdictBacked == \A c \in Call : Backed(c, verdict[c])

\* An approval is written into the verdict by the step that clears its call.
ApprovedIsCleared ==
  \A c \in Call : verdict[c].d = "approve" => stage[c] \in {"cleared", "acted"}

\* A client leaves after its tokens.
TokensGoFirst == \A k \in Client \ registered : TokensOf(k) \subseteq revoked

Grounds ==
  /\ HandsGrounded /\ ChanBacked /\ OutcomeBacked /\ VerdictBacked
  /\ ApprovedIsCleared /\ TokensGoFirst

GateIInv == GateTypeOK /\ Asked /\ Grounds

LEMMA BackingStays ==
  ASSUME Growing, NEW c \in Call
  PROVE  \A a : /\ Grounded(c, a) => Grounded(c, a)'
                /\ Backed(c, a) => Backed(c, a)'
  BY DEF Growing, Grounded, Backed

LEMMA GoneIsRevoked ==
  ASSUME GateTypeOK, TokensGoFirst, NEW c \in Call, ClientOf[c] \notin registered
  PROVE  TokenOf[c] \in revoked
  <1>1. ClientOf[c] \in Client /\ TokenOf[c] \in Token
    BY ClientOfType, TokenOfType
  <1>2. TokenOf[c] \in TokensOf(ClientOf[c])
    BY <1>1, OwnCalls DEF TokensOf
  <1> QED BY <1>1, <1>2 DEF TokensGoFirst

LEMMA DenialGrounded ==
  ASSUME GateTypeOK, TokensGoFirst, NEW c \in Call, NEW via \in {"disconnect", "revoked"}, Cut(c, via)
  PROVE  Grounded(c, [d |-> "deny", via |-> via])
  <1>1. CredentialGone(c) => TokenOf[c] \in revoked
    BY GoneIsRevoked DEF CredentialGone
  <1> QED BY <1>1 DEF Cut, Grounded

\* The two kinds of steps, as far as the registry's answers go.
LEMMA RegistryOrDenial ==
  ASSUME GateTypeOK, TokensGoFirst, [GateNext]_allVars
  PROVE  \/ [Next]_vars
         \/ \E c \in Call, via \in {"disconnect", "revoked"} :
              OwnDenial(c, via) /\ Grounded(c, [d |-> "deny", via |-> via])
  <1>1. ASSUME NEW c \in Call, NEW via \in {"disconnect", "revoked"}, Cut(c, via)
        PROVE  \/ UNCHANGED vars
               \/ OwnDenial(c, via) /\ Grounded(c, [d |-> "deny", via |-> via])
    BY <1>1, DenialGrounded DEF Cut, OwnDenial
  <1>2. ASSUME NEW c \in Call, Handle(c), ~(Cut(c, "disconnect") \/ Cut(c, "revoked"))
        PROVE  [Next]_vars
    BY <1>2 DEF Handle, Admit, Decide, Conclude, CheckClient, CheckTokens, Record, Act,
                Ask, Register, Hear, Work, Next
  <1>3. CASE UNCHANGED allVars \/ Revocation
    BY <1>3 DEF allVars, Revocation, RevokeTokens, RemoveClient
  <1>4. CASE (Tick /\ UNCHANGED gateVars) \/ Operator
    BY <1>4 DEF Operator, Next
  <1>5. ASSUME NEW c \in Call, Around(c)
        PROVE  Next
    BY <1>5 DEF Around, Work, Next
  <1>6. ASSUME NEW c \in Call, Disconnect(c) \/ Drop(c)
        PROVE  [Next]_vars
    BY <1>6 DEF Disconnect, Drop, Next
  <1> QED BY <1>1, <1>2, <1>3, <1>4, <1>5, <1>6 DEF GateNext

LEMMA HandsStep == GateTypeOK /\ Grounds /\ [GateNext]_allVars => HandsGrounded'
  <1> SUFFICES ASSUME GateTypeOK, Grounds, [GateNext]_allVars, NEW h \in hands'
               PROVE  Grounded(h.call, h.answer)'
    BY DEF HandsGrounded
  <1>1. Growing /\ TypeOK
    BY StepGrows DEF GateTypeOK
  <1>2. \A g \in hands : g.call \in Call
    BY <1>1 DEF TypeOK, Hand, Withdrawal
  <1>3. ASSUME NEW g \in hands, g.call = h.call, g.answer = h.answer
        PROVE  Grounded(h.call, h.answer)'
    BY <1>1, <1>2, <1>3, BackingStays DEF Grounds, HandsGrounded
  <1>4. CASE [Next]_vars
    BY <1>1, <1>3, <1>4, HandsCome DEF Grounded, FromHuman
  <1>5. ASSUME NEW c \in Call, NEW via \in {"disconnect", "revoked"}, OwnDenial(c, via),
               Grounded(c, [d |-> "deny", via |-> via])
        PROVE  Grounded(h.call, h.answer)'
    <2>1. h \in hands \/ h = [call |-> c, step |-> "withdraw",
                              answer |-> [d |-> "deny", via |-> via]]
      BY <1>5 DEF OwnDenial, Resolve, Take
    <2> QED BY <1>1, <1>3, <1>5, <2>1, BackingStays
  <1> QED BY <1>4, <1>5, RegistryOrDenial DEF Grounds

LEMMA ChanStep == GateTypeOK /\ Grounds /\ [GateNext]_allVars => ChanBacked'
  <1> SUFFICES ASSUME GateTypeOK, Grounds, [GateNext]_allVars, NEW c \in Call
               PROVE  Backed(c, chan[c])'
    BY DEF ChanBacked
  <1>1. Growing /\ TypeOK
    BY StepGrows DEF GateTypeOK
  <1>2. CASE chan'[c] = chan[c]
    BY <1>1, <1>2, BackingStays DEF Grounds, ChanBacked, Backed, Grounded
  <1>3. CASE chan'[c] \in {Silent, Dropped}
    BY <1>3 DEF Silent, Dropped, Backed, Grounded, FromHuman
  <1>4. ASSUME NEW h \in hands, h.call = c, chan'[c] = h.answer,
               [call |-> c, answer |-> h.answer] \in acked'
        PROVE  Backed(c, chan[c])'
    <2>1. Grounded(c, h.answer)'
      BY <1>1, <1>4, BackingStays DEF Grounds, HandsGrounded
    <2> QED BY <1>4, <2>1 DEF Backed, Grounded
  <1>5. CASE UNCHANGED chan
    BY <1>2, <1>5
  <1> QED BY <1>1, <1>2, <1>3, <1>4, <1>5, GateIsRegistry, ChanComes DEF OwnDenial, Resolve

LEMMA OutcomeStep == GateTypeOK /\ Grounds /\ [GateNext]_allVars => OutcomeBacked'
  <1> SUFFICES ASSUME GateTypeOK, Grounds, [GateNext]_allVars, NEW c \in Call
               PROVE  Backed(c, outcome[c])'
    BY DEF OutcomeBacked
  <1>1. Growing /\ TypeOK
    BY StepGrows DEF GateTypeOK
  <1>2. CASE outcome'[c] = outcome[c]
    BY <1>1, <1>2, BackingStays DEF Grounds, OutcomeBacked, Backed, Grounded
  <1>3. CASE outcome'[c] = chan[c]
    BY <1>1, <1>3, BackingStays DEF Grounds, ChanBacked, Backed, Grounded
  <1>4. CASE outcome'[c] \in {TimedOut, AtCapacity}
    BY <1>4 DEF TimedOut, AtCapacity, Backed, Grounded, FromHuman
  <1>5. CASE outcome'[c] = ShutDown /\ closed
    BY <1>1, <1>5 DEF ShutDown, Backed, Grounded, FromHuman, Growing
  <1>6. CASE UNCHANGED outcome
    BY <1>2, <1>6
  <1> QED BY <1>1, <1>2, <1>3, <1>4, <1>5, <1>6, GateIsRegistry, OutcomeComes DEF OwnDenial, Resolve

\* A handler writes into the verdict what is backed, and no approval unless
\* it clears the call.
GoodVerdict(c) ==
  /\ Backed(c, verdict[c])
  /\ verdict[c].d = "approve" => stage[c] \in {"cleared", "acted"}

LEMMA VerdictSame ==
  ASSUME Growing, NEW c \in Call, GoodVerdict(c), verdict'[c] = verdict[c],
         \/ stage'[c] = stage[c]
         \/ stage[c] \notin {"cleared", "acted"}
         \/ stage'[c] \in {"cleared", "acted"}
  PROVE  GoodVerdict(c)'
  <1>1. Backed(c, verdict[c])'
    BY BackingStays DEF GoodVerdict, Backed, Grounded
  <1> QED BY <1>1 DEF GoodVerdict

LEMMA VerdictRefused ==
  ASSUME GateTypeOK, Growing, NEW c \in Call, GoodVerdict(c), NEW e \in Call, NEW from, NEW why,
         from \notin {"cleared", "acted"},
         Refuse(e, from, why), why.d # "approve", c = e => Backed(c, verdict[c])'
  PROVE  GoodVerdict(c)'
  <1>1. CASE c = e
    <2>1. verdict'[c] = why
      BY <1>1 DEF Refuse, GateTypeOK
    <2> QED BY <1>1, <2>1 DEF GoodVerdict
  <1>2. CASE c # e
    <2>1. verdict'[c] = verdict[c] /\ stage'[c] = stage[c]
      BY <1>2 DEF Refuse, Move, GateTypeOK
    <2> QED BY <2>1, VerdictSame
  <1> QED BY <1>1, <1>2

LEMMA VerdictMoved ==
  ASSUME GateTypeOK, Growing, NEW c \in Call, GoodVerdict(c), NEW e \in Call, NEW from, NEW to,
         Move(e, from, to), verdict' = verdict,
         from \notin {"cleared", "acted"} \/ to \in {"cleared", "acted"}
  PROVE  GoodVerdict(c)'
  <1>1. verdict'[c] = verdict[c] /\ \/ stage'[c] = stage[c]
                                    \/ stage[c] \notin {"cleared", "acted"}
                                    \/ stage'[c] \in {"cleared", "acted"}
    BY DEF Move, GateTypeOK
  <1> QED BY <1>1, VerdictSame

LEMMA VerdictHandled ==
  ASSUME GateTypeOK, Grounds, OutcomeBacked', [GateNext]_allVars, NEW c \in Call,
         NEW e \in Call, Handle(e)
  PROVE  GoodVerdict(c)'
  <1>1. Growing /\ GoodVerdict(c)
    BY StepGrows DEF Grounds, VerdictBacked, ApprovedIsCleared, GoodVerdict
  <1>2. CASE Admit(e)
    BY <1>1, <1>2, VerdictMoved DEF Admit
  <1>3. CASE Decide(e)
    BY <1>1, <1>3, VerdictMoved DEF Decide
  <1>4. CASE Ask(e)
    <2>1. CASE Move(e, "undecided", "asking") /\ UNCHANGED verdict
      BY <1>1, <2>1, VerdictMoved
    <2>2. CASE (RegisterShut(e) \/ RegisterRefused(e)) /\ Refuse(e, "undecided", outcome'[e])
      <3>1. outcome'[e].d # "approve"
        BY <2>2 DEF RegisterShut, RegisterRefused, ShutDown, AtCapacity, GateTypeOK, TypeOK
      <3>2. c = e => Backed(c, verdict[c])'
        <4>1. verdict'[e] = outcome'[e]
          BY <2>2 DEF Refuse, GateTypeOK
        <4> QED BY <4>1 DEF OutcomeBacked, Backed, Grounded
      <3> QED BY <1>1, <2>2, <3>1, <3>2, VerdictRefused
    <2> QED BY <1>4, <2>1, <2>2 DEF Ask
  <1>5. CASE Hear(e)
    BY <1>1, <1>5, VerdictSame DEF Hear, gateVars
  <1>6. CASE Conclude(e)
    <2>0. /\ UNCHANGED <<outcome, acked, closed, gone, revoked>>
          /\ Backed(e, outcome[e]) /\ Backed(e, verdict[e]) /\ GoodVerdict(e)
      BY <1>6 DEF Conclude, vars, Grounds, OutcomeBacked, VerdictBacked, GoodVerdict,
                  ApprovedIsCleared
    <2>1. CASE Refuse(e, "cut", AfterCut(e))
      <3>1. AfterCut(e) \in {outcome[e], verdict[e]} /\ AfterCut(e).d # "approve"
        BY <2>0, <2>1 DEF AfterCut, Refuse, Move, TimedOut, GoodVerdict
      <3>2. verdict'[e] \in {outcome[e], verdict[e]}
        BY <2>1, <3>1 DEF Refuse, GateTypeOK
      <3>3. Backed(e, verdict[e])'
        BY <2>0, <3>2 DEF Backed, Grounded
      <3> QED BY <1>1, <2>1, <3>1, <3>3, VerdictRefused
    <2>2. CASE outcome[e].d # "approve" /\ Refuse(e, "asking", outcome[e])
      <3>1. verdict'[e] = outcome[e]
        BY <2>2 DEF Refuse, GateTypeOK
      <3>2. Backed(e, verdict[e])'
        BY <2>0, <3>1 DEF Backed, Grounded
      <3> QED BY <1>1, <2>2, <3>2, VerdictRefused
    <2>3. CASE Move(e, "asking", "client") /\ UNCHANGED verdict
      BY <1>1, <2>3, VerdictMoved
    <2> QED BY <1>6, <2>1, <2>2, <2>3 DEF Conclude
  <1>7. ASSUME NEW via \in {"disconnect", "revoked"}, Cut(e, via)
        PROVE  GoodVerdict(c)'
    <2> DEFINE why == [d |-> "deny", via |-> via]
    <2>1. Grounded(e, why)'
      BY <1>1, <1>7, DenialGrounded, BackingStays DEF Grounds
    <2>2. CASE c = e
      <3>1. verdict'[c] = why
        BY <1>7, <2>2 DEF Cut, GateTypeOK
      <3> QED BY <2>1, <2>2, <3>1 DEF GoodVerdict, Backed, Grounded, FromHuman
    <2>3. CASE c # e
      <3>1. verdict'[c] = verdict[c] /\ stage'[c] = stage[c]
        BY <1>7, <2>3 DEF Cut, Move, GateTypeOK
      <3> QED BY <1>1, <3>1, VerdictSame
    <2> QED BY <2>2, <2>3
  <1>8. CASE CheckClient(e) \/ CheckTokens(e)
    <2>1. ASSUME NEW from \in {"client", "tokens"}, NEW why \in {Revoked, Unverified},
                 Refuse(e, from, why), why = Revoked => TokenOf[e] \in revoked
          PROVE  GoodVerdict(c)'
      <3>1. verdict'[e] = why /\ why.d # "approve"
        BY <2>1 DEF Refuse, GateTypeOK, Revoked, Unverified
      <3>2. Backed(e, verdict[e])'
        BY <1>1, <2>1, <3>1 DEF Growing, Backed, Grounded, FromHuman, Revoked, Unverified
      <3> QED BY <1>1, <2>1, <3>1, <3>2, VerdictRefused
    <2>2. ASSUME NEW from \in {"client", "tokens"}, NEW to, Move(e, from, to), UNCHANGED verdict
          PROVE  GoodVerdict(c)'
      BY <1>1, <2>2, VerdictMoved
    <2>3. Unverified # Revoked
      BY DEF Unverified, Revoked
    <2>4. CASE CheckClient(e)
      <3>1. ClientOf[e] \notin registered => TokenOf[e] \in revoked
        BY GoneIsRevoked DEF Grounds
      <3> QED BY <2>1, <2>2, <2>3, <2>4, <3>1 DEF CheckClient
    <2>5. CASE CheckTokens(e)
      BY <2>1, <2>2, <2>3, <2>5 DEF CheckTokens, StillGood
    <2> QED BY <1>8, <2>4, <2>5
  <1>9. CASE Record(e)
    <2>1. CASE c = e
      <3>1. verdict'[c] = outcome[c] /\ outcome' = outcome /\ stage'[c] = "cleared"
        BY <1>9, <2>1 DEF Record, Move, vars, GateTypeOK
      <3> QED BY <3>1 DEF OutcomeBacked, GoodVerdict, Backed, Grounded
    <2>2. CASE c # e
      <3>1. verdict'[c] = verdict[c] /\ stage'[c] = stage[c]
        BY <1>9, <2>2 DEF Record, Move, GateTypeOK
      <3> QED BY <1>1, <3>1, VerdictSame
    <2> QED BY <2>1, <2>2
  <1>10. CASE Act(e)
    BY <1>1, <1>10, VerdictMoved DEF Act
  <1> QED BY <1>2, <1>3, <1>4, <1>5, <1>6, <1>7, <1>8, <1>9, <1>10 DEF Handle

LEMMA VerdictStep ==
  GateTypeOK /\ Grounds /\ OutcomeBacked' /\ [GateNext]_allVars
    => VerdictBacked' /\ ApprovedIsCleared'
  <1> SUFFICES ASSUME GateTypeOK, Grounds, OutcomeBacked', [GateNext]_allVars, NEW c \in Call
               PROVE  GoodVerdict(c)'
    BY DEF VerdictBacked, ApprovedIsCleared, GoodVerdict
  <1>1. Growing /\ GoodVerdict(c)
    BY StepGrows DEF Grounds, VerdictBacked, ApprovedIsCleared, GoodVerdict
  <1>2. CASE UNCHANGED <<verdict, stage>>
    BY <1>1, <1>2, VerdictSame
  <1>3. CASE Revocation
    BY <1>2, <1>3 DEF Revocation, RevokeTokens, RemoveClient
  <1>4. ASSUME NEW e \in Call, Disconnect(e) \/ Drop(e)
        PROVE  GoodVerdict(c)'
    BY <1>1, <1>2, <1>4, VerdictMoved DEF Disconnect, Drop
  <1> QED BY <1>2, <1>3, <1>4, GatePart, VerdictHandled DEF gateVars

LEMMA TokensFirstStep == TokensGoFirst /\ [GateNext]_allVars => TokensGoFirst'
  <1> SUFFICES ASSUME TokensGoFirst, [GateNext]_allVars PROVE TokensGoFirst'
    OBVIOUS
  <1>1. revoked \subseteq revoked'
    BY StepGrows DEF Growing
  <1>2. CASE UNCHANGED registered
    BY <1>1, <1>2 DEF TokensGoFirst
  <1>3. ASSUME NEW k \in Client, RemoveClient(k)
        PROVE  TokensGoFirst'
    BY <1>1, <1>3 DEF TokensGoFirst, RemoveClient
  <1>4. CASE Revocation
    BY <1>2, <1>3, <1>4 DEF Revocation, RevokeTokens
  <1> QED BY <1>2, <1>4, GatePart, HandleGrows DEF gateVars

-----------------------------------------------------------------------------
(* The registry's own invariants, with the denials the gate adds *)

LEMMA OwnDenialKeeps ==
  ASSUME IInv, NEW c \in Call, NEW via, OwnDenial(c, via)
  PROVE  Told' /\ NoOrphanPrompt' /\ Caps'
  <1> DEFINE answer == [d |-> "deny", via |-> via]
  <1>1. /\ c \in Pending /\ Pending' = Pending \ {c}
        /\ hands' = hands \union
             {[call |-> p, step |-> "withdraw", answer |-> answer] : p \in {c}}
        /\ UNCHANGED <<call, outcome, acked, chan, prompts>>
    BY DEF OwnDenial, Resolve, Take, Without, Pending, Restrict
  <1> HIDE DEF answer
  <1>2. Told'
    BY <1>1, ToldTaken DEF IInv
  <1>3. NoOrphanPrompt'
    <2>1. [call |-> c, step |-> "withdraw", answer |-> answer] \in hands' /\ hands \subseteq hands'
      BY <1>1
    <2>2. \E h \in hands' : h.call = c /\ h.step = "withdraw"
      BY <2>1
    <2> QED BY <1>1, <2>1, <2>2 DEF NoOrphanPrompt, IInv
  <1>4. Caps'
    BY <1>1, CapsShrink DEF IInv
  <1> QED BY <1>2, <1>3, <1>4

LEMMA RegistryStep == IInv /\ [GateNext]_allVars => IInv'
  <1> SUFFICES ASSUME IInv, [GateNext]_allVars PROVE IInv'
    OBVIOUS
  <1>1. TypeOK'
    BY RegistryTypesKept DEF IInv
  <1>2. CASE [Next]_vars
    BY <1>2, TypeStep, ToldStep, OrphanStep, CapsStep DEF IInv
  <1> QED BY <1>1, <1>2, GateIsRegistry, OwnDenialKeeps DEF IInv

-----------------------------------------------------------------------------
(* Theorems *)

LEMMA GateInvInit == GateInit => GateIInv
  <1> SUFFICES ASSUME GateInit PROVE GateIInv
    OBVIOUS
  <1>1. GateTypeOK
    BY GateTypeInit
  <1>2. Asked
    BY DEF GateInit, Asked
  <1>3. HandsGrounded
    BY DEF GateInit, Init, HandsGrounded
  <1>4. ChanBacked /\ OutcomeBacked /\ VerdictBacked /\ ApprovedIsCleared
    BY DEF GateInit, Init, ChanBacked, OutcomeBacked, VerdictBacked, ApprovedIsCleared, Backed,
           Grounded, FromHuman, Silent, Undecided
  <1>5. TokensGoFirst
    BY DEF GateInit, TokensGoFirst
  <1> QED BY <1>1, <1>2, <1>3, <1>4, <1>5 DEF GateIInv, Grounds

THEOREM GateInvariance == GateSpec => []GateIInv
  <1>1. GateIInv /\ [GateNext]_allVars => GateIInv'
    <2> SUFFICES ASSUME GateIInv, [GateNext]_allVars PROVE GateIInv'
      OBVIOUS
    <2>1. GateTypeOK' /\ Asked'
      BY GateTypeStep, AskedStep DEF GateIInv
    <2>2. HandsGrounded' /\ ChanBacked' /\ OutcomeBacked'
      BY HandsStep, ChanStep, OutcomeStep DEF GateIInv
    <2>3. VerdictBacked' /\ ApprovedIsCleared' /\ TokensGoFirst'
      BY <2>2, VerdictStep, TokensFirstStep DEF GateIInv, Grounds
    <2> QED BY <2>1, <2>2, <2>3 DEF GateIInv, Grounds
  <1> QED BY GateInvInit, <1>1, PTL DEF GateSpec

\* Every reachable state of the gate, and of the registry under it, is well
\* typed, with the denials that waiting calls send to themselves among the
\* answers.
THEOREM GateTypeCorrect == GateSpec => []GateTypeOK
  <1>1. GateIInv => GateTypeOK
    BY DEF GateIInv
  <1> QED BY <1>1, GateInvariance, PTL

\* The registry keeps what it promises under the gate too, where a waiting
\* call may deny itself: one answer per call, no dialog left behind, no slot
\* held by a call that has returned, and both caps.
THEOREM RegistryUnderTheGate ==
  GateSpec => [](FirstAnswerStands /\ NoOrphanPrompt /\ NoGhostEntry /\ CapsHold)
  <1>1. GateInit => IInv
    BY InitIInv DEF GateInit
  <1>2. IInv => FirstAnswerStands /\ NoOrphanPrompt /\ NoGhostEntry /\ CapsHold
    BY DEF IInv, Told, Caps
  <1> QED BY <1>1, <1>2, RegistryStep, PTL DEF GateSpec

\* A human named by an audit line did answer that call, and was heard; the
\* gateway's own channels name what happened.
THEOREM AuditIsTrue == GateSpec => []AuditNamesTheDecider
  <1>1. GateIInv => AuditNamesTheDecider
    BY DEF GateIInv, Grounds, VerdictBacked, ApprovedIsCleared, Backed, Grounded, FromHuman,
           AuditNamesTheDecider, Human
  <1> QED BY <1>1, GateInvariance, PTL

-----------------------------------------------------------------------------
(* The gate keeps the promise of module Consent *)

\* An approval that reached a call was acknowledged, and a call that has gone
\* on to the checks heard one, for good.
Heard ==
  \A c \in Call :
    /\ chan[c].d = "approve" => [call |-> c, answer |-> chan[c]] \in acked
    /\ outcome[c].d = "approve" => [call |-> c, answer |-> outcome[c]] \in acked
    /\ stage[c] \in {"client", "tokens"} => call[c] = "over" /\ outcome[c].d = "approve"

LEMMA OverIsOver ==
  ASSUME TypeOK, [GateNext]_allVars, NEW c \in Call, call[c] = "over"
  PROVE  call'[c] = "over" /\ outcome'[c] = outcome[c]
  <1>1. ASSUME NEW e \in Call, Register(e) \/ Abandon(e) \/ Dismiss(e)
        PROVE  call'[c] = call[c] /\ outcome'[c] = outcome[c]
    BY <1>1 DEF Register, RegisterShut, RegisterRefused, RegisterAccepted, Registrable, Abandon,
                Dismiss, TypeOK
  <1>2. ASSUME NEW e \in Call, Work(e)
        PROVE  call'[c] = call[c] /\ outcome'[c] = outcome[c]
    BY <1>2 DEF Work, BeginWait, Receive, Elapse, Forget, GiveUpWaiting, AttachPrompt,
                ResolveNative, Withdraw, Send, TypeOK
  <1>3. ASSUME NEW p \in Call, NEW d \in Decision,
               Click(p, d) \/ \E via \in Channel : Resolve(p, d, via)
        PROVE  UNCHANGED <<call, outcome>>
    BY <1>3 DEF Click, Resolve
  <1>4. CASE UNCHANGED vars \/ Tick \/ DenyAll
    BY <1>4 DEF vars, Tick, DenyAll
  <1>5. CASE [Next]_vars
    BY <1>1, <1>2, <1>3, <1>4, <1>5 DEF Next
  <1>6. ASSUME NEW e \in Call, NEW via, OwnDenial(e, via)
        PROVE  UNCHANGED <<call, outcome>>
    BY <1>6 DEF OwnDenial, Resolve
  <1> QED BY <1>5, <1>6, GateIsRegistry

\* The only way into the checks is past an approval.
LEMMA ChecksAreEntered ==
  ASSUME GateTypeOK, [GateNext]_allVars, NEW c \in Call, stage'[c] \in {"client", "tokens"}
  PROVE  \/ stage[c] \in {"client", "tokens"}
         \/ call[c] = "over" /\ outcome[c].d = "approve"
  <1> USE DEF GateTypeOK
  <1>1. CASE UNCHANGED stage
    BY <1>1
  <1>2. ASSUME NEW e \in Call, NEW from, NEW to, Move(e, from, to),
               to \notin {"client", "tokens"} \/ from \in {"client", "tokens"}
        PROVE  stage[c] \in {"client", "tokens"}
    BY <1>2 DEF Move
  <1>3. ASSUME NEW e \in Call, Conclude(e)
        PROVE  \/ stage[c] \in {"client", "tokens"}
               \/ call[c] = "over" /\ outcome[c].d = "approve"
    BY <1>3 DEF Conclude, Refuse, Move
  <1>4. ASSUME NEW e \in Call, Handle(e), ~Conclude(e), ~Hear(e)
        PROVE  stage[c] \in {"client", "tokens"}
    <2>1. CASE Admit(e) \/ Decide(e) \/ Ask(e)
      BY <1>2, <2>1 DEF Admit, Decide, Ask, Refuse
    <2>2. CASE CheckClient(e) \/ CheckTokens(e)
      BY <1>2, <2>2 DEF CheckClient, CheckTokens, Refuse
    <2>3. CASE Record(e) \/ Act(e)
      BY <1>2, <2>3 DEF Record, Act
    <2>4. ASSUME NEW via, Cut(e, via)
          PROVE  stage[c] \in {"client", "tokens"}
      BY <1>2, <2>4 DEF Cut
    <2> QED BY <1>4, <2>1, <2>2, <2>3, <2>4 DEF Handle
  <1>5. ASSUME NEW e \in Call, Hear(e)
        PROVE  UNCHANGED stage
    BY <1>5 DEF Hear, gateVars
  <1>6. ASSUME NEW e \in Call, Disconnect(e) \/ Drop(e)
        PROVE  \/ UNCHANGED stage
               \/ stage[c] \in {"client", "tokens"}
    BY <1>2, <1>6 DEF Disconnect, Drop
  <1>7. CASE Revocation
    BY <1>7 DEF Revocation, RevokeTokens, RemoveClient
  <1> QED BY <1>1, <1>3, <1>4, <1>5, <1>6, <1>7, GatePart DEF gateVars

LEMMA HeardStep == GateTypeOK /\ Heard /\ [GateNext]_allVars => Heard'
  <1> SUFFICES ASSUME GateTypeOK, Heard, [GateNext]_allVars, NEW c \in Call
               PROVE  /\ chan'[c].d = "approve" => [call |-> c, answer |-> chan'[c]] \in acked'
                      /\ outcome'[c].d = "approve" => [call |-> c, answer |-> outcome'[c]] \in acked'
                      /\ stage'[c] \in {"client", "tokens"}
                           => call'[c] = "over" /\ outcome'[c].d = "approve"
    BY DEF Heard
  <1>1. TypeOK /\ acked \subseteq acked'
    BY StepGrows DEF GateTypeOK, Growing
  <1>2. Silent.d # "approve" /\ Dropped.d # "approve" /\ TimedOut.d # "approve"
        /\ AtCapacity.d # "approve" /\ ShutDown.d # "approve"
    BY DEF Silent, Dropped, TimedOut, AtCapacity, ShutDown
  <1>3. [Next]_vars \/ UNCHANGED <<chan, outcome>>
    BY GateIsRegistry DEF OwnDenial, Resolve
  <1>4. chan'[c].d = "approve" => [call |-> c, answer |-> chan'[c]] \in acked'
    BY <1>1, <1>2, <1>3, ChanComes DEF Heard
  <1>5. outcome'[c].d = "approve" => [call |-> c, answer |-> outcome'[c]] \in acked'
    BY <1>1, <1>2, <1>3, OutcomeComes DEF Heard
  <1>6. stage'[c] \in {"client", "tokens"} => call'[c] = "over" /\ outcome'[c].d = "approve"
    BY <1>1, ChecksAreEntered, OverIsOver DEF Heard
  <1> QED BY <1>4, <1>5, <1>6

\* What a stage looks like from outside, and what a promise is about.
FateOf(s) ==
  CASE s \in {"vouched", "cleared", "acted"} -> s
    [] s \in {"refused", "dropped"} -> "refused"
    [] OTHER -> "open"

Quiet == UNCHANGED <<mode, request, acked, grants, revoked, now>>

LEMMA SameTerms ==
  ASSUME UNCHANGED <<mode, request>>
  PROVE  \A c \in Call : ModeOf(c)' = ModeOf(c) /\ GrantKey(c)' = GrantKey(c)
  BY DEF ModeOf, GrantKey

LEMMA FateOfStage ==
  ASSUME NEW c \in Call
  PROVE  Fate(c) = FateOf(stage[c]) /\ Fate(c)' = FateOf(stage'[c])
  BY DEF Fate, FateOf

LEMMA QuietStutter ==
  ASSUME Quiet, \A c \in Call : Fate(c)' = Fate(c)
  PROVE  UNCHANGED Promise!vars
  BY SameTerms DEF Quiet, Promise!vars

LEMMA OneFateMoves ==
  ASSUME GateTypeOK, NEW c \in Call, NEW from, NEW to, Move(c, from, to)
  PROVE  /\ Fate(c) = FateOf(from) /\ Fate(c)' = FateOf(to)
         /\ \A d \in Call \ {c} : Fate(d)' = Fate(d)
  BY FateOfStage DEF Move, GateTypeOK

LEMMA QuietMove ==
  ASSUME GateTypeOK, Quiet, NEW c \in Call, NEW from, NEW to, Move(c, from, to),
         FateOf(from) = FateOf(to)
  PROVE  UNCHANGED Promise!vars
  BY OneFateMoves, QuietStutter

LEMMA QuietRefusal ==
  ASSUME GateTypeOK, Quiet, NEW c \in Call, NEW from, NEW to, Move(c, from, to),
         FateOf(from) = "open", to \in {"refused", "dropped"}
  PROVE  Promise!Refuse(c)
  <1>1. FateOf(to) = "refused"
    BY DEF FateOf
  <1> QED BY <1>1, OneFateMoves, SameTerms DEF Quiet, Promise!Refuse, Promise!Becomes

\* Before the policy decision has been taken and the operator heard, a call
\* moves without anyone's seeing it, or is refused.
Early == {"new", "admitted", "undecided", "asking", "cut", "client", "tokens"}

LEMMA EarlyIsOpen == \A s \in Early : FateOf(s) = "open"
  BY DEF Early, FateOf

LEMMA EarlyMove ==
  ASSUME GateTypeOK, Quiet, NEW c \in Call, NEW from \in Early,
         NEW to \in Early \union {"refused", "dropped"}, Move(c, from, to)
  PROVE  [Promise!Next]_(Promise!vars)
  <1>1. CASE to \in Early
    BY <1>1, EarlyIsOpen, QuietMove
  <1>2. CASE to \in {"refused", "dropped"}
    <2>1. Promise!Refuse(c)
      BY <1>2, EarlyIsOpen, QuietRefusal
    <2> QED BY <2>1 DEF Promise!Next
  <1> QED BY <1>1, <1>2

LEMMA AllowedIsLetBy ==
  ASSUME GateTypeOK, NEW c \in Call, Allowed(c), Move(c, "admitted", "cleared"), Quiet
  PROVE  Promise!LetBy(c)
  <1>1. FateOf("admitted") = "open" /\ FateOf("cleared") = "cleared"
    BY DEF FateOf
  <1>2. Promise!Becomes(c, "open", "cleared")
    BY <1>1, OneFateMoves DEF Promise!Becomes
  <1> QED BY <1>2, SameTerms DEF Quiet, Allowed, HasGrant, GrantKey, Promise!LetBy

LEMMA CheckedIsVouched ==
  ASSUME GateTypeOK, Asked, Heard, NEW c \in Call, StillGood(c), Move(c, "tokens", "vouched"), Quiet
  PROVE  Promise!Vouch(c)
  <1>1. FateOf("tokens") = "open" /\ FateOf("vouched") = "vouched"
    BY DEF FateOf
  <1>2. Promise!Becomes(c, "open", "vouched")
    BY <1>1, OneFateMoves DEF Promise!Becomes
  <1>3. stage[c] = "tokens"
    BY DEF Move
  <1>4. [call |-> c, answer |-> outcome[c]] \in acked /\ outcome[c].d = "approve"
    BY <1>3 DEF Heard
  <1>5. \E a \in acked : a.call = c /\ a.answer.d = "approve"
    BY <1>4
  <1>6. ModeOf(c) \in {"ask_once", "ask_always"}
    BY <1>3 DEF Asked
  <1> QED BY <1>2, <1>5, <1>6, SameTerms DEF Quiet, StillGood, Promise!Vouch

LEMMA RecordedIsSettled ==
  ASSUME GateTypeOK, Asked, NEW c \in Call, Record(c)
  PROVE  Promise!Settle(c)
  <1>1. FateOf("vouched") = "vouched" /\ FateOf("cleared") = "cleared"
    BY DEF FateOf
  <1>2. Promise!Becomes(c, "vouched", "cleared")
    BY <1>1, OneFateMoves DEF Record, Promise!Becomes
  <1>3. ModeOf(c) \in {"ask_once", "ask_always"}
    BY DEF Asked, Record, Move
  <1>4. UNCHANGED <<mode, request, acked, revoked, now>>
    BY DEF Record, vars
  <1>5. grants' = IF ModeOf(c) = "ask_once"
                  THEN [k \in DOMAIN grants \union {GrantKey(c)} |->
                          IF k = GrantKey(c) THEN now + GrantTTL ELSE grants[k]]
                  ELSE grants
    BY <1>3 DEF Record, Recorded
  <1> QED BY <1>2, <1>4, <1>5, SameTerms DEF GrantKey, Promise!Settle

LEMMA ActedIsActed ==
  ASSUME GateTypeOK, NEW c \in Call, Act(c)
  PROVE  Promise!Act(c)
  <1>1. FateOf("cleared") = "cleared" /\ FateOf("acted") = "acted"
    BY DEF FateOf
  <1>2. Promise!Becomes(c, "cleared", "acted")
    BY <1>1, OneFateMoves DEF Act, Promise!Becomes
  <1>3. UNCHANGED <<mode, request, acked, grants, revoked, now>>
    BY DEF Act, vars
  <1> QED BY <1>2, <1>3, SameTerms DEF Promise!Act

\* A decision that was delivered is the operator's yes, or his no, or a denial
\* of the gateway's own, which nobody sees.
LEMMA DeliveredIsSaid ==
  ASSUME GateTypeOK, NEW h \in hands, Send(h), UNCHANGED gateVars
  PROVE  [Promise!Next]_(Promise!vars)
  <1> DEFINE yes == {c \in Call : \E a \in acked : a.call = c /\ a.answer.d = "approve"}
             said == [call |-> h.call, answer |-> h.answer]
  <1>1. h.call \in Call /\ UNCHANGED <<mode, request, stage, grants, revoked, now>>
    BY DEF Send, gateVars, GateTypeOK, TypeOK, Hand, Withdrawal
  <1>2. acked' = acked \/ acked' = acked \union {said}
    BY DEF Send
  <1>3. \A c \in Call : Fate(c)' = Fate(c)
    BY <1>1, FateOfStage
  <1>4. CASE yes' = yes
    BY <1>1, <1>3, <1>4, SameTerms DEF Promise!vars
  <1>5. CASE yes' = yes \union {h.call}
    <2>1. Promise!SayYes(h.call)
      BY <1>1, <1>3, <1>5, SameTerms DEF Promise!SayYes
    <2> QED BY <1>1, <2>1 DEF Promise!Next
  <1>6. yes' = yes \/ yes' = yes \union {h.call}
    <2>1. CASE acked' = acked
      BY <2>1
    <2>2. CASE acked' = acked \union {said}
      BY <1>1, <2>2
    <2> QED BY <1>2, <2>1, <2>2
  <1> QED BY <1>4, <1>5, <1>6

LEMMA RevocationIsWithdrawal ==
  ASSUME GateTypeOK, Revocation
  PROVE  [Promise!Next]_(Promise!vars)
  <1>1. UNCHANGED <<mode, request, stage, acked, grants, now>>
    BY DEF Revocation, RevokeTokens, RemoveClient, vars
  <1>2. \A c \in Call : Fate(c)' = Fate(c)
    BY <1>1, FateOfStage
  <1>3. revoked \subseteq revoked' /\ revoked' \subseteq Token
    <2>1. \A k : TokensOf(k) \subseteq Token
      BY DEF TokensOf
    <2> QED BY <2>1 DEF Revocation, RevokeTokens, RemoveClient, GateTypeOK
  <1>4. Promise!Withdraw
    BY <1>1, <1>2, <1>3, SameTerms DEF Promise!Withdraw
  <1> QED BY <1>4 DEF Promise!Next

LEMMA HandleKeepsPromise ==
  ASSUME GateTypeOK, Asked, Heard, NEW c \in Call, Handle(c)
  PROVE  [Promise!Next]_(Promise!vars)
  <1>1. CASE Admit(c)
    <2>1. Quiet
      BY <1>1 DEF Admit, Quiet, vars
    <2> QED BY <1>1, <2>1, EarlyMove DEF Admit, Early
  <1>2. CASE Decide(c)
    <2>1. Quiet
      BY <1>2 DEF Decide, Quiet, vars
    <2>2. CASE Allowed(c) /\ Move(c, "admitted", "cleared")
      BY <2>1, <2>2, AllowedIsLetBy DEF Promise!Next
    <2>3. CASE Move(c, "admitted", "refused") \/ Move(c, "admitted", "undecided")
      BY <2>1, <2>3, EarlyMove DEF Early
    <2> QED BY <1>2, <2>2, <2>3 DEF Decide
  <1>3. CASE Ask(c)
    <2>1. Quiet
      BY <1>3 DEF Ask, RegisterAccepted, RegisterShut, RegisterRefused, Quiet
    <2> QED BY <1>3, <2>1, EarlyMove DEF Ask, Refuse, Early
  <1>4. CASE Hear(c)
    <2>1. Quiet /\ UNCHANGED stage
      BY <1>4 DEF Hear, Receive, Elapse, gateVars, Quiet
    <2> QED BY <2>1, FateOfStage, QuietStutter
  <1>5. CASE Conclude(c)
    <2>1. Quiet
      BY <1>5 DEF Conclude, Quiet, vars
    <2> QED BY <1>5, <2>1, EarlyMove DEF Conclude, Refuse, Early
  <1>6. ASSUME NEW via, Cut(c, via)
        PROVE  [Promise!Next]_(Promise!vars)
    <2>1. Quiet
      BY <1>6 DEF Cut, Resolve, Quiet, vars
    <2> QED BY <1>6, <2>1, EarlyMove DEF Cut, Early
  <1>7. CASE CheckClient(c)
    <2>1. Quiet
      BY <1>7 DEF CheckClient, Quiet, vars
    <2> QED BY <1>7, <2>1, EarlyMove DEF CheckClient, Refuse, Early
  <1>8. CASE CheckTokens(c)
    <2>1. Quiet
      BY <1>8 DEF CheckTokens, Quiet, vars
    <2>2. CASE StillGood(c) /\ Move(c, "tokens", "vouched")
      BY <2>1, <2>2, CheckedIsVouched DEF Promise!Next
    <2>3. CASE Move(c, "tokens", "refused")
      BY <2>1, <2>3, EarlyMove DEF Early
    <2> QED BY <1>8, <2>2, <2>3 DEF CheckTokens, Refuse
  <1>9. CASE Record(c) \/ Act(c)
    BY <1>9, RecordedIsSettled, ActedIsActed DEF Promise!Next
  <1> QED BY <1>1, <1>2, <1>3, <1>4, <1>5, <1>6, <1>7, <1>8, <1>9 DEF Handle

LEMMA StepKeepsPromise ==
  ASSUME GateTypeOK, Asked, Heard, [GateNext]_allVars
  PROVE  [Promise!Next]_(Promise!vars)
  <1>1. CASE UNCHANGED allVars
    <2>1. Quiet /\ UNCHANGED stage
      BY <1>1 DEF allVars, vars, gateVars, Quiet
    <2> QED BY <2>1, FateOfStage, QuietStutter
  <1>2. CASE Tick /\ UNCHANGED gateVars
    <2>1. UNCHANGED <<mode, request, stage, acked, grants, revoked>> /\ now' = now + 1
      BY <1>2 DEF Tick, gateVars
    <2>2. Promise!Later
      BY <2>1, FateOfStage, SameTerms DEF Promise!Later
    <2> QED BY <2>2 DEF Promise!Next
  <1>3. CASE Operator
    <2>1. Quiet /\ UNCHANGED stage
      BY <1>3 DEF Operator, DenyAll, Dismiss, Click, Resolve, gateVars, Quiet
    <2> QED BY <2>1, FateOfStage, QuietStutter
  <1>4. ASSUME NEW c \in Call, Around(c), ~(\E h \in hands : Send(h))
        PROVE  [Promise!Next]_(Promise!vars)
    <2>1. Quiet /\ UNCHANGED stage
      BY <1>4 DEF Around, BeginWait, Forget, GiveUpWaiting, AttachPrompt, ResolveNative, Withdraw,
                  gateVars, Quiet
    <2> QED BY <2>1, FateOfStage, QuietStutter
  <1>5. ASSUME NEW c \in Call, Around(c), NEW h \in hands, Send(h)
        PROVE  [Promise!Next]_(Promise!vars)
    BY <1>5, DeliveredIsSaid DEF Around
  <1>6. ASSUME NEW c \in Call, Disconnect(c)
        PROVE  [Promise!Next]_(Promise!vars)
    <2>1. Quiet /\ UNCHANGED stage
      BY <1>6 DEF Disconnect, vars, Quiet
    <2> QED BY <2>1, FateOfStage, QuietStutter
  <1>7. ASSUME NEW c \in Call, Drop(c)
        PROVE  [Promise!Next]_(Promise!vars)
    <2>1. Quiet
      BY <1>7 DEF Drop, Abandon, Quiet
    <2> QED BY <1>7, <2>1, EarlyMove DEF Drop, Early
  <1> QED BY <1>1, <1>2, <1>3, <1>4, <1>5, <1>6, <1>7, RevocationIsWithdrawal, HandleKeepsPromise
          DEF GateNext

\* A gated call acts only because its class is "auto", because a standing
\* consent for exactly its client, family, vault and class has not run out, or
\* because a human said yes to this call and its token was good after that,
\* whatever races whatever: the gate implements Consent.
THEOREM GateKeepsPromise == GateSpec => KeepsPromise
  <1>1. GateInit => Heard
    BY DEF GateInit, Init, Heard, Silent, Undecided
  <1>2. GateInit => Promise!Init
    <2> SUFFICES ASSUME GateInit PROVE Promise!Init
      OBVIOUS
    <2>1. acked = {} /\ \A c \in Call : Fate(c) = "open"
      BY FateOfStage DEF GateInit, Init, FateOf
    <2> QED BY <2>1 DEF GateInit, Init, Promise!Init
  <1>3. GateIInv => GateTypeOK /\ Asked
    BY DEF GateIInv
  <1> QED BY <1>1, <1>2, <1>3, GateInvariance, HeardStep, StepKeepsPromise, PTL
          DEF GateSpec, KeepsPromise, Promise!Spec
=============================================================================
