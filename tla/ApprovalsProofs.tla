--------------------------- MODULE ApprovalsProofs ---------------------------
(* Proofs about Approvals, for any calls, clients, caps, waits, channels.  *)
EXTENDS Approvals, FiniteSetTheorems, TLAPS

(***************************************************************************)
(* The inductive invariant.  A call's one answer is, at any time, in one   *)
(* place: not given yet (the call is in `pending`), in the hands of the    *)
(* thread that took it out, or sent.                                       *)
(***************************************************************************)

InHand(c) == \E h \in hands : h.call = c

\* Before its register a call has left no trace.
NewIsClean ==
  \A c \in Call : call[c] = "new" =>
    c \notin Pending /\ ~InHand(c) /\ chan[c] = Silent /\ \A a \in acked : a.call # c

\* As long as a call can be answered nothing was said to it.
PendingUnanswered ==
  \A c \in Pending : /\ chan[c] = Silent /\ ~InHand(c)
                     /\ \A a \in acked : a.call # c

\* One thread at most has a call's answer, and it has not been sent.
OneHand ==
  \A h \in hands : /\ \A g \in hands : g.call = h.call => g = h
                   /\ \A a \in acked : a.call # h.call

\* What was acknowledged is in the channel until the wait has looked.
AckedIsSent ==
  \A a \in acked : call[a.call] \in {"registered", "waiting"} => chan[a.call] = a.answer

PendingFinite == IsFiniteSet(Pending)

-----------------------------------------------------------------------------
(* Types *)

LEMMA TypeInit == Init => TypeOK
  <1> SUFFICES ASSUME Init PROVE TypeOK
    OBVIOUS
  <1>1. /\ DOMAIN pending \subseteq Call /\ Range(pending) \subseteq Nat
        /\ DOMAIN timer \subseteq Call /\ Range(timer) \subseteq Nat
    BY DEF Init, Range
  <1>2. hands \subseteq Hand \union Withdrawal /\ acked \subseteq [call : Call, answer : Answer]
    BY DEF Init
  <1>3. /\ chan \in [Call -> Answer \union {Silent, Dropped}]
        /\ outcome \in [Call -> Answer \union {TimedOut, AtCapacity, Undecided}]
    BY DEF Init
  <1> QED BY <1>1, <1>2, <1>3 DEF Init, TypeOK

LEMMA AnswerFacts ==
  /\ \A d \in Decision, via \in Channel : [d |-> d, via |-> via] \in Answer
  /\ \A d \in Decision : [d |-> d, via |-> "native"] \in Answer
  /\ ShutDown \in Answer
  /\ TimedOut \notin Answer /\ Silent \notin Answer /\ Dropped \notin Answer
  BY ChannelType DEF Answer, Decision, Via, ShutDown, TimedOut, Silent, Dropped

LEMMA TakeType ==
  ASSUME TypeOK, NEW c \in Call, NEW d, NEW via, Take(c, d, via), [d |-> d, via |-> via] \in Answer
  PROVE  /\ DOMAIN pending' \subseteq Call /\ Range(pending') \subseteq Nat
         /\ hands' \subseteq Hand \union Withdrawal
  <1>1. [call |-> c, step |-> "withdraw", answer |-> [d |-> d, via |-> via]] \in Hand
    BY DEF Hand
  <1> QED BY <1>1 DEF TypeOK, Take, Without, Pending, Restrict, Range

LEMMA WithdrawnType ==
  ASSUME TypeOK, NEW c \in Call, Withdrawn(c)
  PROVE  /\ prompts' \subseteq Call
         /\ dialog' \in [Call -> {"off", "starting", "up", "approve", "deny", "gone"}]
  BY DEF TypeOK, Withdrawn, Killed

LEMMA PruneType ==
  ASSUME TypeOK, Prune
  PROVE  /\ chan' \in [Call -> Answer \union {Silent, Dropped}]
         /\ hands' \subseteq Hand \union Withdrawal
  <1>1. \A p \in Call : [call |-> p, step |-> "withdraw", answer |-> TimedOut] \in Withdrawal
    BY DEF Withdrawal
  <1> QED BY <1>1 DEF TypeOK, Prune, Pending

LEMMA StoppedType ==
  ASSUME TypeOK, NEW c \in Call, timer' = Stopped(c)
  PROVE  DOMAIN timer' \subseteq Call /\ Range(timer') \subseteq Nat
  BY DEF TypeOK, Stopped, Restrict, Range

LEMMA RegisterType ==
  ASSUME TypeOK, NEW c \in Call, Register(c)
  PROVE  TypeOK'
  <1>1. CASE RegisterShut(c)
    BY <1>1, AnswerFacts DEF RegisterShut, TypeOK
  <1>2. CASE RegisterRefused(c)
    <2>1. AtCapacity \in Answer \union {TimedOut, AtCapacity, Undecided}
      OBVIOUS
    <2>2. DOMAIN pending' \subseteq Call /\ Range(pending') \subseteq Nat
      BY <1>2 DEF RegisterRefused, TypeOK, Live, Pending, Restrict, Range
    <2> QED BY <1>2, <2>1, <2>2, PruneType DEF RegisterRefused, TypeOK
  <1>3. CASE RegisterAccepted(c)
    <2>1. now + Wait \in Nat
      BY WaitNat DEF TypeOK
    <2>2. DOMAIN pending' \subseteq Call /\ Range(pending') \subseteq Nat
      BY <1>3, <2>1 DEF RegisterAccepted, TypeOK, Live, Pending, Range
    <2> QED BY <1>3, <2>2, PruneType DEF RegisterAccepted, Registrable, TypeOK
  <1> QED BY <1>1, <1>2, <1>3 DEF Register

LEMMA WorkType ==
  ASSUME TypeOK, NEW c \in Call, Work(c)
  PROVE  TypeOK'
  <1>1. CASE BeginWait(c)
    <2>1. now + Wait \in Nat
      BY WaitNat DEF TypeOK
    <2>2. DOMAIN timer' \subseteq Call /\ Range(timer') \subseteq Nat
      BY <1>1, <2>1 DEF BeginWait, TypeOK, Range
    <2> QED BY <1>1, <2>2 DEF BeginWait, TypeOK
  <1>2. CASE Receive(c)
    <2>1. DOMAIN timer' \subseteq Call /\ Range(timer') \subseteq Nat
      BY <1>2, StoppedType DEF Receive
    <2> QED BY <1>2, <2>1 DEF Receive, TypeOK
  <1>3. CASE Elapse(c)
    <2>1. DOMAIN timer' \subseteq Call /\ Range(timer') \subseteq Nat
      BY <1>3, StoppedType DEF Elapse
    <2> QED BY <1>3, <2>1 DEF Elapse, TypeOK
  <1>4. CASE Forget(c)
    BY <1>4 DEF Forget, TypeOK, Without, Pending, Restrict, Range
  <1>5. CASE GiveUpWaiting(c)
    BY <1>5, WithdrawnType DEF GiveUpWaiting, TypeOK
  <1>6. CASE AttachPrompt(c)
    BY <1>6 DEF AttachPrompt, TypeOK
  <1>7. CASE ResolveNative(c)
    <2>1. CASE c \in Pending
      <3>1. Take(c, dialog[c], "native") /\ [d |-> dialog[c], via |-> "native"] \in Answer
        BY <1>7, <2>1, AnswerFacts DEF ResolveNative
      <3> QED BY <1>7, <3>1, TakeType DEF ResolveNative, TypeOK
    <2>2. CASE c \notin Pending
      BY <1>7, <2>2 DEF ResolveNative, TypeOK
    <2> QED BY <2>1, <2>2
  <1>8. ASSUME NEW h \in hands, h.call = c, Withdraw(h)
        PROVE  TypeOK'
    <2>1. h \in Hand \union Withdrawal
      BY DEF TypeOK
    <2>2. StillOwed(h) \subseteq Hand
      <3>1. CASE h.answer = TimedOut
        BY <3>1 DEF StillOwed
      <3>2. CASE h.answer # TimedOut
        <4>1. h \in Hand
          BY <2>1, <3>2 DEF Withdrawal
        <4>2. [h EXCEPT !.step = "send"] \in Hand
          BY <4>1 DEF Hand
        <4> QED BY <3>2, <4>2 DEF StillOwed
      <3> QED BY <3>1, <3>2
    <2> QED BY <1>8, <2>2, WithdrawnType DEF Withdraw, TypeOK
  <1>9. ASSUME NEW h \in hands, h.call = c, Send(h)
        PROVE  TypeOK'
    <2>1. h \in Hand /\ h.answer \in Answer
      BY <1>9 DEF TypeOK, Send, Withdrawal, Hand
    <2>2. [call |-> c, answer |-> h.answer] \in [call : Call, answer : Answer]
      BY <2>1
    <2> QED BY <1>9, <2>1, <2>2 DEF Send, TypeOK
  <1> QED BY <1>1, <1>2, <1>3, <1>4, <1>5, <1>6, <1>7, <1>8, <1>9 DEF Work

LEMMA TypeStep == TypeOK /\ [Next]_vars => TypeOK'
  <1> SUFFICES ASSUME TypeOK, [Next]_vars PROVE TypeOK'
    OBVIOUS
  <1>1. CASE UNCHANGED vars
    BY <1>1 DEF vars, TypeOK
  <1>2. CASE Tick
    BY <1>2 DEF Tick, TypeOK
  <1>3. CASE DenyAll
    <2>1. \A c \in Call : [call |-> c, step |-> "withdraw", answer |-> ShutDown] \in Hand
      BY AnswerFacts DEF Hand
    <2> QED BY <1>3, <2>1 DEF DenyAll, TypeOK, Pending, Range
  <1>4. ASSUME NEW c \in Call, Register(c) \/ Work(c)
        PROVE  TypeOK'
    BY <1>4, RegisterType, WorkType
  <1>5. ASSUME NEW c \in Call, Abandon(c)
        PROVE  TypeOK'
    <2>1. DOMAIN timer' \subseteq Call /\ Range(timer') \subseteq Nat
      BY <1>5, StoppedType DEF Abandon
    <2> QED BY <1>5, <2>1 DEF Abandon, TypeOK
  <1>6. ASSUME NEW c \in Call, Dismiss(c) \/ \E d \in Decision : Click(c, d)
        PROVE  TypeOK'
    BY <1>6 DEF Dismiss, Click, Decision, TypeOK
  <1>7. ASSUME NEW c \in Call, NEW d \in Decision, NEW via \in Channel, Resolve(c, d, via)
        PROVE  TypeOK'
    <2>1. [d |-> d, via |-> via] \in Answer
      BY AnswerFacts
    <2> QED BY <1>7, <2>1, TakeType DEF Resolve, TypeOK
  <1> QED BY <1>1, <1>2, <1>3, <1>4, <1>5, <1>6, <1>7 DEF Next

-----------------------------------------------------------------------------
(* One answer *)

Told ==
  NewIsClean /\ PendingUnanswered /\ OneHand /\ AckedIsSent /\ FirstAnswerStands /\ NoGhostEntry

\* A step that gives no answer and takes none, of one call at most.
LEMMA ToldQuiet ==
  ASSUME TypeOK, Told, UNCHANGED <<pending, chan, hands, acked>>, NEW c \in Call,
         call' = [call EXCEPT ![c] = call'[c]], outcome' = [outcome EXCEPT ![c] = outcome'[c]],
         call'[c] # "new" \/ call[c] = "new",
         call'[c] \in {"registered", "waiting"} => call[c] \in {"registered", "waiting"},
         call'[c] \in {"cleaning", "over"} => c \notin Pending,
         call'[c] = "over" => call[c] = "new" \/ outcome'[c] = TimedOut
  PROVE  Told'
  <1> USE DEF TypeOK, Told
  <1>0. \A d \in Call \ {c} : call'[d] = call[d] /\ outcome'[d] = outcome[d]
    OBVIOUS
  <1>1. NewIsClean' /\ PendingUnanswered' /\ OneHand'
    BY <1>0 DEF NewIsClean, PendingUnanswered, OneHand, InHand, Pending
  <1>2. AckedIsSent'
    BY <1>0 DEF AckedIsSent
  <1>3. FirstAnswerStands'
    <2> SUFFICES ASSUME NEW a \in acked, NEW b \in acked
                 PROVE  /\ a.call = b.call => a = b
                        /\ call'[a.call] = "over" => outcome'[a.call] \in {a.answer, TimedOut}
      BY DEF FirstAnswerStands
    <2>1. a.call \in Call
      OBVIOUS
    <2>2. call[a.call] # "new"
      BY <2>1 DEF NewIsClean
    <2> QED BY <1>0, <2>1, <2>2 DEF FirstAnswerStands
  <1>4. NoGhostEntry'
    BY <1>0 DEF NoGhostEntry, Pending
  <1> QED BY <1>1, <1>2, <1>3, <1>4

\* Calls leave `pending`, each for the hands of one thread; if it is for good
\* their channels are dropped.
LEMMA ToldTaken ==
  ASSUME TypeOK, Told, NEW taken \in SUBSET Pending, NEW answer,
         Pending' = Pending \ taken, UNCHANGED <<call, outcome, acked>>,
         hands' = hands \union
                    {[call |-> c, step |-> "withdraw", answer |-> answer] : c \in taken},
         \A c \in Call \ taken : chan'[c] = chan[c]
  PROVE  Told'
  <1> USE DEF TypeOK, Told
  <1>0. \A c \in taken : c \in Call /\ ~InHand(c) /\ \A a \in acked : a.call # c
    BY DEF PendingUnanswered, Pending
  <1>1. NewIsClean'
    BY <1>0 DEF NewIsClean, InHand, Pending
  <1>2. PendingUnanswered'
    BY <1>0 DEF PendingUnanswered, InHand, Pending
  <1>3. OneHand'
    BY <1>0 DEF OneHand, InHand
  <1>4. AckedIsSent' /\ FirstAnswerStands'
    BY <1>0 DEF AckedIsSent, FirstAnswerStands
  <1>5. NoGhostEntry'
    BY DEF NoGhostEntry
  <1> QED BY <1>1, <1>2, <1>3, <1>4, <1>5

LEMMA ToldRegister ==
  ASSUME TypeOK, Told, NEW c \in Call, RegisterRefused(c) \/ RegisterAccepted(c)
  PROVE  Told'
  <1> DEFINE expired == Pending \ Live
  <1> USE DEF TypeOK, Told
  <1>0. /\ call[c] = "new" /\ acked' = acked
        /\ chan' = [d \in Call |-> IF d \in expired THEN Dropped ELSE chan[d]]
        /\ hands' = hands \union
                     {[call |-> p, step |-> "withdraw", answer |-> TimedOut] : p \in expired}
        /\ \A d \in Call \ {c} : call'[d] = call[d] /\ outcome'[d] = outcome[d]
    BY DEF RegisterRefused, RegisterAccepted, Registrable, Prune
  <1>1. \/ call'[c] = "over" /\ Pending' = Live
        \/ call'[c] = "registered" /\ Pending' = Live \union {c}
    BY DEF RegisterRefused, RegisterAccepted, Pending, Live, Restrict
  <1>2. c \notin Pending /\ ~InHand(c) /\ chan[c] = Silent /\ \A a \in acked : a.call # c
    BY <1>0 DEF NewIsClean
  <1>3. \A d \in expired : d \in Call /\ ~InHand(d) /\ \A a \in acked : a.call # d
    BY DEF PendingUnanswered, Pending
  <1>4. Live \subseteq Pending
    BY DEF Live
  <1>a. \A d \in Call : InHand(d)' => InHand(d) \/ d \in expired
    BY <1>0 DEF InHand
  <1> HIDE DEF expired
  <1>b. expired = Pending \ Live
    BY DEF expired
  <1>5. NewIsClean'
    BY <1>0, <1>1, <1>a, <1>b, <1>4 DEF NewIsClean
  <1>6. PendingUnanswered'
    <2> SUFFICES ASSUME NEW d \in Pending'
                 PROVE  chan'[d] = Silent /\ ~InHand(d)' /\ \A a \in acked : a.call # d
      BY <1>0 DEF PendingUnanswered
    <2>1. d \in Call /\ d \notin expired
      BY <1>1, <1>2, <1>4, <1>b DEF Pending
    <2>2. chan[d] = Silent /\ ~InHand(d) /\ \A a \in acked : a.call # d
      BY <1>1, <1>2, <1>4 DEF PendingUnanswered
    <2> QED BY <1>0, <1>a, <2>1, <2>2
  <1>7. OneHand'
    <2>1. \A d \in expired : \A h \in hands : h.call # d
      BY <1>3 DEF InHand
    <2> QED BY <1>0, <1>3, <2>1 DEF OneHand
  <1>8. AckedIsSent' /\ FirstAnswerStands'
    <2>1. \A a \in acked : a.call \in Call /\ a.call # c /\ a.call \notin expired
      BY <1>2, <1>3
    <2> QED BY <1>0, <2>1 DEF AckedIsSent, FirstAnswerStands
  <1>9. NoGhostEntry'
    BY <1>0, <1>1, <1>2, <1>4 DEF NoGhostEntry
  <1> QED BY <1>5, <1>6, <1>7, <1>8, <1>9

LEMMA ToldForget ==
  ASSUME TypeOK, Told, NEW c \in Call, Forget(c)
  PROVE  Told'
  <1> USE DEF TypeOK, Told, Forget
  <1>1. Pending' = Pending \ {c}
    BY DEF Without, Pending, Restrict
  <1>2. NewIsClean' /\ PendingUnanswered' /\ OneHand'
    BY <1>1 DEF NewIsClean, PendingUnanswered, OneHand, InHand
  <1>3. AckedIsSent' /\ FirstAnswerStands'
    BY DEF AckedIsSent, FirstAnswerStands
  <1>4. NoGhostEntry'
    BY <1>1 DEF NoGhostEntry
  <1> QED BY <1>2, <1>3, <1>4

LEMMA ToldWithdraw ==
  ASSUME TypeOK, Told, NEW h \in hands, Withdraw(h)
  PROVE  Told'
  <1> USE DEF TypeOK, Told
  <1>0. /\ UNCHANGED <<call, pending, chan, outcome, acked>>
        /\ hands' = (hands \ {h}) \union StillOwed(h)
        /\ \A g \in StillOwed(h) : g.call = h.call
    <2>1. h \in [call : Call, step : {"withdraw", "send"}, answer : Answer \union {TimedOut}]
      BY DEF Hand, Withdrawal
    <2> QED BY <2>1 DEF Withdraw, StillOwed
  <1>1. \A c \in Call : InHand(c)' => InHand(c)
    BY <1>0 DEF InHand
  <1>2. NewIsClean' /\ PendingUnanswered'
    BY <1>0, <1>1 DEF NewIsClean, PendingUnanswered, Pending
  <1>3. OneHand'
    <2>1. \A f, g \in StillOwed(h) : f = g
      BY DEF StillOwed
    <2> QED BY <1>0, <2>1 DEF OneHand
  <1>4. AckedIsSent' /\ FirstAnswerStands' /\ NoGhostEntry'
    BY <1>0 DEF AckedIsSent, FirstAnswerStands, NoGhostEntry, Pending
  <1> QED BY <1>2, <1>3, <1>4

LEMMA ToldSend ==
  ASSUME TypeOK, Told, NEW h \in hands, Send(h)
  PROVE  Told'
  <1> DEFINE c == h.call
  <1> USE DEF TypeOK, Told
  <1>0. c \in Call /\ InHand(c) /\ h.answer \in Answer
    BY DEF Hand, Withdrawal, InHand, Send
  <1>1. c \notin Pending /\ call[c] # "new" /\ \A a \in acked : a.call # c
    BY <1>0 DEF PendingUnanswered, NewIsClean, OneHand
  <1>2. \A d \in Call : InHand(d)' => InHand(d) /\ d # c
    BY DEF InHand, Send, OneHand
  <1>3. /\ UNCHANGED <<call, pending, outcome>> /\ hands' = hands \ {h}
        /\ \A d \in Call \ {c} : chan'[d] = chan[d]
    BY DEF Send
  <1>4. \A a \in acked' :
          a \in acked \/ (a = [call |-> c, answer |-> h.answer] /\ Listening(c)
                         /\ chan'[c] = h.answer)
    BY <1>0 DEF Send
  <1>5. acked \subseteq acked'
    BY DEF Send
  <1> HIDE DEF c
  <1>6. NewIsClean' /\ PendingUnanswered'
    BY <1>1, <1>2, <1>3, <1>4 DEF NewIsClean, PendingUnanswered, Pending
  <1>7. OneHand'
    <2>1. \A g \in hands' : g.call # c
      <3>1. \A g \in hands : g.call = c => g = h
        BY DEF OneHand, c
      <3> QED BY <1>3, <3>1
    <2> QED BY <1>3, <1>4, <2>1 DEF OneHand
  <1>8. AckedIsSent'
    <2>1. \A a \in acked : a.call \in Call /\ a.call # c
      BY <1>1
    <2> QED BY <1>3, <1>4, <2>1 DEF AckedIsSent
  <1>9. FirstAnswerStands'
    <2>1. \A a \in acked : a.call # c
      BY <1>1
    <2>2. call[c] # "over" \/ acked' = acked
      BY DEF Send, Listening, c
    <2> QED BY <1>3, <1>4, <2>1, <2>2 DEF FirstAnswerStands
  <1>10. NoGhostEntry'
    BY <1>3 DEF NoGhostEntry, Pending
  <1> QED BY <1>6, <1>7, <1>8, <1>9, <1>10

LEMMA ToldReceive ==
  ASSUME TypeOK, Told, NEW c \in Call, Receive(c)
  PROVE  Told'
  <1> USE DEF TypeOK, Told
  <1>0. /\ call[c] = "waiting" /\ chan[c] \in Answer /\ UNCHANGED <<pending, hands, acked>>
        /\ call'[c] = "over" /\ outcome'[c] = chan[c]
        /\ \A d \in Call \ {c} : call'[d] = call[d] /\ outcome'[d] = outcome[d]
                                   /\ chan'[d] = chan[d]
    BY DEF Receive
  <1>1. c \notin Pending
    BY <1>0, AnswerFacts DEF PendingUnanswered
  <1>2. NewIsClean' /\ PendingUnanswered' /\ OneHand'
    BY <1>0, <1>1 DEF NewIsClean, PendingUnanswered, OneHand, InHand, Pending
  <1>3. AckedIsSent'
    BY <1>0 DEF AckedIsSent
  <1>4. FirstAnswerStands'
    <2> SUFFICES ASSUME NEW a \in acked, NEW b \in acked
                 PROVE  /\ a.call = b.call => a = b
                        /\ call'[a.call] = "over" => outcome'[a.call] \in {a.answer, TimedOut}
      BY <1>0 DEF FirstAnswerStands
    <2>1. a.call \in Call /\ (a.call = c => chan[c] = a.answer)
      BY <1>0 DEF AckedIsSent
    <2> QED BY <1>0, <2>1 DEF FirstAnswerStands
  <1>5. NoGhostEntry'
    BY <1>0, <1>1 DEF NoGhostEntry, Pending
  <1> QED BY <1>2, <1>3, <1>4, <1>5

LEMMA ToldStep == TypeOK /\ Told /\ [Next]_vars => Told'
  <1> SUFFICES ASSUME TypeOK, Told, [Next]_vars PROVE Told'
    OBVIOUS
  <1>1. CASE UNCHANGED vars \/ Tick
    BY <1>1 DEF vars, Tick, Told, NewIsClean, PendingUnanswered, OneHand, AckedIsSent,
                FirstAnswerStands, NoGhostEntry, InHand, Pending
  <1>2. CASE DenyAll
    <2>1. /\ Pending' = Pending \ Pending /\ UNCHANGED <<chan, call, outcome, acked>>
          /\ hands' = hands \union
                  {[call |-> c, step |-> "withdraw", answer |-> ShutDown] : c \in Pending}
      BY <1>2 DEF DenyAll, Pending
    <2> QED BY <2>1, ToldTaken
  <1>3. ASSUME NEW c \in Call, Register(c)
        PROVE  Told'
    <2>1. CASE RegisterShut(c)
      <3>1. /\ UNCHANGED <<pending, chan, hands, acked>>
            /\ call' = [call EXCEPT ![c] = call'[c]] /\ outcome' = [outcome EXCEPT ![c] = outcome'[c]]
            /\ call[c] = "new" /\ call'[c] = "over" /\ c \notin Pending
        BY <2>1 DEF RegisterShut, TypeOK, Told, NewIsClean
      <3> QED BY ONLY TypeOK, Told, c \in Call, <3>1, ToldQuiet
    <2> QED BY <1>3, <2>1, ToldRegister DEF Register
  <1>4. ASSUME NEW c \in Call, NEW d, NEW via, Take(c, d, via),
               UNCHANGED <<call, chan, outcome, acked>>
        PROVE  Told'
    <2>1. /\ Pending' = Pending \ {c} /\ {c} \in SUBSET Pending
          /\ hands' = hands \union
                  {[call |-> p, step |-> "withdraw", answer |-> [d |-> d, via |-> via]] : p \in {c}}
      BY <1>4 DEF Take, Without, Pending, Restrict
    <2> QED BY <1>4, <2>1, ToldTaken
  <1>5. ASSUME NEW c \in Call, Work(c)
        PROVE  Told'
    <2>1. CASE BeginWait(c) \/ Elapse(c)
      <3>1. /\ UNCHANGED <<pending, chan, hands, acked, outcome>>
            /\ call' = [call EXCEPT ![c] = call'[c]] /\ outcome' = [outcome EXCEPT ![c] = outcome'[c]]
            /\ call[c] \in {"registered", "waiting"} /\ call'[c] \in {"waiting", "elapsed"}
        BY <2>1 DEF BeginWait, Elapse, TypeOK
      <3> QED BY <3>1, ToldQuiet
    <2>2. CASE GiveUpWaiting(c)
      <3>1. /\ UNCHANGED <<pending, chan, hands, acked>>
            /\ call' = [call EXCEPT ![c] = call'[c]] /\ outcome' = [outcome EXCEPT ![c] = outcome'[c]]
            /\ call[c] = "cleaning" /\ call'[c] = "over" /\ outcome'[c] = TimedOut
            /\ c \notin Pending
        BY <2>2 DEF GiveUpWaiting, TypeOK, Told, NoGhostEntry
      <3> QED BY ONLY TypeOK, Told, c \in Call, <3>1, ToldQuiet
    <2>3. CASE UNCHANGED <<pending, chan, hands, acked, call, outcome>>
      BY <2>3 DEF Told, NewIsClean, PendingUnanswered, OneHand, AckedIsSent,
                  FirstAnswerStands, NoGhostEntry, InHand, Pending
    <2>4. CASE ResolveNative(c)
      BY <1>4, <2>3, <2>4 DEF ResolveNative
    <2>5. CASE AttachPrompt(c)
      BY <2>3, <2>5 DEF AttachPrompt
    <2> QED BY <1>5, <2>1, <2>2, <2>4, <2>5, ToldForget, ToldWithdraw, ToldSend, ToldReceive DEF Work
  <1>6. ASSUME NEW c \in Call, Abandon(c)
        PROVE  Told'
    <2>1. /\ UNCHANGED <<pending, chan, hands, acked>>
          /\ call' = [call EXCEPT ![c] = call'[c]] /\ outcome' = [outcome EXCEPT ![c] = outcome'[c]]
          /\ call[c] \in {"registered", "waiting"} /\ call'[c] = "abandoned"
      BY <1>6 DEF Abandon, TypeOK
    <2> QED BY <2>1, ToldQuiet
  <1>7. ASSUME NEW c \in Call, Dismiss(c) \/ \E d \in Decision : Click(c, d)
        PROVE  Told'
    BY <1>7 DEF Dismiss, Click, Told, NewIsClean, PendingUnanswered, OneHand, AckedIsSent,
                FirstAnswerStands, NoGhostEntry, InHand, Pending
  <1>8. ASSUME NEW c \in Call, NEW d \in Decision, NEW via \in Channel, Resolve(c, d, via)
        PROVE  Told'
    BY <1>4, <1>8 DEF Resolve
  <1> QED BY <1>1, <1>2, <1>3, <1>5, <1>6, <1>7, <1>8 DEF Next

-----------------------------------------------------------------------------
(* Dialogs *)

\* Whoever takes a call out of `pending` owes the withdrawal of its dialog.
LEMMA OrphanStep == TypeOK /\ NoOrphanPrompt /\ [Next]_vars => NoOrphanPrompt'
  <1> DEFINE Owed(c) == (\E h \in hands : h.call = c /\ h.step = "withdraw") \/ call[c] = "cleaning"
  <1> SUFFICES ASSUME TypeOK, NoOrphanPrompt, [Next]_vars PROVE NoOrphanPrompt'
    OBVIOUS
  <1> USE DEF TypeOK
  <1>0. \A c \in prompts : c \in Pending \/ Owed(c)
    BY DEF NoOrphanPrompt
  <1>1. SUFFICES \A c \in prompts' : c \in Pending' \/ Owed(c)'
    BY DEF NoOrphanPrompt
  <1>2. ASSUME prompts' \subseteq prompts, Pending \subseteq Pending', hands \subseteq hands',
               \A c \in Call : call[c] = "cleaning" => call'[c] = "cleaning"
        PROVE  \A c \in prompts' : c \in Pending' \/ Owed(c)'
    BY <1>0, <1>2
  <1>3. ASSUME prompts' = prompts, hands \subseteq hands',
               \A c \in Call : call[c] = "cleaning" => call'[c] = "cleaning",
               \A c \in Pending \ Pending' : \E h \in hands' : h.call = c /\ h.step = "withdraw"
        PROVE  \A c \in prompts' : c \in Pending' \/ Owed(c)'
    BY <1>0, <1>3
  <1>4. CASE UNCHANGED vars \/ Tick
    BY <1>2, <1>4 DEF vars, Tick, Pending
  <1>5. CASE DenyAll
    <2>1. ASSUME NEW c \in Pending
          PROVE  \E h \in hands' : h.call = c /\ h.step = "withdraw"
      <3>1. [call |-> c, step |-> "withdraw", answer |-> ShutDown] \in hands'
        BY <1>5 DEF DenyAll
      <3> QED BY <3>1
    <2> QED BY <1>3, <1>5, <2>1 DEF DenyAll
  <1>6. ASSUME NEW c \in Call, Register(c)
        PROVE  \A p \in prompts' : p \in Pending' \/ Owed(p)'
    <2>1. CASE RegisterShut(c)
      BY <1>2, <2>1 DEF RegisterShut, Pending
    <2>2. CASE RegisterRefused(c) \/ RegisterAccepted(c)
      <3>1. /\ prompts' = prompts /\ hands \subseteq hands' /\ Live \subseteq Pending'
            /\ \A p \in Call : call[p] = "cleaning" => call'[p] = "cleaning"
        BY <2>2 DEF RegisterRefused, RegisterAccepted, Registrable, Prune, Pending, Live, Restrict
      <3>2. ASSUME NEW p \in Pending \ Live
            PROVE  \E h \in hands' : h.call = p /\ h.step = "withdraw"
        <4>1. [call |-> p, step |-> "withdraw", answer |-> TimedOut] \in hands'
          BY <2>2 DEF RegisterRefused, RegisterAccepted, Prune
        <4> QED BY <4>1
      <3> QED BY <1>3, <3>1, <3>2
    <2> QED BY <1>6, <2>1, <2>2 DEF Register
  <1>7. ASSUME NEW c \in Call, NEW d, NEW via, Take(c, d, via), UNCHANGED <<call, prompts>>
        PROVE  \A p \in prompts' : p \in Pending' \/ Owed(p)'
    <2>1. Pending' = Pending \ {c} /\ hands \subseteq hands'
      BY <1>7 DEF Take, Without, Pending, Restrict
    <2>2. [call |-> c, step |-> "withdraw", answer |-> [d |-> d, via |-> via]] \in hands'
      BY <1>7 DEF Take
    <2> QED BY <1>3, <1>7, <2>1, <2>2
  <1>8. ASSUME NEW c \in Call, Work(c)
        PROVE  \A p \in prompts' : p \in Pending' \/ Owed(p)'
    <2>1. CASE BeginWait(c) \/ Receive(c) \/ Elapse(c)
      BY <1>2, <2>1 DEF BeginWait, Receive, Elapse, Pending
    <2>2. CASE Forget(c)
      <3>1. /\ call' = [call EXCEPT ![c] = "cleaning"] /\ Pending' = Pending \ {c}
            /\ UNCHANGED <<hands, prompts>>
        BY <2>2 DEF Forget, Without, Pending, Restrict
      <3> QED BY <1>0, <3>1
    <2>3. CASE GiveUpWaiting(c)
      <3>1. /\ prompts' = prompts \ {c} /\ Pending' = Pending /\ hands' = hands
            /\ \A p \in Call \ {c} : call'[p] = call[p]
        BY <2>3 DEF GiveUpWaiting, Withdrawn, Pending
      <3> QED BY <1>0, <3>1
    <2>4. CASE AttachPrompt(c)
      <3>1. /\ prompts' = prompts \/ (prompts' = prompts \union {c} /\ c \in Pending)
            /\ UNCHANGED <<pending, hands, call>>
        BY <2>4 DEF AttachPrompt, Attachable
      <3> QED BY <1>0, <3>1 DEF Pending
    <2>5. CASE ResolveNative(c)
      BY <1>2, <1>7, <2>5 DEF ResolveNative, Pending
    <2>6. ASSUME NEW h \in hands, Withdraw(h)
          PROVE  \A p \in prompts' : p \in Pending' \/ Owed(p)'
      <3>1. prompts' = prompts \ {h.call} /\ hands \ {h} \subseteq hands' /\ UNCHANGED <<call, pending>>
        BY <2>6 DEF Withdraw, Withdrawn
      <3> QED BY <1>0, <3>1 DEF Pending
    <2>7. ASSUME NEW h \in hands, Send(h)
          PROVE  \A p \in prompts' : p \in Pending' \/ Owed(p)'
      <3>1. /\ h.step = "send" /\ hands' = hands \ {h} /\ UNCHANGED <<call, pending, prompts>>
        BY <2>7 DEF Send
      <3> QED BY <1>0, <3>1 DEF Pending
    <2> QED BY <1>8, <2>1, <2>2, <2>3, <2>4, <2>5, <2>6, <2>7 DEF Work
  <1>9. ASSUME NEW c \in Call, Abandon(c) \/ Dismiss(c) \/ \E d \in Decision : Click(c, d)
        PROVE  \A p \in prompts' : p \in Pending' \/ Owed(p)'
    BY <1>2, <1>9 DEF Abandon, Dismiss, Click, Pending
  <1>10. ASSUME NEW c \in Call, NEW d \in Decision, NEW via \in Channel, Resolve(c, d, via)
         PROVE  \A p \in prompts' : p \in Pending' \/ Owed(p)'
    BY <1>7, <1>10 DEF Resolve
  <1> HIDE DEF Owed
  <1> QED BY <1>4, <1>5, <1>6, <1>8, <1>9, <1>10 DEF Next

-----------------------------------------------------------------------------
(* Caps *)

Caps == PendingFinite /\ CapsHold

\* Only an accepted register adds to `pending`.
LEMMA PendingShrinks ==
  ASSUME [Next]_vars, ~\E c \in Call : RegisterAccepted(c)
  PROVE  Pending' \subseteq Pending
  <1>1. CASE UNCHANGED vars \/ Tick \/ DenyAll
    BY <1>1 DEF vars, Tick, DenyAll, Pending
  <1>2. ASSUME NEW c \in Call, Register(c)
        PROVE  Pending' \subseteq Pending
    BY <1>2 DEF Register, RegisterShut, RegisterRefused, Pending, Live, Restrict
  <1>3. ASSUME NEW c, NEW d, NEW via, Take(c, d, via)
        PROVE  Pending' \subseteq Pending
    BY <1>3 DEF Take, Without, Pending, Restrict
  <1>4. ASSUME NEW c \in Call, Work(c)
        PROVE  Pending' \subseteq Pending
    <2>1. CASE Forget(c)
      BY <2>1 DEF Forget, Without, Pending, Restrict
    <2>2. CASE ResolveNative(c)
      BY <1>3, <2>2 DEF ResolveNative, Pending
    <2> QED BY <1>4, <2>1, <2>2 DEF Work, BeginWait, Receive, Elapse, GiveUpWaiting, AttachPrompt,
                                    Withdraw, Send, Pending
  <1>5. ASSUME NEW c \in Call, Abandon(c) \/ Dismiss(c) \/ \E d \in Decision : Click(c, d)
        PROVE  Pending' \subseteq Pending
    BY <1>5 DEF Abandon, Dismiss, Click, Pending
  <1>6. ASSUME NEW c \in Call, NEW d \in Decision, NEW via \in Channel, Resolve(c, d, via)
        PROVE  Pending' \subseteq Pending
    BY <1>3, <1>6 DEF Resolve
  <1> QED BY <1>1, <1>2, <1>4, <1>5, <1>6 DEF Next

\* A part of a set that is within a cap is within it.
LEMMA SubsetWithin ==
  ASSUME NEW S, IsFiniteSet(S), NEW T \in SUBSET S, NEW n \in Nat, Cardinality(S) <= n
  PROVE  IsFiniteSet(T) /\ Cardinality(T) <= n
  <1>1. IsFiniteSet(T) /\ Cardinality(T) <= Cardinality(S)
    BY FS_Subset
  <1>2. Cardinality(S) \in Nat /\ Cardinality(T) \in Nat
    BY <1>1, FS_CardinalityType
  <1> QED BY <1>1, <1>2

\* A set with room for one more is within its cap with one more.
LEMMA AddWithin ==
  ASSUME NEW S, IsFiniteSet(S), NEW n \in Nat, ~(Cardinality(S) >= n), NEW x
  PROVE  IsFiniteSet(S \union {x}) /\ Cardinality(S \union {x}) <= n
  <1>1. /\ IsFiniteSet(S \union {x})
        /\ Cardinality(S \union {x}) \in {Cardinality(S), Cardinality(S) + 1}
    BY FS_AddElement
  <1>2. Cardinality(S) \in Nat
    BY FS_CardinalityType
  <1> QED BY <1>1, <1>2

\* A registry that shrinks stays within its caps.
LEMMA CapsShrink ==
  ASSUME Caps, Pending' \subseteq Pending
  PROVE  Caps'
  <1> DEFINE Of(k) == {c \in Pending : ClientOf[c] = k}
  <1>0. /\ IsFiniteSet(Pending) /\ Cardinality(Pending) <= MaxPending
        /\ \A k \in Client : Cardinality(Of(k)) <= MaxPerClient
        /\ MaxPending \in Nat /\ MaxPerClient \in Nat
    BY CapsPositive DEF Caps, PendingFinite, CapsHold
  <1>1. IsFiniteSet(Pending') /\ Cardinality(Pending') <= MaxPending
    BY <1>0, SubsetWithin
  <1>2. ASSUME NEW k \in Client
        PROVE  Cardinality(Of(k)') <= MaxPerClient
    <2>1. Of(k)' \in SUBSET Of(k) /\ Of(k) \in SUBSET Pending
      OBVIOUS
    <2>2. IsFiniteSet(Of(k)) /\ Cardinality(Of(k)) <= MaxPerClient
      BY <1>0, <2>1, FS_Subset
    <2> HIDE DEF Of
    <2> QED BY <1>0, <2>1, <2>2, SubsetWithin
  <1> QED BY <1>1, <1>2 DEF Caps, PendingFinite, CapsHold

LEMMA CapsStep == Caps /\ [Next]_vars => Caps'
  <1> DEFINE Of(k) == {c \in Pending : ClientOf[c] = k}
  <1> SUFFICES ASSUME Caps, [Next]_vars PROVE Caps'
    OBVIOUS
  <1>0. /\ IsFiniteSet(Pending) /\ Cardinality(Pending) <= MaxPending
        /\ \A k \in Client : Cardinality(Of(k)) <= MaxPerClient
        /\ MaxPending \in Nat /\ MaxPerClient \in Nat
    BY CapsPositive DEF Caps, PendingFinite, CapsHold
  <1>1. CASE Pending' \subseteq Pending
    BY <1>1, CapsShrink
  <1>2. ASSUME NEW c \in Call, RegisterAccepted(c)
        PROVE  Caps'
    <2> DEFINE LiveOf(k) == {p \in Live : ClientOf[p] = k}
    <2>1. /\ Pending' = Live \union {c} /\ ~(Cardinality(Live) >= MaxPending)
          /\ ~(Cardinality(LiveOf(ClientOf[c])) >= MaxPerClient)
      BY <1>2 DEF RegisterAccepted, Full, Pending
    <2>2. Live \in SUBSET Pending
      BY DEF Live
    <2>3. IsFiniteSet(Live)
      BY <1>0, <2>2, FS_Subset
    <2>4. IsFiniteSet(Pending') /\ Cardinality(Pending') <= MaxPending
      BY <1>0, <2>1, <2>3, AddWithin
    <2>5. ASSUME NEW k \in Client
          PROVE  Cardinality(Of(k)') <= MaxPerClient
      <3>1. IsFiniteSet(LiveOf(k)) /\ LiveOf(k) \in SUBSET Of(k) /\ IsFiniteSet(Of(k))
        BY <1>0, <2>2, <2>3, FS_Subset
      <3>2. CASE k = ClientOf[c]
        <4>1. Of(k)' = LiveOf(k) \union {c}
          BY <2>1, <3>2
        <4>2. ~(Cardinality(LiveOf(k)) >= MaxPerClient)
          BY <2>1, <3>2
        <4> HIDE DEF LiveOf, Of
        <4> QED BY <1>0, <3>1, <4>1, <4>2, AddWithin
      <3>3. CASE k # ClientOf[c]
        <4>1. Of(k)' = LiveOf(k)
          BY <2>1, <3>3
        <4> HIDE DEF LiveOf, Of
        <4> QED BY <1>0, <3>1, <4>1, SubsetWithin
      <3> QED BY <3>2, <3>3
    <2> QED BY <2>4, <2>5 DEF Caps, PendingFinite, CapsHold
  <1> QED BY <1>1, <1>2, PendingShrinks

-----------------------------------------------------------------------------
(* The theorems *)

IInv == TypeOK /\ Told /\ NoOrphanPrompt /\ Caps

LEMMA InitIInv == Init => IInv
  <1> SUFFICES ASSUME Init PROVE IInv
    OBVIOUS
  <1>1. TypeOK
    BY TypeInit
  <1>2. Pending = {} /\ hands = {} /\ acked = {} /\ prompts = {}
    BY DEF Init, Pending
  <1>3. Told
    BY <1>2 DEF Init, Told, NewIsClean, PendingUnanswered, OneHand, AckedIsSent,
                FirstAnswerStands, NoGhostEntry, InHand
  <1>4. NoOrphanPrompt
    BY <1>2 DEF NoOrphanPrompt
  <1>5. Caps
    <2>1. \A k \in Client : {c \in Pending : ClientOf[c] = k} = {}
      BY <1>2
    <2> QED BY <1>2, <2>1, FS_EmptySet, CapsPositive DEF Caps, PendingFinite, CapsHold
  <1> QED BY <1>1, <1>3, <1>4, <1>5 DEF IInv

THEOREM Invariance == Spec => []IInv
  <1>1. IInv /\ [Next]_vars => IInv'
    BY TypeStep, ToldStep, OrphanStep, CapsStep DEF IInv
  <1> QED BY InitIInv, <1>1, PTL DEF Spec

\* Every reachable state of the registry is well typed.
THEOREM RegistryTypeCorrect == Spec => []TypeOK
  <1>1. IInv => TypeOK
    BY DEF IInv
  <1> QED BY <1>1, Invariance, PTL

\* However its channels race, a call is told of one answer at most, and ends
\* with that answer or with its time-out.
THEOREM OneAnswerPerCall == Spec => []FirstAnswerStands
  <1>1. IInv => FirstAnswerStands
    BY DEF IInv, Told
  <1> QED BY <1>1, Invariance, PTL

\* No dialog stays on the screen of a call that was answered elsewhere, but for
\* the moment in which a thread is about to withdraw it.
THEOREM NoDialogLeftBehind == Spec => []NoOrphanPrompt
  <1>1. IInv => NoOrphanPrompt
    BY DEF IInv
  <1> QED BY <1>1, Invariance, PTL

\* A call that has returned to its client holds no slot of the caps.
THEOREM ReturnedCallsHoldNoSlot == Spec => []NoGhostEntry
  <1>1. IInv => NoGhostEntry
    BY DEF IInv, Told
  <1> QED BY <1>1, Invariance, PTL

\* The registry stays within both caps, the total one and each client's.
THEOREM RegistryWithinCaps == Spec => []CapsHold
  <1>1. IInv => CapsHold
    BY DEF IInv, Caps
  <1> QED BY <1>1, Invariance, PTL
=============================================================================
