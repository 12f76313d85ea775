--------------------------- MODULE TelegramPollProofs ---------------------------
(***************************************************************************)
(* Proofs about the Telegram channel, for any calls, any number of threads,*)
(* updates and restarts.  First the poller of button presses: that two     *)
(* threads never read at once rests on the flag alone: a thread that reads *)
(* has it, and whoever finds it free is the only one to take it.  Then the *)
(* prompts, which the send and the outcome of a call reach in either order.*)
(***************************************************************************)
EXTENDS TelegramPoll, TelegramPrompt, FiniteSetTheorems, TLAPS

\* A thread that reads, or a caller whose spawn was refused.
Reading(t) == thread[t].pc \in {"poll", "handle", "look", "release", "refused"}

\* Whoever reads has the flag, and nobody else reads.
FlagIsHeld ==
  \A t \in Thread : Reading(t) => polling /\ \A u \in Thread : Reading(u) => u = t

\* What a thread holds of the batch lies within what came in.
BatchIsReal == \A t \in Thread : thread[t].next >= 1 /\ thread[t].last <= Len(inbox)

PollInv == PollTypeOK /\ FlagIsHeld /\ BatchIsReal /\ AnsweredByPress

\* The larger of two numbers is one of them.
LEMMA MaxOfTwo ==
  ASSUME NEW a \in Nat, NEW b \in Nat
  PROVE  Max({a, b}) \in Nat
<1>1. CASE a >= b
  <2>1. \A x \in {a, b} : a >= x BY <1>1
  <2>2. \E x \in {a, b} : \A y \in {a, b} : x >= y BY <2>1
  <2>3. Max({a, b}) \in {a, b} BY <2>2 DEF Max
  <2> QED BY <2>3
<1>2. CASE ~(a >= b)
  <2>1. \A x \in {a, b} : b >= x BY <1>2
  <2>2. \E x \in {a, b} : \A y \in {a, b} : x >= y BY <2>1
  <2>3. Max({a, b}) \in {a, b} BY <2>2 DEF Max
  <2> QED BY <2>3
<1> QED BY <1>1, <1>2

ThreadState == [pc : Stage, offset : Nat, next : Nat, last : Nat]

\* A thread goes on to another stage, or to the next update of its batch.
LEMMA StageSet ==
  ASSUME NEW f \in [Thread -> ThreadState], NEW t \in Thread, NEW to \in Stage
  PROVE  LET g == [f EXCEPT ![t].pc = to]
         IN  /\ g \in [Thread -> ThreadState]
             /\ g[t] = [pc |-> to, offset |-> f[t].offset, next |-> f[t].next, last |-> f[t].last]
             /\ \A u \in Thread : u # t => g[u] = f[u]
<1> DEFINE r == [f[t] EXCEPT !.pc = to]
<1>1. r = [pc |-> to, offset |-> f[t].offset, next |-> f[t].next, last |-> f[t].last]
  BY DEF ThreadState
<1>2. r \in ThreadState BY <1>1 DEF ThreadState
<1>3. [f EXCEPT ![t].pc = to] = [f EXCEPT ![t] = r] OBVIOUS
<1> HIDE DEF r
<1> QED BY <1>1, <1>2, <1>3

LEMMA NextSet ==
  ASSUME NEW f \in [Thread -> ThreadState], NEW t \in Thread
  PROVE  LET g == [f EXCEPT ![t].next = @ + 1]
         IN  /\ g \in [Thread -> ThreadState]
             /\ g[t] = [pc |-> f[t].pc, offset |-> f[t].offset, next |-> f[t].next + 1,
                        last |-> f[t].last]
             /\ \A u \in Thread : u # t => g[u] = f[u]
<1> DEFINE r == [f[t] EXCEPT !.next = @ + 1]
<1>1. r = [pc |-> f[t].pc, offset |-> f[t].offset, next |-> f[t].next + 1, last |-> f[t].last]
  BY DEF ThreadState
<1>2. r \in ThreadState BY <1>1 DEF ThreadState
<1>3. [f EXCEPT ![t].next = @ + 1] = [f EXCEPT ![t] = r] OBVIOUS
<1> HIDE DEF r
<1> QED BY <1>1, <1>2, <1>3

LEMMA PollInitially == PollInit => PollInv
<1> SUFFICES ASSUME PollInit PROVE PollInv OBVIOUS
<1>1. Off \in ThreadState BY DEF Off, ThreadState, Stage
<1>2. thread \in [Thread -> ThreadState] BY <1>1 DEF PollInit
<1>3. PollTypeOK
  <2>1. inbox \in Seq(Update) BY DEF PollInit
  <2>2. entry \in [Approval -> {"new", "live", "expired", "gone"}]
        /\ answer \in [Approval -> Verdict \union {"none"}]
    BY DEF PollInit
  <2> QED BY <1>2, <2>1, <2>2 DEF PollInit, PollTypeOK, ThreadState
<1>4. FlagIsHeld BY DEF PollInit, FlagIsHeld, Reading, Off
<1>5. BatchIsReal BY DEF PollInit, BatchIsReal, Off
<1>6. AnsweredByPress BY DEF PollInit, AnsweredByPress
<1> QED BY <1>3, <1>4, <1>5, <1>6 DEF PollInv

LEMMA TypesKept == 
  ASSUME PollTypeOK, BatchIsReal, [PollNext]_pollVars
  PROVE  PollTypeOK'
<1>0. /\ thread \in [Thread -> ThreadState] /\ inbox \in Seq(Update)
      /\ entry \in [Approval -> {"new", "live", "expired", "gone"}]
      /\ answer \in [Approval -> Verdict \union {"none"}]
      /\ confirmed \in Nat /\ offset \in Nat
  BY DEF PollTypeOK, ThreadState
<1>1. CASE UNCHANGED pollVars BY <1>1 DEF pollVars, PollTypeOK
<1>2. CASE Restart
  <2>1. thread' \in [Thread -> ThreadState] BY <1>2 DEF Restart, Off, Stage, ThreadState
  <2>2. entry' \in [Approval -> {"new", "live", "expired", "gone"}] BY <1>2 DEF Restart
  <2>3. /\ answer' = answer /\ nudged' = nudged /\ inbox' = inbox
        /\ confirmed' = confirmed /\ offset' = offset
        /\ polling' = FALSE /\ crashes' = crashes + 1
    BY <1>2 DEF Restart
  <2>4. nudged \subseteq Approval /\ crashes \in Nat BY DEF PollTypeOK
  <2>5. polling' \in BOOLEAN /\ refused' \in BOOLEAN
    <3>1. polling' = FALSE /\ refused' = FALSE BY <1>2 DEF Restart
    <3> QED BY ONLY <3>1, Zenon
  <2>6. crashes' \in Nat BY ONLY <2>3, <2>4, SMT
  <2> QED BY ONLY <1>0, <2>1, <2>2, <2>3, <2>4, <2>5, <2>6 DEF PollTypeOK, ThreadState
<1>3. ASSUME NEW c \in Approval, Arrive(c) \/ Expire(c) \/ TakenOut(c) PROVE PollTypeOK'
  BY <1>3 DEF Arrive, Expire, TakenOut, PollTypeOK
<1>4. ASSUME NEW c \in Approval, Press(c) \/ Noise(c) PROVE PollTypeOK'
  <2>1. \A d \in Verdict : [call |-> c, d |-> d, from |-> "operator"] \in Update
    BY DEF Update
  <2>2. [call |-> c, d |-> "approve", from |-> "other"] \in Update BY DEF Update, Verdict
  <2>3. \E u \in Update : inbox' = Append(inbox, u)
    BY <1>4, <2>1, <2>2 DEF Press, Noise
  <2>4. inbox' \in Seq(Update) BY <1>0, <2>3
  <2> QED BY <1>4, <2>4 DEF Press, Noise, PollTypeOK
<1>5. ASSUME NEW c \in Approval, EnsurePolling(c) PROVE PollTypeOK'
  <2>1. thread' \in [Thread -> ThreadState]
    <3>1. CASE Starts
      <4>1. PICK t \in Thread, stage \in {"poll", "refused"} : thread' = [thread EXCEPT ![t] =
                       [pc |-> stage, offset |-> offset, next |-> 1, last |-> 0]]
        BY <1>5, <3>1 DEF EnsurePolling
      <4>2. [pc |-> stage, offset |-> offset, next |-> 1, last |-> 0] \in ThreadState
        BY <1>0 DEF Stage, ThreadState
      <4> QED BY <1>0, <4>1, <4>2
    <3>2. CASE ~Starts BY <1>0, <1>5, <3>2 DEF EnsurePolling
    <3> QED BY <3>1, <3>2
  <2> QED BY <1>5, <2>1 DEF EnsurePolling, ThreadState, PollTypeOK
<1>6. ASSUME NEW t \in Thread, PollStep(t) \/ PollFails(t) PROVE PollTypeOK'
  <2>0. thread[t] \in ThreadState BY <1>0
  <2>1. CASE Fetch(t)
    <3>1. From(t) \in Nat /\ From(t) >= 1 BY <1>0, <2>0 DEF From, ThreadState
    <3>2. [pc |-> "handle", offset |-> thread[t].offset, next |-> From(t), last |-> Len(inbox)]
            \in ThreadState
      BY <1>0, <2>0, <3>1 DEF ThreadState, Stage
    <3>3. thread' \in [Thread -> ThreadState] BY <1>0, <2>1, <3>2 DEF Fetch
    <3>4. From(t) - 1 \in Nat BY <3>1
    <3>5. Max({confirmed, From(t) - 1}) \in Nat BY <1>0, <3>4, MaxOfTwo
    <3> QED BY <2>1, <3>3, <3>5 DEF Fetch, ThreadState, PollTypeOK
  <2>2. CASE HandleUpdate(t)
    <3>1. thread' \in [Thread -> ThreadState] BY <1>0, <2>2, NextSet DEF HandleUpdate
    <3>2. entry' \in [Approval -> {"new", "live", "expired", "gone"}]
      BY <1>0, <2>2 DEF HandleUpdate
    <3>3. answer' \in [Approval -> Verdict \union {"none"}]
      <4> DEFINE u == inbox[thread[t].next]
      <4>1. CASE ~Accepted(u) BY <1>0, <2>2, <4>1 DEF HandleUpdate
      <4>2. CASE Accepted(u)
        <5>1. answer' = [answer EXCEPT ![u.call] = u.d] BY <2>2, <4>2 DEF HandleUpdate
        <5>2. thread[t].next \in 1..Len(inbox)
          BY <1>0, <2>0, <2>2 DEF HandleUpdate, BatchIsReal, ThreadState
        <5>3. u \in Update BY <1>0, <5>2
        <5>4. u.d \in Verdict BY <5>3 DEF Update
        <5> HIDE DEF u
        <5> QED BY <1>0, <5>1, <5>4
      <4> QED BY <4>1, <4>2
    <3> QED BY <2>2, <3>1, <3>2, <3>3 DEF HandleUpdate, ThreadState, PollTypeOK
  <2>3. CASE Persist(t)
    <3>1. NextOffset(t) \in Nat
      <4>1. thread[t].last + 1 \in Nat /\ thread[t].offset \in Nat BY <2>0 DEF ThreadState
      <4> QED BY <4>1, MaxOfTwo DEF NextOffset
    <3>2. offset' \in Nat BY <1>0, <2>3, <3>1 DEF Persist
    <3>3. thread' \in [Thread -> ThreadState]
      <4>1. PICK n \in Nat : thread' = [thread EXCEPT ![t] =
                       [pc |-> "look", offset |-> n, next |-> 1, last |-> 0]]
        BY <1>0, <2>0, <2>3, <3>1 DEF Persist, ThreadState
      <4>2. [pc |-> "look", offset |-> n, next |-> 1, last |-> 0] \in ThreadState
        BY DEF ThreadState, Stage
      <4> QED BY <1>0, <4>1, <4>2
    <3> QED BY <2>3, <3>2, <3>3 DEF Persist, ThreadState, PollTypeOK
  <2>4. CASE Look(t) \/ Release(t) \/ LookAgain(t) \/ TakeOver(t) \/ PollFails(t)
               \/ SpawnRefused(t)
    <3>1. \E to \in Stage : thread' = [thread EXCEPT ![t].pc = to]
      BY <2>4 DEF Look, Release, LookAgain, TakeOver, PollFails, SpawnRefused, Goes, Stage
    <3>2. PICK to \in Stage : thread' = [thread EXCEPT ![t].pc = to] BY <3>1, Zenon
    <3>3. [thread EXCEPT ![t].pc = to] \in [Thread -> ThreadState] BY <1>0, StageSet
    <3>4. thread' \in [Thread -> ThreadState] BY <3>2, <3>3, Zenon
    <3> QED
      BY <2>4, <3>4 DEF Look, Release, LookAgain, TakeOver, PollFails, SpawnRefused, ThreadState,
                        PollTypeOK
  <2> QED BY <1>6, <2>1, <2>2, <2>3, <2>4 DEF PollStep
<1> QED BY <1>1, <1>2, <1>3, <1>4, <1>5, <1>6 DEF PollNext

-----------------------------------------------------------------------------

\* What a step of one thread does to the threads.
Others(t) == \A u \in Thread : u # t => thread'[u] = thread[u]

LEMMA GoesTo ==
  ASSUME thread \in [Thread -> ThreadState], NEW t \in Thread, NEW from, NEW to \in Stage,
         Goes(t, from, to)
  PROVE  /\ thread[t].pc = from /\ thread'[t].pc = to
         /\ thread'[t].next = thread[t].next /\ thread'[t].last = thread[t].last
         /\ Others(t)
<1>1. thread[t].pc = from /\ thread' = [thread EXCEPT ![t].pc = to] BY DEF Goes
<1>2. /\ [thread EXCEPT ![t].pc = to][t] = [pc |-> to, offset |-> thread[t].offset,
                                         next |-> thread[t].next, last |-> thread[t].last]
      /\ \A u \in Thread : u # t => [thread EXCEPT ![t].pc = to][u] = thread[u]
  BY StageSet
<1>3. /\ thread'[t] = [pc |-> to, offset |-> thread[t].offset,
                       next |-> thread[t].next, last |-> thread[t].last]
      /\ \A u \in Thread : u # t => thread'[u] = thread[u]
  BY <1>1, <1>2, Zenon
<1> QED BY ONLY <1>1, <1>3 DEF Others

LEMMA StepOfThread ==
  ASSUME PollTypeOK, BatchIsReal, NEW t \in Thread, PollStep(t) \/ PollFails(t)
  PROVE  /\ Others(t)
         /\ \/ Reading(t) /\ Reading(t)' /\ UNCHANGED polling
            \/ Reading(t) /\ ~Reading(t)'
            \/ ~Reading(t) /\ ~Reading(t)' /\ (UNCHANGED polling \/ polling')
            \/ ~Reading(t) /\ ~polling /\ polling'
         /\ thread'[t].next >= 1 /\ thread'[t].last <= Len(inbox)
<1>1. /\ thread \in [Thread -> ThreadState] /\ inbox \in Seq(Update) /\ confirmed \in Nat
      /\ thread[t].next >= 1 /\ thread[t].last <= Len(inbox)
  BY DEF PollTypeOK, ThreadState, BatchIsReal
<1>2. thread[t] \in ThreadState BY <1>1
<1>3. CASE Fetch(t)
  <2>1. From(t) \in Nat /\ From(t) >= 1 BY <1>1, <1>2 DEF From, ThreadState
  <2>2. /\ thread[t].pc = "poll"
        /\ thread'[t] = [pc |-> "handle", offset |-> thread[t].offset, next |-> From(t),
                         last |-> Len(inbox)]
        /\ Others(t) /\ UNCHANGED polling
    BY <1>1, <1>3 DEF Fetch, Others
  <2> QED BY <1>1, <2>1, <2>2 DEF Reading
<1>4. CASE HandleUpdate(t)
  <2>1. /\ thread[t].pc = "handle" /\ UNCHANGED polling
        /\ thread' = [thread EXCEPT ![t].next = @ + 1]
    BY <1>4 DEF HandleUpdate
  <2>2. /\ thread'[t] = [pc |-> thread[t].pc, offset |-> thread[t].offset,
                         next |-> thread[t].next + 1, last |-> thread[t].last]
        /\ Others(t)
    BY <1>1, <2>1, NextSet DEF Others
  <2> QED BY <1>1, <1>2, <2>1, <2>2 DEF Reading, ThreadState
<1>5. CASE Persist(t)
  <2>1. thread[t].pc = "handle" /\ UNCHANGED polling BY <1>5 DEF Persist
  <2>2. PICK n : thread' = [thread EXCEPT ![t] =
                   [pc |-> "look", offset |-> n, next |-> 1, last |-> 0]]
    BY <1>5 DEF Persist
  <2>3. thread'[t] = [pc |-> "look", offset |-> n, next |-> 1, last |-> 0] /\ Others(t)
    BY <1>1, <2>2 DEF Others
  <2>4. Len(inbox) \in Nat BY <1>1
  <2> QED BY <2>1, <2>3, <2>4 DEF Reading
<1>6. CASE PollFails(t) \/ Look(t) \/ LookAgain(t) \/ Release(t) \/ SpawnRefused(t)
  <2>1. PICK from \in Stage, to \in Stage :
          /\ Goes(t, from, to)
          /\ \/ from = "poll" /\ to = "look" /\ UNCHANGED polling
             \/ from = "look" /\ to \in {"release", "poll"} /\ UNCHANGED polling
             \/ from = "again" /\ to \in {"reclaim", "off"} /\ UNCHANGED polling
             \/ from = "release" /\ to = "again" /\ ~polling'
             \/ from = "refused" /\ to = "off" /\ ~polling'
    BY <1>6 DEF PollFails, Look, LookAgain, Release, SpawnRefused, Stage
  <2> QED BY <1>1, <2>1, GoesTo DEF Reading
<1>7. CASE TakeOver(t)
  <2>1. PICK to \in Stage :
          /\ Goes(t, "reclaim", to) /\ polling'
          /\ \/ to = "poll" /\ ~polling
             \/ to = "off" /\ polling
    BY <1>7 DEF TakeOver, Reclaims, Stage
  <2>2. /\ thread[t].pc = "reclaim" /\ thread'[t].pc = to
        /\ thread'[t].next = thread[t].next /\ thread'[t].last = thread[t].last
        /\ Others(t)
    BY <1>1, <2>1, GoesTo
  <2>3. CASE to = "poll" /\ ~polling BY <1>1, <2>1, <2>2, <2>3 DEF Reading
  <2>4. CASE to = "off" /\ polling
    <3>1. ~Reading(t) /\ ~Reading(t)' BY <2>2, <2>4 DEF Reading
    <3>2. polling' BY <2>1
    <3> QED BY <1>1, <2>2, <3>1, <3>2
  <2> QED BY <2>1, <2>3, <2>4
<1> QED BY <1>3, <1>4, <1>5, <1>6, <1>7 DEF PollStep

LEMMA FlagKept ==
  ASSUME PollTypeOK, FlagIsHeld, BatchIsReal, [PollNext]_pollVars
  PROVE  FlagIsHeld' /\ BatchIsReal'
<1>0. /\ thread \in [Thread -> ThreadState] /\ inbox \in Seq(Update)
      /\ \A t \in Thread : thread[t].last \in Nat
  BY DEF PollTypeOK, ThreadState
<1>1. CASE /\ UNCHANGED <<thread, polling>>
           /\ inbox' = inbox \/ \E u \in Update : inbox' = Append(inbox, u)
  <2>1. Len(inbox') >= Len(inbox) BY <1>0, <1>1
  <2>2. Len(inbox') \in Nat /\ Len(inbox) \in Nat BY <1>0, <1>1
  <2> QED BY <1>0, <1>1, <2>1, <2>2 DEF FlagIsHeld, BatchIsReal, Reading
<1>2. CASE Restart BY <1>0, <1>2 DEF Restart, FlagIsHeld, BatchIsReal, Reading, Off
<1>3. ASSUME NEW c \in Approval, EnsurePolling(c) PROVE FlagIsHeld' /\ BatchIsReal'
  <2>1. CASE ~Starts
    <3>1. UNCHANGED <<thread, polling, inbox>> BY <1>3, <2>1 DEF EnsurePolling
    <3> QED BY <1>1, <3>1
  <2>2. CASE Starts
    <3>1. ~polling /\ polling' /\ UNCHANGED inbox BY <1>3, <2>2 DEF EnsurePolling, Starts
    <3>2. PICK t \in Thread, stage \in {"poll", "refused"} : thread' = [thread EXCEPT ![t] =
                       [pc |-> stage, offset |-> offset, next |-> 1, last |-> 0]]
      BY <1>3, <2>2 DEF EnsurePolling
    <3>3. /\ thread'[t] = [pc |-> stage, offset |-> offset, next |-> 1, last |-> 0]
          /\ \A u \in Thread : u # t => thread'[u] = thread[u]
      BY <1>0, <3>2
    <3> QED BY <1>0, <3>1, <3>3 DEF FlagIsHeld, BatchIsReal, Reading
  <2> QED BY <2>1, <2>2
<1>4. ASSUME NEW t \in Thread, PollStep(t) \/ PollFails(t)
      PROVE  FlagIsHeld' /\ BatchIsReal'
  <2>1. UNCHANGED inbox
    BY <1>4 DEF PollStep, PollFails, SpawnRefused, Fetch, HandleUpdate, Persist, Look, Release,
                LookAgain, TakeOver
  <2>2. /\ \A u \in Thread : u # t => thread'[u] = thread[u]
        /\ thread'[t].next >= 1 /\ thread'[t].last <= Len(inbox)
        /\ \/ Reading(t) /\ Reading(t)' /\ UNCHANGED polling
           \/ Reading(t) /\ ~Reading(t)'
           \/ ~Reading(t) /\ ~Reading(t)' /\ (UNCHANGED polling \/ polling')
           \/ ~Reading(t) /\ ~polling /\ polling'
    BY <1>4, StepOfThread DEF Others
  <2>3. BatchIsReal' BY <2>1, <2>2 DEF BatchIsReal
  <2>4. \A u \in Thread : u # t => (Reading(u)' <=> Reading(u)) BY <2>2 DEF Reading
  <2>5. FlagIsHeld' BY <2>2, <2>4 DEF FlagIsHeld
  <2> QED BY <2>3, <2>5
<1>5. ASSUME NEW c \in Approval, Arrive(c) \/ Expire(c) \/ TakenOut(c) \/ Press(c) \/ Noise(c)
      PROVE  FlagIsHeld' /\ BatchIsReal'
  <2>1. UNCHANGED <<thread, polling>>
    BY <1>5 DEF Arrive, Expire, TakenOut, Press, Noise
  <2>2. inbox' = inbox \/ \E u \in Update : inbox' = Append(inbox, u)
    <3>1. CASE Press(c)
      <4>1. \A d \in Verdict : [call |-> c, d |-> d, from |-> "operator"] \in Update
        BY DEF Update
      <4> QED BY <3>1, <4>1 DEF Press
    <3>2. CASE Noise(c)
      <4>1. [call |-> c, d |-> "approve", from |-> "other"] \in Update BY DEF Update, Verdict
      <4> QED BY <3>2, <4>1 DEF Noise
    <3> QED BY <1>5, <3>1, <3>2 DEF Arrive, Expire, TakenOut
  <2> QED BY <1>1, <2>1, <2>2
<1>6. CASE UNCHANGED pollVars BY <1>1, <1>6 DEF pollVars
<1> QED BY <1>2, <1>3, <1>4, <1>5, <1>6 DEF PollNext

LEMMA AnswersKept ==
  ASSUME PollTypeOK, BatchIsReal, AnsweredByPress, [PollNext]_pollVars
  PROVE  AnsweredByPress'
<1>0. /\ thread \in [Thread -> ThreadState] /\ inbox \in Seq(Update)
      /\ answer \in [Approval -> Verdict \union {"none"}]
  BY DEF PollTypeOK, ThreadState
<1>1. CASE answer' = answer /\ (inbox' = inbox \/ \E u : inbox' = Append(inbox, u))
  <2>1. \A i \in DOMAIN inbox : i \in DOMAIN inbox' /\ inbox'[i] = inbox[i]
    BY <1>0, <1>1
  <2> QED BY <1>1, <2>1 DEF AnsweredByPress
<1>2. ASSUME NEW t \in Thread, HandleUpdate(t) PROVE AnsweredByPress'
  <2> DEFINE n == thread[t].next
  <2>1. n \in 1..Len(inbox)
    BY <1>0, <1>2 DEF HandleUpdate, BatchIsReal, ThreadState
  <2>2. inbox[n] \in Update /\ n \in DOMAIN inbox BY <1>0, <2>1
  <2>3. inbox' = inbox BY <1>2 DEF HandleUpdate
  <2>4. CASE ~Accepted(inbox[n])
    <3>1. answer' = answer BY <1>2, <2>4 DEF HandleUpdate
    <3> QED BY <1>1, <2>3, <3>1
  <2>5. CASE Accepted(inbox[n])
    <3> DEFINE u == inbox[n]
    <3>1. answer' = [answer EXCEPT ![u.call] = u.d] BY <1>2, <2>5 DEF HandleUpdate
    <3>2. u = [call |-> u.call, d |-> u.d, from |-> "operator"]
      BY <2>2, <2>5 DEF Accepted, Update
    <3> HIDE DEF u
    <3>3. ASSUME NEW c \in Approval, answer'[c] # "none"
          PROVE  \E i \in DOMAIN inbox : inbox[i] = [call |-> c, d |-> answer'[c], from |-> "operator"]
      <4>1. CASE c = u.call
        <5>1. answer'[c] = u.d BY <1>0, <3>1, <4>1
        <5>2. inbox[n] = [call |-> c, d |-> answer'[c], from |-> "operator"]
          BY <3>2, <4>1, <5>1 DEF u
        <5> QED BY <2>2, <5>2
      <4>2. CASE c # u.call
        <5>1. answer'[c] = answer[c] BY <1>0, <3>1, <4>2
        <5> QED BY <3>3, <5>1 DEF AnsweredByPress
      <4> QED BY <4>1, <4>2
    <3> QED BY <2>3, <3>3 DEF AnsweredByPress
  <2> QED BY <2>4, <2>5
<1>3. ASSUME NEW t \in Thread,
             Fetch(t) \/ PollFails(t) \/ Persist(t) \/ Look(t) \/ Release(t) \/ LookAgain(t)
               \/ TakeOver(t) \/ SpawnRefused(t)
      PROVE  AnsweredByPress'
  BY <1>1, <1>3 DEF Fetch, PollFails, Persist, Look, Release, LookAgain, TakeOver, SpawnRefused
<1>4. ASSUME NEW c \in Approval,
             Arrive(c) \/ Expire(c) \/ TakenOut(c) \/ Press(c) \/ Noise(c) \/ EnsurePolling(c)
      PROVE  AnsweredByPress'
  BY <1>1, <1>4 DEF Arrive, Expire, TakenOut, Press, Noise, EnsurePolling
<1>5. CASE Restart \/ UNCHANGED pollVars BY <1>1, <1>5 DEF Restart, pollVars
<1> QED BY <1>2, <1>3, <1>4, <1>5 DEF PollNext, PollStep

-----------------------------------------------------------------------------

\* Everything the lemmas above need holds of every reachable state.
LEMMA PollInvariant == PollSpec => []PollInv
<1>1. PollInit => PollInv BY PollInitially
<1>2. PollInv /\ [PollNext]_pollVars => PollInv'
  BY TypesKept, FlagKept, AnswersKept DEF PollInv
<1> QED BY <1>1, <1>2, PTL DEF PollSpec

\* The state of the poller is well typed: what a thread takes from the inbox is
\* an update, for the batch it holds lies within the inbox.
THEOREM PollTypeCorrect == PollSpec => []PollTypeOK
<1>1. PollInv => PollTypeOK BY DEF PollInv
<1> QED BY <1>1, PollInvariant, PTL

\* However the exit of one thread races the start of the next over the flag
\* alone (ensure_polling, poll_loop), at most one reads updates.
THEOREM OnlyOnePoller == PollSpec => []OnePoller
<1>1. FlagIsHeld => OnePoller
  <2> SUFFICES ASSUME FlagIsHeld PROVE OnePoller OBVIOUS
  <2> DEFINE R == {t \in Thread : thread[t].pc \in {"poll", "handle", "look", "release"}}
  <2>1. \A t, u \in R : t = u BY DEF FlagIsHeld, Reading
  <2>2. CASE R = {} BY <2>2, FS_EmptySet DEF OnePoller
  <2>3. CASE R # {}
    <3>1. PICK t \in R : TRUE BY <2>3
    <3>2. R = {t} BY <2>1, <3>1
    <3>3. Cardinality(R) = 1 BY <3>2, FS_Singleton
    <3> QED BY <3>3 DEF OnePoller
  <2> QED BY <2>2, <2>3
<1>2. PollInv => OnePoller BY <1>1 DEF PollInv
<1> QED BY <1>2, PollInvariant, PTL

\* A call is answered through Telegram only with what the operator pressed for
\* it (handle_update), across restarts and updates handed out twice.
THEOREM OnlyPressesAnswer == PollSpec => []AnsweredByPress
<1>1. PollInv => AnsweredByPress BY DEF PollInv
<1> QED BY <1>1, PollInvariant, PTL
-----------------------------------------------------------------------------
(* The prompt.  A call's outcome and the answer to its send meet in `sent`, *)
(* in either order, and a thread that still owes the prompt an edit is one  *)
(* that `task` names: so buttons that nobody will take away are buttons of  *)
(* a prompt that is still to be found in `sent`, or of one whose time had   *)
(* run out.                                                                 *)

\* A call is noted once, and on one side of its expiry.
OutcomeOnce == \A c \in PromptedCall : standing[c] = "noted" <=> noted[c] # "no"

\* Nothing is sent for a call before its wait is announced.
NotYetPrompted ==
  \A c \in PromptedCall : standing[c] \in {"new", "registered"} =>
     task[c] = "none" /\ screen[c] = "none" /\ c \notin DOMAIN sent

SendsEnd ==
  \A c \in PromptedCall :
     task[c] = "sending" => time <= sendBy[c] /\ sendBy[c] <= time + SendLimit

EditsAreOfOutcomes ==
  \A c \in PromptedCall : task[c] \in {"late", "editing"} => standing[c] = "noted"

\* A live prompt is of a call with no outcome yet, and no thread has it; a
\* tombstone is of a call that has one, and no edit has it.
SlotsSay ==
  \A c \in DOMAIN sent :
    /\ sent[c].kind = "live" =>
         standing[c] # "noted" /\ task[c] = "none" /\ sent[c].expires = until[c]
    /\ sent[c].kind = "tombstone" => standing[c] = "noted" /\ task[c] \in {"sending", "none"}

\* A tombstone that a send in flight has still to find outlives that send.
OutcomeAwaitsSend ==
  \A c \in PromptedCall : standing[c] = "noted" /\ task[c] = "sending" =>
     Tombstoned(c) /\ sent[c].expires > sendBy[c]

\* Buttons that no thread is about to take away: note_outcome will find them,
\* or they outlived their call.
ButtonsKnown ==
  \A c \in PromptedCall : screen[c] = "buttons" /\ task[c] = "none" =>
    \/ c \in DOMAIN sent /\ sent[c].kind = "live"
    \/ until[c] <= time /\ noted[c] # "timely"

SettledStays == stop = "settled" => EditsSettled

PromptInv ==
  /\ PromptTypeOK
  /\ OutcomeOnce /\ NotYetPrompted /\ SendsEnd /\ EditsAreOfOutcomes
  /\ SlotsSay /\ OutcomeAwaitsSend /\ ButtonsKnown /\ SettledStays

\* What a call that is not the one acted on has: its state is as before, and
\* its slot too, unless it was swept.
Untouched(d) ==
  /\ standing'[d] = standing[d] /\ task'[d] = task[d] /\ screen'[d] = screen[d]
  /\ noted'[d] = noted[d] /\ until'[d] = until[d] /\ sendBy'[d] = sendBy[d]
  /\ time' = time
  /\ d \in DOMAIN sent' => d \in DOMAIN sent /\ sent'[d] = sent[d]
  /\ d \in DOMAIN sent /\ d \notin DOMAIN sent' => sent[d].expires <= time

\* The invariant, of one call.
CallInv(d) ==
  /\ standing[d] = "noted" <=> noted[d] # "no"
  /\ standing[d] \in {"new", "registered"} =>
       task[d] = "none" /\ screen[d] = "none" /\ d \notin DOMAIN sent
  /\ task[d] = "sending" => time <= sendBy[d] /\ sendBy[d] <= time + SendLimit
  /\ task[d] \in {"late", "editing"} => standing[d] = "noted"
  /\ d \in DOMAIN sent =>
       /\ sent[d].kind = "live" =>
            standing[d] # "noted" /\ task[d] = "none" /\ sent[d].expires = until[d]
       /\ sent[d].kind = "tombstone" => standing[d] = "noted" /\ task[d] \in {"sending", "none"}
  /\ standing[d] = "noted" /\ task[d] = "sending" =>
       d \in DOMAIN sent /\ sent[d].kind = "tombstone" /\ sent[d].expires > sendBy[d]
  /\ screen[d] = "buttons" /\ task[d] = "none" =>
       \/ d \in DOMAIN sent /\ sent[d].kind = "live"
       \/ until[d] <= time /\ noted[d] # "timely"

LEMMA PromptInvByCall ==
  PromptInv <=> PromptTypeOK /\ SettledStays /\ \A d \in PromptedCall : CallInv(d)
<1>1. ASSUME PromptTypeOK
      PROVE  SlotsSay <=>
               \A d \in PromptedCall : d \in DOMAIN sent =>
                 /\ sent[d].kind = "live" =>
                      standing[d] # "noted" /\ task[d] = "none" /\ sent[d].expires = until[d]
                 /\ sent[d].kind = "tombstone" =>
                      standing[d] = "noted" /\ task[d] \in {"sending", "none"}
  BY <1>1 DEF PromptTypeOK, SlotsSay
<1> QED
  BY <1>1 DEF PromptInv, CallInv, OutcomeOnce, NotYetPrompted, SendsEnd, EditsAreOfOutcomes,
              OutcomeAwaitsSend, ButtonsKnown, Tombstoned

\* Time stands still and the slot is as it was, or swept: nothing of the
\* invariant is lost for a call that is left alone.
LEMMA UntouchedKeeps ==
  ASSUME PromptTypeOK, NEW d \in PromptedCall, CallInv(d), Untouched(d)
  PROVE  CallInv(d)'
<1>1. d \in DOMAIN sent => sent[d] \in Slot BY DEF PromptTypeOK
<1>2. time \in Nat /\ until[d] \in Nat /\ sendBy[d] \in Nat BY DEF PromptTypeOK
<1>3. CASE d \in DOMAIN sent /\ d \notin DOMAIN sent'
  <2>1. sent[d].expires <= time /\ sent[d].expires \in Nat BY <1>1, <1>3 DEF Untouched, Slot
  <2>2. ~(standing[d] = "noted" /\ task[d] = "sending") BY <2>1, <1>2, <1>3 DEF CallInv
  <2> QED BY <2>1, <2>2, <1>2, <1>3 DEF CallInv, Untouched
<1>4. CASE ~(d \in DOMAIN sent /\ d \notin DOMAIN sent')
  BY <1>4, <1>2 DEF CallInv, Untouched
<1> QED BY <1>3, <1>4

\* What the table of prompts holds after a sweep, an insertion, a removal.
LEMMA SweptIs ==
  ASSUME NEW slots, NEW d
  PROVE  /\ d \in DOMAIN Swept(slots) <=> d \in DOMAIN slots /\ slots[d].expires > time
         /\ d \in DOMAIN Swept(slots) => Swept(slots)[d] = slots[d]
BY DEF Swept, Restrict

LEMMA PutIs ==
  ASSUME NEW slots, NEW c, NEW slot, NEW d
  PROVE  /\ d \in DOMAIN Put(slots, c, slot) <=> d = c \/ d \in DOMAIN slots
         /\ d = c => Put(slots, c, slot)[d] = slot
         /\ d # c /\ d \in DOMAIN slots => Put(slots, c, slot)[d] = slots[d]
BY DEF Put

LEMMA DropIs ==
  ASSUME NEW slots, NEW c, NEW d
  PROVE  /\ d \in DOMAIN Drop(slots, c) <=> d # c /\ d \in DOMAIN slots
         /\ d \in DOMAIN Drop(slots, c) => Drop(slots, c)[d] = slots[d]
BY DEF Drop, Restrict

\* A table of prompts, as PromptTypeOK has it.
Slots(f) == f \in [DOMAIN f -> Slot] /\ DOMAIN f \subseteq PromptedCall

LEMMA SweptSlots ==
  ASSUME NEW slots, Slots(slots)
  PROVE  Slots(Swept(slots))
BY DEF Slots, Swept, Restrict

LEMMA DropSlots ==
  ASSUME NEW slots, Slots(slots), NEW c
  PROVE  Slots(Drop(slots, c))
BY DEF Slots, Drop, Restrict

LEMMA PutSlots ==
  ASSUME NEW slots, Slots(slots), NEW c \in PromptedCall, NEW slot \in Slot
  PROVE  Slots(Put(slots, c, slot))
BY DEF Slots, Put

\* Every step keeps the types.
LEMMA PromptTyped ==
  ASSUME PromptTypeOK, [PromptNext]_promptVars
  PROVE  PromptTypeOK'
<1> USE TimesNat DEF Slot
<1>0. Slots(sent) BY DEF PromptTypeOK, Slots
<1>1. CASE Pass \/ DenyLive \/ Exit \/ UNCHANGED promptVars
  BY <1>1 DEF Pass, DenyLive, Exit, promptVars, PromptTypeOK
<1>2. ASSUME NEW c \in PromptedCall,
             Ask(c) \/ Fire(c) \/ Decided(c) \/ Cancel(c) \/ Delivered(c) \/ SendFails(c) \/ EditEnds(c)
      PROVE  PromptTypeOK'
  BY <1>2 DEF Ask, Fire, Decided, Cancel, Delivered, SendFails, EditEnds, PromptTypeOK
<1>3. ASSUME NEW c \in PromptedCall, SendReturns(c)
      PROVE  PromptTypeOK'
  <2>1. [kind |-> "live", expires |-> until[c]] \in Slot BY DEF PromptTypeOK, Slot
  <2>2. Slots(sent')
    BY <1>0, <1>3, <2>1, DropSlots, SweptSlots, PutSlots DEF SendReturns
  <2> QED BY <1>3, <2>2 DEF SendReturns, PromptTypeOK, Slots
<1>4. ASSUME NEW c \in PromptedCall, NoteOutcome(c)
      PROVE  PromptTypeOK'
  <2>1. [kind |-> "tombstone", expires |-> time + TombstoneTTL] \in Slot
    BY DEF PromptTypeOK, Slot
  <2>2. Slots(sent')
    BY <1>0, <1>4, <2>1, DropSlots, SweptSlots, PutSlots DEF NoteOutcome, LeftBehind
  <2> QED BY <1>4, <2>2 DEF NoteOutcome, PromptTypeOK, Slots
<1> QED BY <1>1, <1>2, <1>3, <1>4 DEF PromptNext

\* A step of one call leaves the others alone; what is swept was out of time.
LEMMA OthersUntouched ==
  ASSUME PromptTypeOK, NEW c \in PromptedCall, NEW d \in PromptedCall, d # c,
         Ask(c) \/ Fire(c) \/ Decided(c) \/ Cancel(c) \/ Delivered(c) \/ SendReturns(c)
         \/ SendFails(c) \/ NoteOutcome(c) \/ EditEnds(c)
  PROVE  Untouched(d)
<1>0. time \in Nat /\ (d \in DOMAIN sent => sent[d].expires \in Nat) BY DEF PromptTypeOK, Slot
<1>1. CASE Ask(c) \/ Fire(c) \/ Decided(c) \/ Cancel(c) \/ Delivered(c) \/ SendFails(c) \/ EditEnds(c)
  BY <1>1 DEF Ask, Fire, Decided, Cancel, Delivered, SendFails, EditEnds, Untouched, PromptTypeOK
<1>2. CASE SendReturns(c)
  <2>1. /\ time' = time /\ standing'[d] = standing[d] /\ task'[d] = task[d]
        /\ screen'[d] = screen[d] /\ noted'[d] = noted[d] /\ until'[d] = until[d]
        /\ sendBy'[d] = sendBy[d]
    BY <1>2 DEF SendReturns, PromptTypeOK
  <2>2. CASE Claimed(c)
    <3>1. sent' = Swept(Drop(sent, c)) BY <1>2, <2>2 DEF SendReturns
    <3> QED BY <1>0, <2>1, <3>1, SweptIs, DropIs DEF Untouched
  <2>3. CASE ~Claimed(c)
    <3>1. sent' = Put(Swept(Drop(sent, c)), c, [kind |-> "live", expires |-> until[c]])
      BY <1>2, <2>3 DEF SendReturns
    <3> QED BY <1>0, <2>1, <3>1, SweptIs, DropIs, PutIs DEF Untouched
  <2> QED BY <2>2, <2>3
<1>3. CASE NoteOutcome(c)
  <2>1. /\ time' = time /\ standing'[d] = standing[d] /\ task'[d] = task[d]
        /\ screen'[d] = screen[d] /\ noted'[d] = noted[d] /\ until'[d] = until[d]
        /\ sendBy'[d] = sendBy[d]
    BY <1>3 DEF NoteOutcome, PromptTypeOK
  <2>2. CASE c \in DOMAIN sent
    <3>1. sent' = Drop(sent, c) BY <1>3, <2>2 DEF NoteOutcome
    <3> QED BY <1>0, <2>1, <3>1, DropIs DEF Untouched
  <2>3. CASE c \notin DOMAIN sent
    <3>1. sent' = Put(Swept(sent), c, [kind |-> "tombstone", expires |-> time + TombstoneTTL])
      BY <1>3, <2>3 DEF NoteOutcome, LeftBehind
    <3> QED BY <1>0, <2>1, <3>1, SweptIs, PutIs DEF Untouched
  <2> QED BY <2>2, <2>3
<1> QED BY <1>1, <1>2, <1>3

\* The steps of the call itself, and of its prompt while `sent` is left alone.
LEMMA CallMoves ==
  ASSUME PromptTypeOK, NEW c \in PromptedCall, CallInv(c),
         Ask(c) \/ Fire(c) \/ Decided(c) \/ Cancel(c) \/ Delivered(c) \/ SendFails(c) \/ EditEnds(c)
  PROVE  CallInv(c)'
<1> USE TimesNat
<1>0. time \in Nat /\ until[c] \in Nat /\ sendBy[c] \in Nat BY DEF PromptTypeOK
<1>1. CASE Ask(c) BY <1>0, <1>1 DEF Ask, CallInv, PromptTypeOK
<1>2. CASE Fire(c) BY <1>0, <1>2 DEF Fire, CallInv, PromptTypeOK
<1>3. CASE Decided(c) BY <1>3 DEF Decided, CallInv, PromptTypeOK
<1>4. CASE Cancel(c) BY <1>4 DEF Cancel, CallInv, PromptTypeOK
<1>5. CASE Delivered(c) BY <1>5 DEF Delivered, CallInv, PromptTypeOK
<1>6. CASE SendFails(c) BY <1>6 DEF SendFails, CallInv, PromptTypeOK
<1>7. CASE EditEnds(c) BY <1>7 DEF EditEnds, CallInv, PromptTypeOK
<1> QED BY <1>1, <1>2, <1>3, <1>4, <1>5, <1>6, <1>7

\* The send has its answer.  An outcome that came first is still there, for
\* its tombstone outlives the send: finding none means there is none.
LEMMA AnswerOfSend ==
  ASSUME PromptTypeOK, NEW c \in PromptedCall, CallInv(c), SendReturns(c)
  PROVE  CallInv(c)'
<1>1. /\ task[c] = "sending" /\ standing'[c] = standing[c] /\ noted'[c] = noted[c]
      /\ screen'[c] = screen[c] /\ until'[c] = until[c]
  BY DEF SendReturns
<1>2. CASE Claimed(c)
  <2>1. sent' = Swept(Drop(sent, c)) /\ task'[c] = "late"
    BY <1>2 DEF SendReturns, PromptTypeOK
  <2>2. c \notin DOMAIN sent' BY <2>1, SweptIs, DropIs
  <2>3. standing[c] = "noted" BY <1>2 DEF Claimed, Tombstoned, CallInv
  <2> QED BY <1>1, <2>1, <2>2, <2>3 DEF CallInv
<1>3. CASE ~Claimed(c)
  <2>1. /\ sent' = Put(Swept(Drop(sent, c)), c, [kind |-> "live", expires |-> until[c]])
        /\ task'[c] = "none"
    BY <1>3 DEF SendReturns, PromptTypeOK
  <2>2. c \in DOMAIN sent' /\ sent'[c] = [kind |-> "live", expires |-> until[c]]
    BY <2>1, PutIs
  <2>3. standing[c] # "noted" BY <1>1, <1>3 DEF Claimed, Tombstoned, CallInv
  <2>4. standing[c] \notin {"new", "registered"} BY <1>1 DEF CallInv
  <2> QED BY <1>1, <2>1, <2>2, <2>3, <2>4 DEF CallInv
<1> QED BY <1>2, <1>3

\* The call has its outcome.  With the send still out, what is left behind
\* stands until after the send has ended.
LEMMA OutcomeIsNoted ==
  ASSUME PromptTypeOK, NEW c \in PromptedCall, CallInv(c), NoteOutcome(c)
  PROVE  CallInv(c)'
<1> USE TimesNat, TombstonesOutliveSends
<1>0. time \in Nat /\ until[c] \in Nat /\ sendBy[c] \in Nat BY DEF PromptTypeOK
<1>1. /\ standing[c] = "over" /\ standing'[c] = "noted" /\ screen'[c] = screen[c]
      /\ until'[c] = until[c] /\ sendBy'[c] = sendBy[c] /\ time' = time
      /\ noted'[c] = IF time < until[c] THEN "timely" ELSE "late"
  BY DEF NoteOutcome, PromptTypeOK
<1>2. CASE c \in DOMAIN sent
  <2>1. sent' = Drop(sent, c) /\ task'[c] = "editing" BY <1>2 DEF NoteOutcome, PromptTypeOK
  <2>2. c \notin DOMAIN sent' BY <2>1, DropIs
  <2> QED BY <1>1, <2>1, <2>2 DEF CallInv
<1>3. CASE c \notin DOMAIN sent
  <2>1. /\ sent' = Put(Swept(sent), c, [kind |-> "tombstone", expires |-> time + TombstoneTTL])
        /\ task' = task
    BY <1>3 DEF NoteOutcome, LeftBehind
  <2>2. c \in DOMAIN sent' /\ sent'[c] = [kind |-> "tombstone", expires |-> time + TombstoneTTL]
    BY <2>1, PutIs
  <2>3. task[c] \in {"none", "sending"} BY <1>1 DEF CallInv, PromptTypeOK
  <2>4. task[c] = "sending" => time <= sendBy[c] /\ time + TombstoneTTL > sendBy[c]
    BY <1>0 DEF CallInv
  <2>5. screen[c] = "buttons" /\ task[c] = "none" => until[c] <= time BY <1>3 DEF CallInv
  <2>6. noted'[c] # "no" /\ (until[c] <= time => noted'[c] # "timely") BY <1>0, <1>1
  <2> QED BY <1>1, <2>1, <2>2, <2>3, <2>4, <2>5, <2>6 DEF CallInv
<1> QED BY <1>2, <1>3

\* The clock: no send is out of time, so no bound that a send has is passed.
LEMMA ClockKeeps ==
  ASSUME PromptTypeOK, NEW d \in PromptedCall, CallInv(d), Pass
  PROVE  CallInv(d)'
<1>1. time \in Nat /\ until[d] \in Nat /\ sendBy[d] \in Nat /\ SendLimit \in Nat
  BY TimesNat DEF PromptTypeOK
<1> QED BY <1>1 DEF Pass, CallInv

\* The prompt's invariant holds at the start, and every step keeps it.
LEMMA PromptInvInit == PromptInit => PromptInv
<1> SUFFICES ASSUME PromptInit PROVE PromptInv OBVIOUS
<1>1. DOMAIN sent = {} BY DEF PromptInit
<1>2. PromptTypeOK BY <1>1 DEF PromptInit, PromptTypeOK
<1>3. \A d \in PromptedCall : CallInv(d) BY <1>1 DEF PromptInit, CallInv
<1>4. SettledStays BY DEF PromptInit, SettledStays
<1> QED BY <1>2, <1>3, <1>4, PromptInvByCall

LEMMA PromptInvStep == PromptInv /\ [PromptNext]_promptVars => PromptInv'
<1> SUFFICES ASSUME PromptInv, [PromptNext]_promptVars PROVE PromptInv' OBVIOUS
<1>0. PromptTypeOK /\ SettledStays /\ \A d \in PromptedCall : CallInv(d) BY PromptInvByCall
<1>1. PromptTypeOK' BY <1>0, PromptTyped
<1>2. \A d \in PromptedCall : CallInv(d)'
  <2> SUFFICES ASSUME NEW d \in PromptedCall PROVE CallInv(d)' OBVIOUS
  <2>0. CallInv(d) BY <1>0
  <2>1. CASE Pass BY <1>0, <2>0, <2>1, ClockKeeps
  <2>2. CASE DenyLive \/ Exit \/ UNCHANGED promptVars
    <3>1. Untouched(d) BY <2>2 DEF DenyLive, Exit, promptVars, Untouched
    <3> QED BY <1>0, <2>0, <3>1, UntouchedKeeps
  <2>3. ASSUME NEW c \in PromptedCall,
               Ask(c) \/ Fire(c) \/ Decided(c) \/ Cancel(c) \/ Delivered(c) \/ SendReturns(c)
               \/ SendFails(c) \/ NoteOutcome(c) \/ EditEnds(c)
        PROVE  CallInv(d)'
    <3>1. CASE d = c
      BY <1>0, <2>0, <2>3, <3>1, CallMoves, AnswerOfSend, OutcomeIsNoted
    <3>2. CASE d # c
      <4>1. Untouched(d) BY <1>0, <2>3, <3>2, OthersUntouched
      <4> QED BY <1>0, <2>0, <4>1, UntouchedKeeps
    <3> QED BY <3>1, <3>2
  <2> QED BY <2>1, <2>2, <2>3 DEF PromptNext
<1>3. SettledStays'
  <2>1. CASE Exit BY <2>1 DEF Exit, SettledStays, EditsSettled, InFlight
  <2>2. CASE UNCHANGED promptVars
    BY <1>0, <2>2 DEF promptVars, SettledStays, EditsSettled, InFlight
  <2>3. CASE stop' # "settled" BY <2>3 DEF SettledStays
  <2>4. ~Exit /\ PromptNext => stop' # "settled"
    BY DEF PromptNext, Pass, DenyLive, Ask, Fire, Decided, Cancel, Delivered, SendReturns,
           SendFails, NoteOutcome, EditEnds
  <2> QED BY <2>1, <2>2, <2>3, <2>4
<1>4. PromptTypeOK' /\ SettledStays' /\ \A d \in PromptedCall : CallInv(d)' BY <1>1, <1>2, <1>3
<1>5. PromptInv' <=> (PromptTypeOK /\ SettledStays /\ \A d \in PromptedCall : CallInv(d))'
  BY PromptInvByCall, PTL
<1> QED BY <1>4, <1>5

LEMMA PromptInvAlways == PromptSpec => []PromptInv
<1>1. PromptInit => PromptInv BY PromptInvInit
<1>2. PromptInv /\ [PromptNext]_promptVars => PromptInv' BY PromptInvStep
<1> QED BY <1>1, <1>2, PTL DEF PromptSpec

\* Buttons of a call that ended in time are buttons that somebody has in hand.
LEMMA TimelyShownByInv == PromptInv => TimelyOutcomeShown
<1> SUFFICES ASSUME PromptInv, NEW c \in PromptedCall, noted[c] = "timely", screen[c] = "buttons"
             PROVE  Kept(c)
  BY DEF TimelyOutcomeShown
<1>1. CallInv(c) /\ task[c] \in {"none", "sending", "late", "editing"}
  BY PromptInvByCall DEF PromptTypeOK
<1>2. standing[c] = "noted" BY <1>1 DEF CallInv
<1>3. task[c] # "none" BY <1>1, <1>2 DEF CallInv
<1> QED BY <1>1, <1>2, <1>3 DEF CallInv, Kept, Tombstoned

LEMMA SettledClosedByInv == PromptInv => SettledMeansClosed
<1> SUFFICES ASSUME PromptInv, stop = "settled", NEW c \in PromptedCall, screen[c] = "buttons"
             PROVE  until[c] <= time
  BY DEF SettledMeansClosed
<1>1. CallInv(c) /\ SettledStays BY PromptInvByCall
<1>2. EditsSettled BY <1>1 DEF SettledStays
<1>3. task[c] = "none" BY <1>2 DEF EditsSettled, InFlight
<1> QED BY <1>1, <1>2, <1>3 DEF CallInv, EditsSettled

\* The state of the prompts is always of its types.
THEOREM PromptTyping == PromptSpec => []PromptTypeOK
<1>1. PromptInv => PromptTypeOK BY DEF PromptInv
<1> QED BY <1>1, PromptInvAlways, PTL

\* The thread that sends a prompt and the call that ends before it is sent
\* settle between them who takes the buttons away (TelegramChannel::fire and
\* note_outcome): for any number of calls and any limits under which a
\* tombstone outlives a send.
THEOREM OutcomeOfPromptShown == PromptSpec => []TimelyOutcomeShown
BY PromptInvAlways, TimelyShownByInv, PTL

\* When drain_edits reports the edits settled, no prompt that can still be
\* answered has its buttons: the count it waits for misses no thread.
THEOREM DrainMissesNothing == PromptSpec => []SettledMeansClosed
BY PromptInvAlways, SettledClosedByInv, PTL
=============================================================================
