--------------------------- MODULE DaemonSlotProofs ---------------------------
(* Proofs about DaemonSlot, for any commands, daemons and kills.           *)
EXTENDS DaemonSlot, TLAPS

\* A daemon that has counted enough misses has left its polls for good, so
\* the counter stays where the type says it is.
PollsEnd ==
  \A d \in Daemon : daemon[d] \notin {"draining", "leaving", "dead"} => missed[d] < Misses

\* What a command does leaves every variable but those it names well typed.
LEMMA StartType ==
  ASSUME SlotTypeOK, NEW c \in Command, Start(c) \/ RunStart(c)
  PROVE  SlotTypeOK'
  <1> USE DEF SlotTypeOK, Goto, Turn, InStart
  <1>1. CASE Start(c) \/ NameFails(c) \/ ReadOwner(c) \/ Recheck(c) \/ Ready(c) \/ Died(c) \/ Slow(c)
    <2>1. /\ UNCHANGED <<lock, pid, json, target, daemon, missed, robbed>>
          /\ pc' \in {[pc EXCEPT ![c] = to] : to \in {"done", "lock", "failed", "reclaim", "drop",
                                                     "spawn", "up", "slow"}}
      BY <1>1 DEF Start, NameFails, ReadOwner, Recheck, Ready, Died, Slow
    <2> QED BY <2>1
  <1>2. CASE Create(c, "lock", "owner") \/ Create(c, "relock", "done")
    <2>1. lock' \in [by : Command, named : BOOLEAN] \union {Unlocked}
      <3>1. [by |-> c, named |-> FALSE] \in [by : Command, named : BOOLEAN]
        OBVIOUS
      <3>2. lock' \in {lock, [by |-> c, named |-> FALSE]}
        BY <1>2 DEF Create
      <3> QED BY <3>1, <3>2
    <2>2. pc' \in {[pc EXCEPT ![c] = to] : to \in {"naming", "owner", "done"}}
      BY <1>2 DEF Create
    <2> QED BY <1>2, <2>1, <2>2 DEF Create
  <1>3. CASE NameLock(c)
    BY <1>3 DEF NameLock, Unlocked
  <1>4. CASE Reclaim(c) \/ DropGuard(c)
    BY <1>4 DEF Reclaim, DropGuard, RemoveLock
  <1>5. CASE Spawn(c)
    BY <1>5 DEF Spawn
  <1>6. CASE Note(c)
    BY <1>6 DEF Note
  <1> QED BY <1>1, <1>2, <1>3, <1>4, <1>5, <1>6 DEF RunStart

LEMMA OtherType ==
  ASSUME SlotTypeOK, NEW c \in Command,
         Stop(c) \/ Discover(c) \/ RunOther(c) \/ KillCommand(c)
  PROVE  SlotTypeOK'
  <1> USE DEF SlotTypeOK, Goto, InStart
  <1>1. ASSUME NEW from, StopFrom(c, from)
        PROVE  SlotTypeOK'
    BY <1>1 DEF StopFrom, Running
  <1>2. CASE Stop(c) \/ Discover(c) \/ KillCommand(c)
    BY <1>1, <1>2 DEF Stop, Discover, KillCommand
  <1>3. CASE Signal(c)
    BY <1>3 DEF Signal
  <1>4. CASE GraceOver(c) \/ Clear(c) \/ DropJson(c)
    BY <1>4 DEF GraceOver, Clear, DropJson, RemoveLock
  <1>5. CASE Probe(c)
    BY <1>1, <1>5 DEF Probe
  <1> QED BY <1>2, <1>3, <1>4, <1>5 DEF RunOther

LEMMA DaemonType ==
  ASSUME SlotTypeOK, PollsEnd, NEW d \in Daemon, Run(d) \/ Poll(d) \/ KillDaemon(d)
  PROVE  SlotTypeOK' /\ PollsEnd'
  <1> USE DEF SlotTypeOK, Turn
  <1>1. CASE Poll(d)
    <2>1. /\ daemon[d] = "serving" /\ missed[d] \in 0..Misses /\ missed[d] < Misses
          /\ Misses \in Nat \ {0}
      BY <1>1, MissesPositive DEF Poll, PollsEnd
    <2>2. missed'[d] \in 0..Misses /\ \A e \in Daemon \ {d} : missed'[e] = missed[e]
      BY <1>1, <2>1 DEF Poll
    <2>3. daemon'[d] = IF missed'[d] >= Misses THEN "draining" ELSE "serving"
      BY <1>1, <2>1 DEF Poll, Enough
    <2>4. /\ \A e \in Daemon \ {d} : daemon'[e] = daemon[e]
          /\ daemon' = [daemon EXCEPT ![d] = daemon'[d]]
          /\ missed' = [missed EXCEPT ![d] = missed'[d]]
      BY <1>1 DEF Poll
    <2>5. daemon'[d] \in {"draining", "serving"}
      BY <2>3
    <2>6. missed' \in [Daemon -> 0..Misses]
      BY <2>2, <2>4
    <2>7. SlotTypeOK'
      BY <1>1, <2>4, <2>5, <2>6 DEF Poll
    <2>8. PollsEnd'
      BY <2>1, <2>2, <2>3, <2>4 DEF PollsEnd
    <2> QED BY <2>7, <2>8
  <1>2. CASE Run(d) \/ KillDaemon(d)
    <2>1. SlotTypeOK'
      BY <1>2 DEF Run, WritePid, Bind, BindFails, Serve, IdleOut, Terminated, RemovePid, Leave,
                  KillDaemon
    <2>2. PollsEnd'
      BY <1>2 DEF Run, WritePid, Bind, BindFails, Serve, IdleOut, Terminated, RemovePid, Leave,
                  KillDaemon, PollsEnd
    <2> QED BY <2>1, <2>2
  <1> QED BY <1>1, <1>2

LEMMA CommandPollsEnd ==
  ASSUME SlotTypeOK, PollsEnd, NEW c \in Command,
         Begin(c) \/ RunStart(c) \/ RunOther(c) \/ KillCommand(c)
  PROVE  PollsEnd'
  <1> USE DEF SlotTypeOK, PollsEnd
  <1>1. CASE Spawn(c)
    BY <1>1 DEF Spawn, Turn
  <1>2. CASE Signal(c)
    BY <1>2 DEF Signal
  <1>3. CASE ~Spawn(c) /\ ~Signal(c)
    <2>1. ASSUME NEW from, StopFrom(c, from)
          PROVE  UNCHANGED <<daemon, missed>>
      BY <2>1 DEF StopFrom
    <2>2. UNCHANGED <<daemon, missed>>
      BY <1>3, <2>1
      DEF Begin, Start, Stop, Discover, RunStart, Create, NameLock, NameFails, ReadOwner, Reclaim,
          Recheck, Note, Ready, Died, Slow, DropGuard, RunOther, GraceOver, Clear, Probe, DropJson, KillCommand
    <2> QED BY <2>2
  <1> QED BY <1>1, <1>2, <1>3

-----------------------------------------------------------------------------
(* The start lock *)

\* A start that is past the lock, and was not robbed of it, made the lock there is.
Owns == \A c \in Command : pc[c] \in InStart /\ c \notin robbed => lock.by = c

LockInv == NoLeakedLock /\ Owns

\* The steps that leave the lock and the places of everybody else alone, and
\* by which a command neither enters a start nor ends one in good order.
LEMMA AwayFromLock ==
  ASSUME SlotTypeOK, LockInv, NEW c \in Command,
         UNCHANGED <<lock, robbed>>, pc' = [pc EXCEPT ![c] = pc'[c]],
         \/ pc[c] \in InStart /\ pc'[c] \in InStart
         \/ pc[c] \notin InStart \union {"killed", "failed"} /\ pc'[c] \notin InStart
         \/ pc[c] # "killed" /\ pc'[c] = "killed"
         \/ pc[c] = "naming" /\ pc'[c] = "failed" /\ (lock.by = c => ~lock.named)
  PROVE  LockInv'
  <1> USE DEF SlotTypeOK, InStart
  <1>0. lock # Unlocked => lock.by \in Command
    BY DEF Unlocked
  <1>1. \A e \in Command \ {c} : pc'[e] = pc[e]
    OBVIOUS
  <1>2. NoLeakedLock'
    <2> SUFFICES ASSUME lock # Unlocked
                 PROVE  \/ pc'[lock.by] \in InStart \union {"killed"}
                        \/ pc'[lock.by] = "failed" /\ ~lock.named
      BY DEF NoLeakedLock
    <2>1. CASE lock.by # c
      BY <1>0, <1>1, <2>1 DEF LockInv, NoLeakedLock
    <2>2. CASE lock.by = c
      BY <1>0, <2>2 DEF LockInv, NoLeakedLock
    <2> QED BY <2>1, <2>2
  <1>3. Owns'
    BY <1>1 DEF LockInv, Owns
  <1> QED BY <1>2, <1>3 DEF LockInv

\* Whoever removes the lock, the start that owned it is on record as robbed.
LEMMA RobbedOfLock ==
  ASSUME SlotTypeOK, LockInv, NEW c \in Command,
         RemoveLock(c), pc' = [pc EXCEPT ![c] = pc'[c]], pc'[c] \notin InStart
  PROVE  LockInv'
  <1>1. NoLeakedLock'
    BY DEF RemoveLock, NoLeakedLock
  <1>2. Owns'
    <2> SUFFICES ASSUME NEW e \in Command, pc'[e] \in InStart, e \notin robbed'
                 PROVE  FALSE
      BY DEF Owns
    <2>1. e # c /\ pc'[e] = pc[e]
      BY DEF SlotTypeOK
    <2>2. e \notin robbed /\ lock.by # e
      BY <2>1 DEF RemoveLock
    <2> QED BY <2>1, <2>2 DEF LockInv, Owns
  <1> QED BY <1>1, <1>2 DEF LockInv

\* A lock is made where there was none, so nobody unrobbed is past it.
LEMMA CreateKeepsLock ==
  ASSUME SlotTypeOK, LockInv, NEW c \in Command,
         Create(c, "lock", "owner") \/ Create(c, "relock", "done")
  PROVE  LockInv'
  <1> USE DEF SlotTypeOK, Goto
  <1>1. CASE Creatable
    <2>1. /\ lock = Unlocked /\ lock' = [by |-> c, named |-> FALSE] /\ robbed' = robbed
          /\ pc' = [pc EXCEPT ![c] = "naming"]
      BY <1>1 DEF Create, Creatable
    <2>2. NoLeakedLock'
      BY <2>1 DEF NoLeakedLock, InStart
    <2>3. Owns'
      <3> SUFFICES ASSUME NEW e \in Command, pc'[e] \in InStart, e \notin robbed
                   PROVE  e = c
        BY <2>1 DEF Owns
      <3>1. CASE e # c
        BY <2>1, <3>1, AbsentIsNobody DEF LockInv, Owns, Unlocked
      <3> QED BY <3>1
    <2> QED BY <2>2, <2>3 DEF LockInv
  <1>2. CASE ~Creatable
    <2>1. /\ UNCHANGED <<lock, robbed>> /\ pc' = [pc EXCEPT ![c] = pc'[c]]
          /\ pc[c] \in {"lock", "relock"} /\ pc'[c] \in {"owner", "done"}
      BY <1>2 DEF Create
    <2> QED BY <2>1, AwayFromLock DEF InStart
  <1> QED BY <1>1, <1>2

\* A start that has yet to name its lock has not named it, whatever lock there is.
Unnamed == \A c \in Command : pc[c] = "naming" /\ lock.by = c => ~lock.named

LEMMA NameKeepsLock ==
  ASSUME SlotTypeOK, LockInv, Unnamed, NEW c \in Command, NameLock(c) \/ NameFails(c)
  PROVE  LockInv'
  <1> USE DEF SlotTypeOK, Goto
  <1>0. lock # Unlocked => lock.by \in Command
    BY DEF Unlocked
  <1>1. CASE NameLock(c)
    <2>0. /\ pc[c] = "naming" /\ pc' = [pc EXCEPT ![c] = "recheck"] /\ robbed' = robbed
          /\ (lock.by # c => lock' = lock)
          /\ (lock.by = c => lock' = [lock EXCEPT !.named = TRUE])
      BY <1>1 DEF NameLock
    <2>1. lock'.by = lock.by
      <3>1. [lock EXCEPT !.named = TRUE].by = lock.by
        BY DEF Unlocked
      <3> QED BY <2>0, <3>1
    <2>2. NoLeakedLock'
      <3>1. CASE lock.by = c
        BY <2>0, <2>1, <3>1 DEF NoLeakedLock, InStart
      <3>2. CASE lock.by # c
        BY <1>0, <2>0, <3>2 DEF LockInv, NoLeakedLock
      <3> QED BY <3>1, <3>2
    <2>3. Owns'
      BY <2>0, <2>1 DEF LockInv, Owns, InStart
    <2> QED BY <2>2, <2>3 DEF LockInv
  <1>2. CASE NameFails(c)
    <2>1. /\ UNCHANGED <<lock, robbed>> /\ pc' = [pc EXCEPT ![c] = pc'[c]]
          /\ pc[c] = "naming" /\ pc'[c] = "failed" /\ (lock.by = c => ~lock.named)
      BY <1>2 DEF NameFails, Unnamed
    <2> QED BY <2>1, AwayFromLock
  <1> QED BY <1>1, <1>2

LEMMA StartKeepsLock ==
  ASSUME SlotTypeOK, LockInv, Unnamed, NEW c \in Command, RunStart(c)
  PROVE  LockInv'
  <1> USE DEF SlotTypeOK, Goto, InStart
  <1>1. CASE Reclaim(c) \/ DropGuard(c)
    <2>1. RemoveLock(c) /\ pc' = [pc EXCEPT ![c] = pc'[c]] /\ pc'[c] \in {"relock", "done"}
      BY <1>1 DEF Reclaim, DropGuard
    <2> QED BY <2>1, RobbedOfLock
  <1>2. CASE ReadOwner(c)
    BY <1>2, AwayFromLock DEF ReadOwner
  <1>3. CASE Recheck(c) \/ Ready(c) \/ Died(c) \/ Slow(c)
    BY <1>3, AwayFromLock DEF Recheck, Ready, Died, Slow
  <1>4. CASE Spawn(c)
    BY <1>4, AwayFromLock DEF Spawn
  <1>5. CASE Note(c)
    BY <1>5, AwayFromLock DEF Note
  <1> QED BY <1>1, <1>2, <1>3, <1>4, <1>5, CreateKeepsLock, NameKeepsLock DEF RunStart

LEMMA OtherKeepsLock ==
  ASSUME SlotTypeOK, LockInv, NEW c \in Command, Begin(c) \/ RunOther(c) \/ KillCommand(c)
  PROVE  LockInv'
  <1> USE DEF SlotTypeOK, Goto, InStart
  <1>1. ASSUME NEW from \in {"idle", "probe"}, StopFrom(c, from)
        PROVE  LockInv'
    BY <1>1, AwayFromLock DEF StopFrom
  <1>2. CASE Clear(c)
    <2>1. CASE UNCHANGED <<lock, robbed>> /\ pc[c] \in {"clear1", "clear2"}
      BY <1>2, <2>1, AwayFromLock DEF Clear
    <2>2. CASE RemoveLock(c) /\ pc[c] = "clear3"
      BY <1>2, <2>2, RobbedOfLock DEF Clear
    <2> QED BY <1>2, <2>1, <2>2 DEF Clear
  <1>3. CASE Probe(c)
    BY <1>1, <1>3, AwayFromLock DEF Probe
  <1>4. CASE Begin(c)
    BY <1>1, <1>4, AwayFromLock DEF Begin, Start, Stop, Discover
  <1>5. CASE Signal(c) \/ GraceOver(c) \/ DropJson(c)
    BY <1>5, AwayFromLock DEF Signal, GraceOver, DropJson
  <1>6. CASE KillCommand(c)
    BY <1>6, AwayFromLock DEF KillCommand
  <1> QED BY <1>2, <1>3, <1>4, <1>5, <1>6 DEF RunOther

LEMMA UnnamedStep ==
  ASSUME SlotTypeOK, LockInv, Unnamed, NEW c \in Command,
         Begin(c) \/ RunStart(c) \/ RunOther(c) \/ KillCommand(c)
  PROVE  Unnamed'
  <1> USE DEF SlotTypeOK, Goto, Unnamed
  <1>1. CASE Create(c, "lock", "owner") \/ Create(c, "relock", "done")
    <2>1. CASE Creatable
      <3>1. lock' = [by |-> c, named |-> FALSE]
        BY <1>1, <2>1 DEF Create
      <3> QED BY <3>1
    <2>2. CASE ~Creatable
      <3>1. lock' = lock /\ pc' = [pc EXCEPT ![c] = pc'[c]] /\ pc'[c] # "naming"
        BY <1>1, <2>2 DEF Create
      <3> QED BY <3>1
    <2> QED BY <2>1, <2>2
  <1>2. CASE NameLock(c)
    BY <1>2 DEF NameLock, Unlocked
  <1>3. CASE lock' = Unlocked
    BY <1>3 DEF Unlocked
  <1>4. ASSUME NEW from, StopFrom(c, from)
        PROVE  lock' = lock /\ pc' = [pc EXCEPT ![c] = pc'[c]] /\ pc'[c] # "naming"
    BY <1>4 DEF StopFrom
  <1>5. CASE ~Create(c, "lock", "owner") /\ ~Create(c, "relock", "done") /\ ~NameLock(c) /\ lock' # Unlocked
    <2>1. lock' = lock /\ pc' = [pc EXCEPT ![c] = pc'[c]] /\ pc'[c] # "naming"
      <3>1. CASE Begin(c)
        BY <1>4, <3>1 DEF Begin, Start, Stop, Discover
      <3>2. CASE RunStart(c)
        BY <1>5, <3>2 DEF RunStart, NameFails, ReadOwner, Reclaim, Recheck, Spawn, Note, Ready, Died,
                          Slow, DropGuard, RemoveLock
      <3>3. CASE RunOther(c)
        BY <1>4, <1>5, <3>3 DEF RunOther, Signal, GraceOver, Clear, Probe, DropJson, RemoveLock
      <3>4. CASE KillCommand(c)
        BY <3>4 DEF KillCommand
      <3> QED BY <3>1, <3>2, <3>3, <3>4
    <2> QED BY <2>1
  <1> QED BY <1>1, <1>2, <1>3, <1>5

\* Whatever anybody does, the lock is accounted for.
LEMMA LockStep ==
  ASSUME SlotTypeOK, LockInv, Unnamed, [SlotNext]_slotVars
  PROVE  LockInv' /\ Unnamed'
  <1>1. ASSUME NEW c \in Command, Begin(c) \/ RunStart(c) \/ RunOther(c) \/ KillCommand(c)
        PROVE  LockInv' /\ Unnamed'
    BY <1>1, StartKeepsLock, OtherKeepsLock, UnnamedStep
  <1>2. CASE UNCHANGED <<lock, pc, robbed>>
    BY <1>2 DEF LockInv, NoLeakedLock, Owns, Unnamed
  <1>3. ASSUME NEW d \in Daemon, Run(d) \/ Poll(d) \/ KillDaemon(d)
        PROVE  UNCHANGED <<lock, pc, robbed>>
    BY <1>3 DEF Run, WritePid, Bind, BindFails, Serve, IdleOut, Terminated, RemovePid, Leave, Poll,
                KillDaemon
  <1> QED BY <1>1, <1>2, <1>3 DEF SlotNext, slotVars

-----------------------------------------------------------------------------
(* The theorems *)

IInv == SlotTypeOK /\ PollsEnd /\ LockInv /\ Unnamed

LEMMA InitIInv == SlotInit => IInv
  BY MissesPositive
  DEF SlotInit, IInv, SlotTypeOK, PollsEnd, LockInv, NoLeakedLock, Owns, Unnamed, InStart

LEMMA StepIInv == IInv /\ [SlotNext]_slotVars => IInv'
  <1> SUFFICES ASSUME IInv, [SlotNext]_slotVars PROVE IInv'
    OBVIOUS
  <1> USE DEF IInv
  <1>1. LockInv' /\ Unnamed'
    BY LockStep
  <1>2. SlotTypeOK' /\ PollsEnd'
    <2>1. CASE UNCHANGED slotVars
      BY <2>1 DEF slotVars, SlotTypeOK, PollsEnd
    <2>2. ASSUME NEW c \in Command, Begin(c) \/ RunStart(c) \/ RunOther(c) \/ KillCommand(c)
          PROVE  SlotTypeOK' /\ PollsEnd'
      BY <2>2, StartType, OtherType, CommandPollsEnd DEF Begin
    <2>3. ASSUME NEW d \in Daemon, Run(d) \/ Poll(d) \/ KillDaemon(d)
          PROVE  SlotTypeOK' /\ PollsEnd'
      BY <2>3, DaemonType
    <2> QED BY <2>1, <2>2, <2>3 DEF SlotNext
  <1> QED BY <1>1, <1>2

\* Every reachable state of the slot is well typed; in particular a daemon's
\* count of missed registrations stops at the number that makes it leave.
THEOREM SlotTypeCorrect == SlotSpec => []SlotTypeOK
  <1>1. IInv => SlotTypeOK
    BY DEF IInv
  <1> QED BY InitIInv, StepIInv, <1>1, PTL DEF SlotSpec

\* A lock left behind is that of a start that was killed or that could not
\* write its pid into it, whoever else creates, reclaims and clears locks.
THEOREM StartDropsItsLock == SlotSpec => []NoLeakedLock
  <1>1. IInv => NoLeakedLock
    BY DEF IInv, LockInv
  <1> QED BY InitIInv, StepIInv, <1>1, PTL DEF SlotSpec

\* Of two starts that are past the lock together, one was robbed of its lock.
THEOREM StartsAreExclusive == SlotSpec => []StartsExclude
  <1>1. IInv => StartsExclude
    BY DEF IInv, LockInv, Owns, StartsExclude
  <1> QED BY InitIInv, StepIInv, <1>1, PTL DEF SlotSpec
=============================================================================
