---------------------------- MODULE AuthLockProofs ----------------------------
(* Proofs about AuthLock, for any callers, processes, cap and bounds.       *)
EXTENDS AuthLock, FiniteSetTheorems, TLAPS

(***************************************************************************)
(* The inductive invariant, in three parts.  Custody follows the handle    *)
(* that holds the lock through the hands it passes; Count follows the      *)
(* counter; Names follows the sidecar.                                     *)
(***************************************************************************)

\* TypeOK, but for the sign of the counters, which only Count gives.
Shape ==
  /\ owner \in Helper \union {Unheld}
  /\ waiters \in [Process -> Int]
  /\ at \in [Caller -> {"idle", "fast", "queue", "over", "failed", "waiting", "expired", "busy",
                        "granted", "named", "unnamed", "dead"}]
  /\ try \in [Caller -> Nat]
  /\ helper \in [Helper -> {"none", "blocked", "granted", "counted", "sent", "gone"}]
  /\ sidecar \in Process \union {Nobody}

\* A caller that is at work is at an attempt the bounds allow.
AtAttempt == \A t \in Caller : at[t] \notin {"idle", "dead"} => try[t] \in 1..Tries[t]

\* A helper that was granted the lock has it until it lets go of its handle.
HelperHoldsIt ==
  \A h \in Helper : helper[h] \in {"granted", "counted", "sent"} => owner = h

\* No helper works on an attempt that has not come to needing one, or that
\* ended with the handle back in the caller's hands.
NoHelper ==
  /\ \A h \in Helper : h[2] > try[h[1]] => helper[h] \in {"none", "gone"}
  /\ \A t \in Caller : at[t] \in {"fast", "queue"} \/ InLock(t)
                         => helper[Mine(t)] \in {"none", "gone"}

Custody == AtAttempt /\ HelperHoldsIt /\ NoHelper /\ InLockHoldsIt

Count1(p) ==
  /\ IsFiniteSet(Queued(p)) /\ IsFiniteSet(Overcounted(p))
  /\ waiters[p] = Cardinality(Queued(p)) + Cardinality(Overcounted(p))

Counted == \A p \in Process : Count1(p)

\* A sidecar that has been removed is not written before the lock is free.
Unsigned == \A t \in Caller : at[t] = "unnamed" => sidecar = Nobody

-----------------------------------------------------------------------------
(* Handles *)

LEMMA HandleFacts ==
  \A h \in Helper : h[1] \in Caller /\ h[2] \in 1..Tries[h[1]] /\ h = <<h[1], h[2]>> /\ h # Unheld
  BY TriesType DEF Helper, Unheld

LEMMA MineFacts ==
  ASSUME NEW t \in Caller, try[t] \in 1..Tries[t]
  PROVE  Mine(t) \in Helper /\ Mine(t)[1] = t /\ Mine(t)[2] = try[t]
  BY DEF Helper, Mine

\* Different callers have different handles.
LEMMA MineApart ==
  \A t, u \in Caller : Mine(t) = Mine(u) => t = u
  BY DEF Mine

-----------------------------------------------------------------------------
(* Shape *)

LEMMA ShapeStep ==
  ASSUME Shape, AtAttempt, [LockNext]_lockVars
  PROVE  Shape'
  <1> USE DEF Shape
  <1>0. \A t \in Caller : ProcessOf[t] \in Process
    BY ProcessOfType
  <1>1. CASE UNCHANGED lockVars
    BY <1>1 DEF lockVars
  <1>2. ASSUME NEW t \in Caller, Enter(t) \/ SpawnFails(t)
        PROVE  Shape'
    BY <1>0, <1>2 DEF Enter, SpawnFails, Moves, Count
  <1>3. ASSUME NEW t \in Caller, Step(t)
        PROVE  Shape'
    <2>1. at[t] \notin {"idle", "dead"}
      BY <1>3 DEF Step, TryLock, Queue, QueueFull, Undo, UndoFailed, ReceiveHandle, TimeOut, DropReceiver,
                  Blame, Name, Unname, Unlock, Moves
    <2>2. Mine(t) \in Helper
      BY <2>1, MineFacts DEF AtAttempt
    <2>3. CASE TryLock(t) \/ Queue(t) \/ QueueFull(t)
      BY <1>0, <2>2, <2>3 DEF TryLock, Queue, QueueFull, Moves, Count
    <2>4. CASE Undo(t) \/ UndoFailed(t)
      BY <1>0, <2>4 DEF Undo, UndoFailed, Uncount, Moves, Count
    <2>5. CASE ReceiveHandle(t) \/ TimeOut(t) \/ DropReceiver(t) \/ Blame(t)
      BY <2>2, <2>5 DEF ReceiveHandle, TimeOut, DropReceiver, Closed, Blame, Moves
    <2>6. CASE Name(t) \/ Unname(t) \/ Unlock(t)
      BY <1>0, <2>6 DEF Name, Unname, Unnamed, Unlock, Closed, Moves
    <2> QED BY <1>3, <2>3, <2>4, <2>5, <2>6 DEF Step
  <1>4. ASSUME NEW h \in Helper, Help(h)
        PROVE  Shape'
    <2>1. ProcessOf[h[1]] \in Process
      BY <1>0, HandleFacts
    <2> QED BY <1>4, <2>1 DEF Help, Granted, HelperLeaves, HandOver, Closed, Count
  <1>5. ASSUME NEW p \in Process, Crash(p)
        PROVE  Shape'
    BY <1>5 DEF Crash
  <1> QED BY <1>1, <1>2, <1>3, <1>4, <1>5 DEF LockNext

-----------------------------------------------------------------------------
(* Custody *)

\* A step that leaves the lock and the helpers alone, and takes no caller to
\* a place where it would need either.
LEMMA CustodyIdle ==
  ASSUME Shape, Custody, NEW t \in Caller, UNCHANGED <<owner, try, helper>>,
         at' = [at EXCEPT ![t] = at'[t]],
         at'[t] \notin {"fast", "queue"},
         at'[t] \in {"granted", "named", "unnamed"} => InLock(t),
         at[t] \notin {"idle", "dead"}
  PROVE  Custody'
  <1> USE DEF Shape, Custody
  <1>1. AtAttempt'
    BY DEF AtAttempt
  <1>2. HelperHoldsIt'
    BY DEF HelperHoldsIt
  <1>3. NoHelper'
    BY DEF NoHelper, InLock, Mine
  <1>4. InLockHoldsIt'
    BY DEF InLockHoldsIt, InLock, Mine
  <1> QED BY <1>1, <1>2, <1>3, <1>4

LEMMA CustodyStart ==
  ASSUME Shape, Custody, NEW t \in Caller, Enter(t)
  PROVE  Custody'
  <1> USE DEF Shape, Custody, Enter, Moves
  <1>0. /\ Tries[t] \in Nat /\ try'[t] = try[t] + 1 /\ at'[t] \in {"fast", "queue"}
        /\ \A u \in Caller \ {t} : try'[u] = try[u] /\ at'[u] = at[u]
        /\ owner' = owner /\ helper' = helper
    BY TriesType
  <1>1. AtAttempt'
    BY <1>0 DEF AtAttempt
  <1>2. HelperHoldsIt'
    BY DEF HelperHoldsIt
  <1>3. NoHelper'
    <2>1. Mine(t)' \in Helper /\ Mine(t)'[1] = t /\ Mine(t)'[2] > try[t]
      BY <1>0 DEF Mine, Helper
    <2>2. helper[Mine(t)'] \in {"none", "gone"}
      BY <2>1 DEF NoHelper
    <2>3. ASSUME NEW h \in Helper, h[2] > try'[h[1]]
          PROVE  helper[h] \in {"none", "gone"}
      <3>1. h[1] \in Caller /\ h[2] \in Nat
        BY HandleFacts, TriesType
      <3>2. h[2] > try[h[1]]
        BY <1>0, <2>3, <3>1
      <3> QED BY <3>2 DEF NoHelper
    <2> QED BY <1>0, <2>2, <2>3 DEF NoHelper, InLock, Mine
  <1>4. InLockHoldsIt'
    BY <1>0 DEF InLockHoldsIt, InLock, Mine
  <1> QED BY <1>1, <1>2, <1>3, <1>4

\* Taking the lock on the fast path, or going to queue for it.
LEMMA CustodyTryLock ==
  ASSUME Shape, Custody, NEW t \in Caller, TryLock(t)
  PROVE  Custody'
  <1> USE DEF Shape, Custody, TryLock, Moves
  <1>0. /\ at[t] = "fast" /\ try' = try /\ helper' = helper
        /\ \A u \in Caller \ {t} : at'[u] = at[u]
        /\ at'[t] \in {"granted", "queue"}
    OBVIOUS
  <1>a. Mine(t) \in Helper /\ helper[Mine(t)] \in {"none", "gone"}
    BY <1>0, MineFacts DEF AtAttempt, NoHelper
  <1>1. AtAttempt'
    BY <1>0 DEF AtAttempt
  <1>2. HelperHoldsIt'
    <2> SUFFICES ASSUME NEW h \in Helper, helper[h] \in {"granted", "counted", "sent"}
                 PROVE  owner' = h
      BY <1>0 DEF HelperHoldsIt
    <2>1. owner = h /\ h # Unheld
      BY HandleFacts DEF HelperHoldsIt
    <2> QED BY <2>1
  <1>3. NoHelper'
    BY <1>0, <1>a DEF NoHelper, InLock, Mine
  <1>4. InLockHoldsIt'
    <2> SUFFICES ASSUME NEW u \in Caller, InLock(u)'
                 PROVE  owner' = Mine(u)'
      BY DEF InLockHoldsIt
    <2>1. CASE u = t
      BY <1>0, <2>1 DEF InLock, Mine
    <2>2. CASE u # t
      <3>1. InLock(u) /\ owner = Mine(u) /\ Mine(u)' = Mine(u)
        BY <1>0, <2>2 DEF InLock, InLockHoldsIt, Mine
      <3>2. owner # Unheld
        BY <3>1 DEF Mine, Unheld
      <3> QED BY <3>1, <3>2
    <2> QED BY <2>1, <2>2
  <1> QED BY <1>1, <1>2, <1>3, <1>4

LEMMA CustodyQueue ==
  ASSUME Shape, Custody, NEW t \in Caller, Queue(t)
  PROVE  Custody'
  <1> USE DEF Shape, Custody, Queue, Moves
  <1>0. /\ at[t] = "queue" /\ try' = try /\ owner' = owner
        /\ at' = [at EXCEPT ![t] = "waiting"]
        /\ helper' = [helper EXCEPT ![Mine(t)] = "blocked"]
    OBVIOUS
  <1>a. Mine(t) \in Helper /\ Mine(t)[1] = t /\ Mine(t)[2] = try[t] /\ try[t] \in Nat
    BY <1>0, MineFacts DEF AtAttempt
  <1>1. AtAttempt'
    BY <1>0 DEF AtAttempt
  <1>2. HelperHoldsIt'
    BY <1>0 DEF HelperHoldsIt
  <1>3. NoHelper'
    <2>1. ASSUME NEW h \in Helper, h[2] > try[h[1]]
          PROVE  helper'[h] \in {"none", "gone"}
      BY <1>0, <1>a, <2>1 DEF NoHelper
    <2>2. ASSUME NEW u \in Caller, u # t
          PROVE  helper'[Mine(u)] = helper[Mine(u)]
      BY <1>0, <2>2, MineApart
    <2> QED BY <1>0, <2>1, <2>2 DEF NoHelper, InLock, Mine
  <1>4. InLockHoldsIt'
    BY <1>0 DEF InLockHoldsIt, InLock, Mine
  <1> QED BY <1>1, <1>2, <1>3, <1>4

\* The handle comes back in the helper's message.
LEMMA CustodyReceive ==
  ASSUME Shape, Custody, NEW t \in Caller, ReceiveHandle(t)
  PROVE  Custody'
  <1> USE DEF Shape, Custody, ReceiveHandle, Moves
  <1>0. /\ at[t] = "waiting" /\ try' = try /\ owner' = owner
        /\ at' = [at EXCEPT ![t] = "granted"]
        /\ helper' = [helper EXCEPT ![Mine(t)] = "gone"]
    OBVIOUS
  <1>a. Mine(t) \in Helper /\ owner = Mine(t)
    BY <1>0, MineFacts DEF AtAttempt, HelperHoldsIt
  <1>1. AtAttempt'
    BY <1>0 DEF AtAttempt
  <1>2. HelperHoldsIt'
    BY <1>0 DEF HelperHoldsIt
  <1>3. NoHelper'
    <2>1. ASSUME NEW u \in Caller, u # t
          PROVE  helper'[Mine(u)] = helper[Mine(u)]
      BY <1>0, <2>1, MineApart
    <2> QED BY <1>0, <1>a, <2>1 DEF NoHelper, InLock, Mine
  <1>4. InLockHoldsIt'
    BY <1>0, <1>a DEF InLockHoldsIt, InLock, Mine
  <1> QED BY <1>1, <1>2, <1>3, <1>4

\* A handle is closed by the one who has it: nobody else loses the lock.
LEMMA CustodyClose ==
  ASSUME Shape, Custody, NEW h \in Helper, owner' = Closed(h), try' = try,
         \A g \in Helper \ {h} : helper'[g] = helper[g],
         helper'[h] \in {"none", "gone"},
         NEW t \in Caller, at' = [at EXCEPT ![t] = at'[t]],
         \/ at'[t] = at[t]
         \/ at[t] \notin {"idle", "dead"} /\ at'[t] \notin {"fast", "queue"},
         ~InLock(t)' \/ InLock(t),
         \A u \in Caller : InLock(u)' => Mine(u) # h
  PROVE  Custody'
  <1> USE DEF Shape, Custody
  <1>0. \A u \in Caller \ {t} : at'[u] = at[u]
    OBVIOUS
  <1>1. AtAttempt'
    BY <1>0 DEF AtAttempt
  <1>2. HelperHoldsIt'
    BY DEF HelperHoldsIt, Closed
  <1>3. NoHelper'
    <2>1. \A g \in Helper : g[2] > try[g[1]] => helper'[g] \in {"none", "gone"}
      BY DEF NoHelper
    <2>2. ASSUME NEW u \in Caller, (at[u] \in {"fast", "queue"} \/ InLock(u))'
          PROVE  helper'[Mine(u)] \in {"none", "gone"}
      <3>1. at[u] \in {"fast", "queue"} \/ InLock(u)
        BY <1>0, <2>2 DEF InLock
      <3>2. Mine(u) \in Helper /\ helper[Mine(u)] \in {"none", "gone"}
        BY <3>1, MineFacts DEF AtAttempt, NoHelper, InLock
      <3> QED BY <3>2
    <2> QED BY <2>1, <2>2 DEF NoHelper, Mine
  <1>4. InLockHoldsIt'
    BY <1>0 DEF InLockHoldsIt, InLock, Mine, Closed
  <1> QED BY <1>1, <1>2, <1>3, <1>4

LEMMA CustodyHelp ==
  ASSUME Shape, Custody, NEW h \in Helper, Help(h)
  PROVE  Custody'
  <1> USE DEF Shape, Custody
  <1>0. try' = try /\ at' = at /\ \A u \in Caller : InLock(u)' <=> InLock(u)
    BY DEF Help, Granted, HelperLeaves, HandOver, InLock
  <1>a. h # Unheld /\ h[1] \in Caller
    BY HandleFacts
  <1>b. ASSUME NEW u \in Caller, InLock(u)
        PROVE  owner # Unheld /\ Mine(u) \in Helper /\ helper[Mine(u)] \in {"none", "gone"}
    <2>1. Mine(u) \in Helper
      BY <1>b, MineFacts DEF InLock, AtAttempt
    <2>2. owner = Mine(u) /\ helper[Mine(u)] \in {"none", "gone"}
      BY <1>b DEF InLockHoldsIt, NoHelper
    <2> QED BY <2>1, <2>2, HandleFacts
  <1>c. \A u \in Caller : at[u] \in {"fast", "queue"}
                            => Mine(u) \in Helper /\ helper[Mine(u)] \in {"none", "gone"}
    BY MineFacts DEF AtAttempt, NoHelper
  <1>d. AtAttempt'
    BY <1>0 DEF AtAttempt
  <1>1. CASE Granted(h)
    <2>0. \A g \in Helper \ {h} : helper'[g] = helper[g]
      BY <1>1 DEF Granted
    <2>1. \A u \in Caller : ~InLock(u)
      BY <1>1, <1>b DEF Granted
    <2>2. HelperHoldsIt'
      BY <1>1, HandleFacts DEF Granted, HelperHoldsIt
    <2>3. NoHelper'
      BY <1>0, <1>1, <1>b, <1>c, <2>0 DEF NoHelper, Granted, Mine
    <2>4. InLockHoldsIt'
      BY <1>0, <2>1 DEF InLockHoldsIt
    <2> QED BY <1>d, <2>2, <2>3, <2>4
  <1>2. CASE owner' = owner /\ helper[h] \in {"granted", "counted"}
             /\ helper' = [helper EXCEPT ![h] = helper'[h]]
    <2>1. HelperHoldsIt'
      BY <1>2 DEF HelperHoldsIt
    <2>2. NoHelper'
      BY <1>0, <1>2, <1>b, <1>c DEF NoHelper, Mine
    <2>3. InLockHoldsIt'
      BY <1>0, <1>2 DEF InLockHoldsIt, Mine
    <2> QED BY <1>d, <2>1, <2>2, <2>3
  <1>3. CASE HandOver(h) /\ ~Listens(h)
    <2>1. helper[h] = "counted" /\ owner' = Closed(h)
      BY <1>3 DEF HandOver
    <2>2. helper' = [helper EXCEPT ![h] = "gone"]
      BY <1>3 DEF HandOver
    <2> QED BY <1>0, <1>a, <1>b, <2>1, <2>2, CustodyClose
  <1> QED BY <1>1, <1>2, <1>3 DEF Help, HelperLeaves, HandOver

LEMMA CustodyCrash ==
  ASSUME Shape, Custody, NEW p \in Process, Crash(p)
  PROVE  Custody'
  <1> DEFINE threads == {t \in Caller : ProcessOf[t] = p}
  <1> USE DEF Shape, Custody
  <1>0. /\ at' = [t \in Caller |-> IF t \in threads THEN "dead" ELSE at[t]]
        /\ helper' = [h \in Helper |-> IF h[1] \in threads THEN "gone" ELSE helper[h]]
        /\ owner' = IF owner # Unheld /\ owner[1] \in threads THEN Unheld ELSE owner
        /\ try' = try
    BY DEF Crash
  <1>1. AtAttempt'
    BY <1>0 DEF AtAttempt
  <1>2. HelperHoldsIt'
    BY <1>0 DEF HelperHoldsIt
  <1>3. NoHelper'
    <2>1. \A h \in Helper : h[2] > try[h[1]] => helper'[h] \in {"none", "gone"}
      BY <1>0 DEF NoHelper
    <2>2. ASSUME NEW u \in Caller, (at[u] \in {"fast", "queue"} \/ InLock(u))'
          PROVE  helper'[Mine(u)] \in {"none", "gone"}
      <3>1. at[u] \in {"fast", "queue"} \/ InLock(u)
        BY <1>0, <2>2 DEF InLock
      <3>2. Mine(u) \in Helper /\ helper[Mine(u)] \in {"none", "gone"}
        BY <3>1, MineFacts DEF AtAttempt, NoHelper, InLock
      <3> QED BY <1>0, <3>2
    <2> QED BY <1>0, <2>1, <2>2 DEF NoHelper, Mine
  <1>4. InLockHoldsIt'
    <2> SUFFICES ASSUME NEW u \in Caller, InLock(u)'
                 PROVE  owner' = Mine(u)'
      BY DEF InLockHoldsIt
    <2>1. InLock(u) /\ u \notin threads
      BY <1>0 DEF InLock
    <2>2. owner = Mine(u) /\ owner[1] = u
      BY <2>1 DEF InLockHoldsIt, Mine
    <2> QED BY <1>0, <2>1, <2>2 DEF Mine
  <1> QED BY <1>1, <1>2, <1>3, <1>4

LEMMA CustodyStep ==
  ASSUME Shape, Custody, [LockNext]_lockVars
  PROVE  Custody'
  <1> USE DEF Shape
  <1>1. CASE UNCHANGED lockVars
    <2>1. \A u \in Caller : (InLock(u)' <=> InLock(u)) /\ Mine(u)' = Mine(u)
      BY <1>1 DEF lockVars, InLock, Mine
    <2> QED BY <1>1, <2>1 DEF lockVars, Custody, AtAttempt, HelperHoldsIt, NoHelper, InLockHoldsIt
  <1>2. ASSUME NEW t \in Caller, Step(t) \/ SpawnFails(t)
        PROVE  Custody'
    <2>1. CASE TryLock(t) \/ Queue(t) \/ ReceiveHandle(t)
      BY <2>1, CustodyTryLock, CustodyQueue, CustodyReceive
    <2>2. CASE SpawnFails(t) \/ QueueFull(t) \/ Undo(t) \/ UndoFailed(t) \/ TimeOut(t) \/ Blame(t)
      BY <2>2, CustodyIdle
      DEF SpawnFails, QueueFull, Undo, UndoFailed, TimeOut, Blame, Moves
    <2>3. CASE Name(t) \/ Unname(t)
      BY <2>3, CustodyIdle DEF Name, Unname, Moves, InLock
    <2>4. CASE Unlock(t)
      <3>1. /\ at[t] = "unnamed" /\ at' = [at EXCEPT ![t] = "idle"]
            /\ owner' = Closed(Mine(t)) /\ try' = try /\ helper' = helper
        BY <2>4 DEF Unlock, Moves
      <3>2. Mine(t) \in Helper /\ helper[Mine(t)] \in {"none", "gone"}
        BY <3>1, MineFacts DEF Custody, AtAttempt, NoHelper, InLock
      <3>3. \A u \in Caller : InLock(u)' => Mine(u) # Mine(t)
        BY <3>1, MineApart DEF InLock
      <3> QED BY <3>1, <3>2, <3>3, CustodyClose DEF InLock
    <2>5. CASE DropReceiver(t)
      <3>1. /\ at[t] = "expired" /\ at' = [at EXCEPT ![t] = "busy"] /\ try' = try
        BY <2>5 DEF DropReceiver, Moves
      <3>2. Mine(t) \in Helper
        BY <3>1, MineFacts DEF Custody, AtAttempt
      <3>3. \A u \in Caller : InLock(u)' => Mine(u) # Mine(t)
        BY <3>1, MineApart DEF InLock
      <3>4. CASE helper[Mine(t)] = "sent"
        BY <2>5, <3>1, <3>2, <3>3, <3>4, CustodyClose DEF DropReceiver, InLock
      <3>5. CASE helper[Mine(t)] # "sent"
        BY <2>5, <3>1, <3>5, CustodyIdle DEF DropReceiver
      <3> QED BY <3>4, <3>5
    <2> QED BY <1>2, <2>1, <2>2, <2>3, <2>4, <2>5 DEF Step
  <1>3. ASSUME NEW t \in Caller, Enter(t)
        PROVE  Custody'
    BY <1>3, CustodyStart
  <1>4. ASSUME NEW h \in Helper, Help(h)
        PROVE  Custody'
    BY <1>4, CustodyHelp
  <1>5. ASSUME NEW p \in Process, Crash(p)
        PROVE  Custody'
    BY <1>5, CustodyCrash
  <1> QED BY <1>1, <1>2, <1>3, <1>4, <1>5 DEF LockNext

-----------------------------------------------------------------------------
(* Count *)

\* What the counter's arithmetic rests on: the two sets it counts change by
\* one element at a time, together with it.
LEMMA CountSame ==
  ASSUME NEW p \in Process, Count1(p), waiters'[p] = waiters[p],
         Queued(p)' = Queued(p), Overcounted(p)' = Overcounted(p)
  PROVE  Count1(p)'
  BY DEF Count1

LEMMA CountUp ==
  ASSUME NEW p \in Process, Count1(p), waiters'[p] = waiters[p] + 1, NEW x,
         \/ x \notin Queued(p) /\ Queued(p)' = Queued(p) \union {x}
            /\ Overcounted(p)' = Overcounted(p)
         \/ x \notin Overcounted(p) /\ Overcounted(p)' = Overcounted(p) \union {x}
            /\ Queued(p)' = Queued(p)
  PROVE  Count1(p)'
  <1>1. /\ IsFiniteSet(Queued(p)) /\ Cardinality(Queued(p)) \in Nat
        /\ IsFiniteSet(Overcounted(p)) /\ Cardinality(Overcounted(p)) \in Nat
    BY FS_CardinalityType DEF Count1
  <1>2. CASE x \notin Queued(p) /\ Queued(p)' = Queued(p) \union {x}
             /\ Overcounted(p)' = Overcounted(p)
    <2>1. IsFiniteSet(Queued(p)') /\ Cardinality(Queued(p)') = Cardinality(Queued(p)) + 1
      BY <1>1, <1>2, FS_AddElement
    <2> QED BY <1>1, <1>2, <2>1 DEF Count1
  <1>3. CASE x \notin Overcounted(p) /\ Overcounted(p)' = Overcounted(p) \union {x}
             /\ Queued(p)' = Queued(p)
    <2>1. /\ IsFiniteSet(Overcounted(p)')
          /\ Cardinality(Overcounted(p)') = Cardinality(Overcounted(p)) + 1
      BY <1>1, <1>3, FS_AddElement
    <2> QED BY <1>1, <1>3, <2>1 DEF Count1
  <1> QED BY <1>2, <1>3

LEMMA CountDown ==
  ASSUME NEW p \in Process, Count1(p), waiters'[p] = waiters[p] - 1, NEW x,
         \/ x \in Queued(p) /\ Queued(p)' = Queued(p) \ {x}
            /\ Overcounted(p)' = Overcounted(p)
         \/ x \in Overcounted(p) /\ Overcounted(p)' = Overcounted(p) \ {x}
            /\ Queued(p)' = Queued(p)
  PROVE  Count1(p)'
  <1>1. /\ IsFiniteSet(Queued(p)) /\ Cardinality(Queued(p)) \in Nat
        /\ IsFiniteSet(Overcounted(p)) /\ Cardinality(Overcounted(p)) \in Nat
    BY FS_CardinalityType DEF Count1
  <1>2. CASE x \in Queued(p) /\ Queued(p)' = Queued(p) \ {x}
             /\ Overcounted(p)' = Overcounted(p)
    <2>1. IsFiniteSet(Queued(p)') /\ Cardinality(Queued(p)') = Cardinality(Queued(p)) - 1
      BY <1>1, <1>2, FS_RemoveElement
    <2> QED BY <1>1, <1>2, <2>1 DEF Count1
  <1>3. CASE x \in Overcounted(p) /\ Overcounted(p)' = Overcounted(p) \ {x}
             /\ Queued(p)' = Queued(p)
    <2>1. /\ IsFiniteSet(Overcounted(p)')
          /\ Cardinality(Overcounted(p)') = Cardinality(Overcounted(p)) - 1
      BY <1>1, <1>3, FS_RemoveElement
    <2> QED BY <1>1, <1>3, <2>1 DEF Count1
  <1> QED BY <1>2, <1>3

\* A caller enters, or leaves, the few instructions in which it stands in the
\* counter without having a helper.
LEMMA CountCaller ==
  ASSUME Shape, Counted, NEW t \in Caller, NEW n \in {1, -1}, Count(ProcessOf[t], n),
         UNCHANGED <<helper, try>>, at' = [at EXCEPT ![t] = at'[t]],
         (at[t] \in {"over", "failed"}) <=> n = -1,
         (at'[t] \in {"over", "failed"}) <=> n = 1
  PROVE  Counted'
  <1> USE DEF Shape, Count
  <1>1. \A u \in Caller \ {t} : at'[u] = at[u]
    OBVIOUS
  <1>2. \A p \in Process : Queued(p)' = Queued(p)
    BY DEF Queued
  <1>3. ASSUME NEW p \in Process
        PROVE  Count1(p)'
    <2>1. Count1(p)
      BY DEF Counted
    <2>2. CASE p # ProcessOf[t]
      <3>1. Overcounted(p)' = Overcounted(p)
        BY <1>1, <2>2 DEF Overcounted
      <3> QED BY <1>2, <2>1, <2>2, <3>1, CountSame
    <2>3. CASE p = ProcessOf[t] /\ n = 1
      <3>1. t \notin Overcounted(p) /\ Overcounted(p)' = Overcounted(p) \union {t}
        BY <1>1, <2>3 DEF Overcounted
      <3> QED BY <1>2, <2>1, <2>3, <3>1, CountUp
    <2>4. CASE p = ProcessOf[t] /\ n = -1
      <3>1. t \in Overcounted(p) /\ Overcounted(p)' = Overcounted(p) \ {t}
        BY <1>1, <2>4 DEF Overcounted
      <3>2. waiters'[p] = waiters[p] - 1
        BY <2>4
      <3> QED BY <1>2, <2>1, <3>1, <3>2, CountDown
    <2> QED BY <2>2, <2>3, <2>4
  <1> QED BY <1>3 DEF Counted

\* A helper enters the queue, or is counted out of it.
LEMMA CountHelper ==
  ASSUME Shape, Counted, NEW h \in Helper, NEW n \in {1, -1}, Count(ProcessOf[h[1]], n),
         helper' = [helper EXCEPT ![h] = helper'[h]],
         \A u \in Caller : at'[u] \in {"over", "failed"} <=> at[u] \in {"over", "failed"},
         (helper[h] \in {"blocked", "granted"}) <=> n = -1,
         (helper'[h] \in {"blocked", "granted"}) <=> n = 1
  PROVE  Counted'
  <1> USE DEF Shape, Count
  <1>1. \A g \in Helper \ {h} : helper'[g] = helper[g]
    OBVIOUS
  <1>2. \A p \in Process : Overcounted(p)' = Overcounted(p)
    BY DEF Overcounted
  <1>3. ASSUME NEW p \in Process
        PROVE  Count1(p)'
    <2>1. Count1(p)
      BY DEF Counted
    <2>2. CASE p # ProcessOf[h[1]]
      <3>1. Queued(p)' = Queued(p)
        BY <1>1, <2>2 DEF Queued
      <3> QED BY <1>2, <2>1, <2>2, <3>1, CountSame
    <2>3. CASE p = ProcessOf[h[1]] /\ n = 1
      <3>1. h \notin Queued(p) /\ Queued(p)' = Queued(p) \union {h}
        BY <1>1, <2>3 DEF Queued
      <3> QED BY <1>2, <2>1, <2>3, <3>1, CountUp
    <2>4. CASE p = ProcessOf[h[1]] /\ n = -1
      <3>1. h \in Queued(p) /\ Queued(p)' = Queued(p) \ {h}
        BY <1>1, <2>4 DEF Queued
      <3>2. waiters'[p] = waiters[p] - 1
        BY <2>4
      <3> QED BY <1>2, <2>1, <3>1, <3>2, CountDown
    <2> QED BY <2>2, <2>3, <2>4
  <1> QED BY <1>3 DEF Counted

\* A step that takes nobody in or out of the counter.
LEMMA CountNeither ==
  ASSUME Shape, Counted, UNCHANGED waiters,
         \A u \in Caller : at'[u] \in {"over", "failed"} <=> at[u] \in {"over", "failed"},
         \A g \in Helper : helper'[g] \in {"blocked", "granted"}
                             <=> helper[g] \in {"blocked", "granted"}
  PROVE  Counted'
  <1>1. \A p \in Process : Queued(p)' = Queued(p) /\ Overcounted(p)' = Overcounted(p)
    BY DEF Queued, Overcounted
  <1> QED BY <1>1, CountSame DEF Counted

LEMMA CountCrash ==
  ASSUME Shape, Counted, NEW p \in Process, Crash(p)
  PROVE  Counted'
  <1> DEFINE threads == {t \in Caller : ProcessOf[t] = p}
  <1> USE DEF Shape
  <1>0. /\ at' = [t \in Caller |-> IF t \in threads THEN "dead" ELSE at[t]]
        /\ helper' = [h \in Helper |-> IF h[1] \in threads THEN "gone" ELSE helper[h]]
        /\ waiters' = [waiters EXCEPT ![p] = 0]
    BY DEF Crash
  <1>1. Queued(p)' = {} /\ Overcounted(p)' = {} /\ waiters'[p] = 0
    BY <1>0, HandleFacts DEF Queued, Overcounted
  <1>2. Count1(p)'
    BY <1>1, FS_EmptySet DEF Count1
  <1>3. ASSUME NEW q \in Process, q # p
        PROVE  Count1(q)'
    <2>1. Queued(q)' = Queued(q) /\ Overcounted(q)' = Overcounted(q) /\ waiters'[q] = waiters[q]
      BY <1>0, <1>3, HandleFacts DEF Queued, Overcounted
    <2> QED BY <1>3, <2>1, CountSame DEF Counted
  <1> QED BY <1>2, <1>3 DEF Counted

LEMMA CountedStep ==
  ASSUME Shape, Custody, Counted, [LockNext]_lockVars
  PROVE  Counted'
  <1> USE DEF Shape
  <1>1. CASE UNCHANGED lockVars
    BY <1>1, CountNeither DEF lockVars
  <1>2. ASSUME NEW t \in Caller, Enter(t) \/ SpawnFails(t)
        PROVE  Counted'
    <2>1. CASE Enter(t)
      BY <2>1, CountNeither DEF Enter, Moves
    <2>2. CASE SpawnFails(t)
      <3>1. /\ Count(ProcessOf[t], 1) /\ UNCHANGED <<helper, try>>
            /\ at' = [at EXCEPT ![t] = at'[t]] /\ at[t] = "queue" /\ at'[t] = "failed"
        BY <2>2 DEF SpawnFails, Moves
      <3> QED BY ONLY Shape, Counted, t \in Caller, <3>1, CountCaller
    <2> QED BY <1>2, <2>1, <2>2
  <1>3. ASSUME NEW t \in Caller, Step(t)
        PROVE  Counted'
    <2>0. at[t] \notin {"idle", "dead"}
      BY <1>3 DEF Step, TryLock, Queue, QueueFull, Undo, UndoFailed, ReceiveHandle, TimeOut, DropReceiver,
                  Blame, Name, Unname, Unlock, Moves
    <2>a. Mine(t) \in Helper /\ Mine(t)[1] = t
      BY <2>0, MineFacts DEF Custody, AtAttempt
    <2>1. CASE Queue(t)
      <3>1. helper[Mine(t)] \in {"none", "gone"}
        BY <2>1 DEF Queue, Moves, Custody, NoHelper
      <3>2. /\ Count(ProcessOf[Mine(t)[1]], 1)
            /\ helper' = [helper EXCEPT ![Mine(t)] = helper'[Mine(t)]]
            /\ helper'[Mine(t)] = "blocked"
            /\ \A u \in Caller : at'[u] \in {"over", "failed"} <=> at[u] \in {"over", "failed"}
        BY <2>1, <2>a DEF Queue, Moves
      <3> QED BY ONLY Shape, Counted, <2>a, <3>1, <3>2, CountHelper
    <2>2. CASE QueueFull(t)
      <3>1. /\ Count(ProcessOf[t], 1) /\ UNCHANGED <<helper, try>>
            /\ at' = [at EXCEPT ![t] = at'[t]] /\ at[t] = "queue" /\ at'[t] = "over"
        BY <2>2 DEF QueueFull, Moves
      <3> QED BY ONLY Shape, Counted, t \in Caller, <3>1, CountCaller
    <2>3. CASE Undo(t) \/ UndoFailed(t)
      <3>1. /\ Count(ProcessOf[t], -1) /\ UNCHANGED <<helper, try>>
            /\ at' = [at EXCEPT ![t] = at'[t]]
            /\ at[t] \in {"over", "failed"} /\ at'[t] \in {"busy", "idle"}
        BY <2>3 DEF Undo, UndoFailed, Uncount, Moves
      <3> QED BY ONLY Shape, Counted, t \in Caller, <3>1, CountCaller
    <2>4. CASE TryLock(t) \/ TimeOut(t) \/ Blame(t) \/ Name(t) \/ Unname(t) \/ Unlock(t)
      BY <2>4, CountNeither DEF TryLock, TimeOut, Blame, Name, Unname, Unlock, Moves
    <2>5. CASE ReceiveHandle(t) \/ DropReceiver(t)
      BY <2>5, <2>a, CountNeither DEF ReceiveHandle, DropReceiver, Moves
    <2> QED BY <1>3, <2>1, <2>2, <2>3, <2>4, <2>5 DEF Step
  <1>4. ASSUME NEW h \in Helper, Help(h)
        PROVE  Counted'
    <2>1. CASE Granted(h) \/ HandOver(h)
      BY <2>1, CountNeither DEF Granted, HandOver
    <2>2. CASE HelperLeaves(h)
      <3>1. /\ Count(ProcessOf[h[1]], -1)
            /\ helper' = [helper EXCEPT ![h] = helper'[h]]
            /\ helper[h] = "granted" /\ helper'[h] = "counted" /\ at' = at
        BY <2>2 DEF HelperLeaves
      <3> QED BY ONLY Shape, Counted, h \in Helper, <3>1, CountHelper
    <2> QED BY <1>4, <2>1, <2>2 DEF Help
  <1>5. ASSUME NEW p \in Process, Crash(p)
        PROVE  Counted'
    BY <1>5, CountCrash
  <1> QED BY <1>1, <1>2, <1>3, <1>4, <1>5 DEF LockNext

-----------------------------------------------------------------------------
(* The cap, and the sidecar *)

\* A process's blocked helpers are among those its counter counts, so the
\* guard on the counter bounds them.
LEMMA BoundedStep ==
  ASSUME Shape, Custody, Counted, HelpersBounded, [LockNext]_lockVars, Counted'
  PROVE  HelpersBounded'
  <1> DEFINE Stuck(p) == {h \in Helper : ProcessOf[h[1]] = p /\ helper[h] = "blocked"}
  <1> USE DEF Shape
  <1> SUFFICES ASSUME NEW p \in Process
               PROVE  Cardinality(Stuck(p)') <= MaxWaiters
    BY DEF HelpersBounded
  <1>0. /\ IsFiniteSet(Queued(p)) /\ Stuck(p) \subseteq Queued(p)
        /\ IsFiniteSet(Queued(p)') /\ Stuck(p)' \subseteq Queued(p)'
    BY DEF Counted, Count1, Queued
  <1>1. Cardinality(Stuck(p)) <= MaxWaiters
    BY DEF HelpersBounded
  <1>2. CASE Stuck(p)' \subseteq Stuck(p)
    <2>1. IsFiniteSet(Stuck(p)) /\ Cardinality(Stuck(p)) \in Nat
      BY <1>0, FS_Subset, FS_CardinalityType
    <2>2. IsFiniteSet(Stuck(p)') /\ Cardinality(Stuck(p)') <= Cardinality(Stuck(p))
          /\ Cardinality(Stuck(p)') \in Nat
      BY <1>2, <2>1, FS_Subset, FS_CardinalityType
    <2> QED BY <1>1, <2>1, <2>2, MaxWaitersPositive
  <1>3. ASSUME NEW t \in Caller, Queue(t), ProcessOf[t] = p
        PROVE  Cardinality(Stuck(p)') <= MaxWaiters
    <2>1. waiters[p] < MaxWaiters /\ waiters'[p] = waiters[p] + 1
      BY <1>3 DEF Queue, Room, Count
    <2>2. /\ Cardinality(Queued(p)') \in Nat /\ IsFiniteSet(Overcounted(p)')
          /\ Cardinality(Overcounted(p)') \in Nat
          /\ waiters'[p] = Cardinality(Queued(p)') + Cardinality(Overcounted(p)')
      BY FS_CardinalityType DEF Counted, Count1
    <2>3. Cardinality(Stuck(p)') <= Cardinality(Queued(p)') /\ Cardinality(Stuck(p)') \in Nat
      BY <1>0, FS_Subset, FS_CardinalityType
    <2>4. waiters[p] \in Int /\ MaxWaiters \in Nat
      BY MaxWaitersPositive
    <2> HIDE DEF Stuck
    <2> QED BY <2>1, <2>2, <2>3, <2>4
  <1>4. CASE ~\E t \in Caller : Queue(t) /\ ProcessOf[t] = p
    <2>1. ASSUME NEW h \in Helper, helper'[h] = "blocked", helper[h] # "blocked"
          PROVE  \E t \in Caller : Queue(t) /\ ProcessOf[t] = ProcessOf[h[1]]
      <3>1. PICK t \in Caller : Queue(t)
        <4>1. ASSUME NEW t \in Caller, Enter(t) \/ SpawnFails(t)
              PROVE  FALSE
          BY <2>1, <4>1 DEF Enter, SpawnFails
        <4>2. ASSUME NEW t \in Caller, Step(t), ~Queue(t)
              PROVE  FALSE
          BY <2>1, <4>2 DEF Step, TryLock, QueueFull, Undo, UndoFailed, ReceiveHandle, TimeOut,
                            DropReceiver, Blame, Name, Unname, Unlock
        <4>3. ASSUME NEW g \in Helper, Help(g)
              PROVE  FALSE
          BY <2>1, <4>3 DEF Help, Granted, HelperLeaves, HandOver
        <4>4. ASSUME NEW q \in Process, Crash(q)
              PROVE  FALSE
          BY <2>1, <4>4 DEF Crash
        <4>5. ~UNCHANGED lockVars
          BY <2>1 DEF lockVars
        <4> QED BY <4>1, <4>2, <4>3, <4>4, <4>5 DEF LockNext
      <3>2. h = Mine(t) /\ Mine(t)[1] = t
        BY <2>1, <3>1 DEF Queue, Mine
      <3> QED BY <3>1, <3>2
    <2>2. Stuck(p)' \subseteq Stuck(p)
      BY <1>4, <2>1
    <2> QED BY <1>2, <2>2
  <1> QED BY <1>3, <1>4

LEMMA SignedStep ==
  ASSUME Shape, Custody, Custody', Unsigned, [LockNext]_lockVars
  PROVE  Unsigned'
  <1> USE DEF Shape, Unsigned
  <1>1. CASE UNCHANGED lockVars
    BY <1>1 DEF lockVars
  <1>2. ASSUME NEW t \in Caller, Enter(t) \/ SpawnFails(t)
        PROVE  Unsigned'
    BY <1>2 DEF Enter, SpawnFails, Moves
  <1>3. ASSUME NEW t \in Caller, Step(t)
        PROVE  Unsigned'
    <2>1. CASE Name(t)
      <3>1. \A u \in Caller : at[u] = "unnamed" => u = t
        BY <2>1, MineApart DEF Name, Moves, Custody, InLockHoldsIt, InLock
      <3> QED BY <2>1, <3>1 DEF Name, Moves
    <2>2. CASE Unname(t)
      BY <2>2 DEF Unname, Unnamed, Moves
    <2>3. CASE ~Name(t) /\ ~Unname(t)
      BY <1>3, <2>3 DEF Step, TryLock, Queue, QueueFull, Undo, UndoFailed, ReceiveHandle, TimeOut,
                        DropReceiver, Blame, Unlock, Moves
    <2> QED BY <2>1, <2>2, <2>3
  <1>4. ASSUME NEW h \in Helper, Help(h)
        PROVE  Unsigned'
    BY <1>4 DEF Help, Granted, HelperLeaves, HandOver
  <1>5. ASSUME NEW p \in Process, Crash(p)
        PROVE  Unsigned'
    BY <1>5 DEF Crash
  <1> QED BY <1>1, <1>2, <1>3, <1>4, <1>5 DEF LockNext

\* Whoever vouches for the sidecar goes on doing so: a caller in its critical
\* section until it has removed it, a dead one for ever.
LEMMA NamesStep ==
  ASSUME Shape, Custody, Unsigned, SidecarNamesHolder, [LockNext]_lockVars
  PROVE  SidecarNamesHolder'
  <1> DEFINE Vouches(t) == ProcessOf[t] = sidecar /\ (InLock(t) \/ at[t] = "dead")
  <1> USE DEF Shape
  <1>1. CASE sidecar' = Nobody
    BY <1>1 DEF SidecarNamesHolder
  <1>2. ASSUME NEW t \in Caller, Name(t), sidecar' = ProcessOf[t]
        PROVE  SidecarNamesHolder'
    <2>1. ProcessOf[t] = sidecar' /\ InLock(t)'
      BY <1>2 DEF Name, Moves, InLock
    <2> QED BY <2>1 DEF SidecarNamesHolder
  <1>3. CASE sidecar' = sidecar /\ sidecar # Nobody
    <2>1. PICK t \in Caller : Vouches(t)
      BY <1>3 DEF SidecarNamesHolder
    <2>2. at[t] # "unnamed"
      BY <1>3 DEF Unsigned
    <2>3. at[t] \in {"granted", "named", "dead"}
      BY <2>1, <2>2 DEF InLock
    <2>4. CASE UNCHANGED lockVars \/ \E h \in Helper : Help(h)
      <3>1. at' = at
        BY <2>4 DEF lockVars, Help, Granted, HelperLeaves, HandOver
      <3> QED BY <1>3, <2>1, <3>1 DEF SidecarNamesHolder, InLock
    <2>5. ASSUME NEW u \in Caller, Enter(u) \/ SpawnFails(u) \/ Step(u)
          PROVE  SidecarNamesHolder'
      <3>1. CASE u # t
        <4>1. at'[t] = at[t]
          BY <2>5, <3>1 DEF Enter, SpawnFails, Step, TryLock, Queue, QueueFull, Undo, UndoFailed,
                            ReceiveHandle, TimeOut, DropReceiver, Blame, Name, Unname, Unlock, Moves
        <4> QED BY <1>3, <2>1, <4>1 DEF SidecarNamesHolder, InLock
      <3>2. CASE u = t
        <4>1. Name(t) \/ Unname(t)
          BY <2>3, <2>5, <3>2
          DEF Enter, SpawnFails, Step, TryLock, Queue, QueueFull, Undo, UndoFailed, ReceiveHandle,
              TimeOut, DropReceiver, Blame, Unlock, Moves
        <4>2. at'[t] \in {"named", "unnamed"}
          BY <4>1 DEF Name, Unname, Moves
        <4> QED BY <1>3, <2>1, <4>2 DEF SidecarNamesHolder, InLock
      <3> QED BY <3>1, <3>2
    <2>6. ASSUME NEW p \in Process, Crash(p)
          PROVE  SidecarNamesHolder'
      <3>1. at'[t] = at[t] \/ at'[t] = "dead"
        BY <2>6 DEF Crash
      <3> QED BY <1>3, <2>1, <3>1 DEF SidecarNamesHolder, InLock
    <2> QED BY <2>4, <2>5, <2>6 DEF LockNext
  <1>4. ASSUME sidecar' # sidecar, sidecar' # Nobody
        PROVE  \E t \in Caller : Name(t) /\ sidecar' = ProcessOf[t]
    <2>1. ASSUME NEW t \in Caller, Enter(t) \/ SpawnFails(t) \/ Step(t), ~Name(t)
          PROVE  FALSE
      BY <1>4, <2>1
      DEF Enter, SpawnFails, Step, TryLock, Queue, QueueFull, Undo, UndoFailed, ReceiveHandle, TimeOut,
          DropReceiver, Blame, Unname, Unnamed, Unlock
    <2>2. ASSUME NEW t \in Caller, Name(t)
          PROVE  sidecar' = ProcessOf[t]
      BY <1>4, <2>2 DEF Name
    <2>3. ~UNCHANGED lockVars /\ ~\E h \in Helper : Help(h)
      BY <1>4 DEF lockVars, Help, Granted, HelperLeaves, HandOver
    <2>4. ~\E p \in Process : Crash(p)
      BY <1>4 DEF Crash
    <2> QED BY <2>1, <2>2, <2>3, <2>4 DEF LockNext
  <1> QED BY <1>1, <1>2, <1>3, <1>4

-----------------------------------------------------------------------------
(* The theorems *)

IInv ==
  Shape /\ Custody /\ Counted /\ HelpersBounded /\ Unsigned /\ SidecarNamesHolder

LEMMA InitIInv == LockInit => IInv
  <1> SUFFICES ASSUME LockInit PROVE IInv
    OBVIOUS
  <1> USE DEF LockInit
  <1>1. Shape
    BY DEF Shape
  <1>2. Custody
    <2>1. \A t \in Caller : ~InLock(t) /\ at[t] = "idle"
      BY DEF InLock
    <2> QED BY <2>1 DEF Custody, AtAttempt, HelperHoldsIt, NoHelper, InLockHoldsIt
  <1>3. Counted
    <2>1. \A p \in Process : Queued(p) = {} /\ Overcounted(p) = {} /\ waiters[p] = 0
      BY DEF Queued, Overcounted
    <2> QED BY <2>1, FS_EmptySet DEF Counted, Count1
  <1>4. HelpersBounded
    <2>1. \A p \in Process :
            {h \in Helper : ProcessOf[h[1]] = p /\ helper[h] = "blocked"} = {}
      OBVIOUS
    <2> QED BY <2>1, FS_EmptySet, MaxWaitersPositive DEF HelpersBounded
  <1>5. Unsigned /\ SidecarNamesHolder
    BY DEF Unsigned, SidecarNamesHolder
  <1> QED BY <1>1, <1>2, <1>3, <1>4, <1>5 DEF IInv

LEMMA StepIInv == IInv /\ [LockNext]_lockVars => IInv'
  <1> SUFFICES ASSUME IInv, [LockNext]_lockVars PROVE IInv'
    OBVIOUS
  <1>0. Shape /\ Custody /\ AtAttempt /\ Counted /\ HelpersBounded /\ Unsigned /\ SidecarNamesHolder
    BY DEF IInv, Custody
  <1>1. Shape' /\ Custody'
    BY <1>0, ShapeStep, CustodyStep
  <1>2. Counted'
    BY <1>0, CountedStep
  <1>3. HelpersBounded'
    BY <1>0, <1>2, BoundedStep
  <1>4. Unsigned' /\ SidecarNamesHolder'
    BY <1>0, <1>1, SignedStep, NamesStep
  <1> QED BY <1>1, <1>2, <1>3, <1>4 DEF IInv

\* Two sums of cardinalities are never negative: the counter is a number.
LEMMA IInvImplies ==
  IInv => LockTypeOK /\ InLockHoldsIt /\ HelpersBounded /\ CounterExact /\ SidecarNamesHolder
  <1> SUFFICES ASSUME IInv
               PROVE  LockTypeOK /\ InLockHoldsIt /\ HelpersBounded /\ CounterExact /\ SidecarNamesHolder
    OBVIOUS
  <1>1. \A p \in Process : waiters[p] \in Nat
    BY FS_CardinalityType DEF IInv, Counted, Count1
  <1>2. LockTypeOK
    BY <1>1 DEF IInv, Shape, LockTypeOK
  <1>3. CounterExact
    BY DEF IInv, Counted, Count1, CounterExact
  <1> QED BY <1>2, <1>3 DEF IInv, Custody

THEOREM Invariance == LockSpec => []IInv
  BY InitIInv, StepIInv, PTL DEF LockSpec

\* TypeOK: in particular LOCK_WAITERS never goes below zero, whatever the order
\* in which helpers and refused callers take their increments back.
THEOREM LockTypeCorrect == LockSpec => []LockTypeOK
  BY Invariance, IInvImplies, PTL

\* Whoever is in a critical section of the store holds auth.lock.
THEOREM LockIsHeld == LockSpec => []InLockHoldsIt
  BY Invariance, IInvImplies, PTL

\* No process ever has more than MaxWaiters threads blocked on auth.lock,
\* those whose callers have given up included.
THEOREM HelpersAreBounded == LockSpec => []HelpersBounded
  BY Invariance, IInvImplies, PTL

\* LOCK_WAITERS counts the queued helpers and the refused callers of its
\* process exactly, across time-outs, stranded helpers and failed spawns.
THEOREM CounterIsExact == LockSpec => []CounterExact
  BY Invariance, IInvImplies, PTL

\* auth.lock.holder names the process that has the lock, or a killed one.
THEOREM SidecarIsRight == LockSpec => []SidecarNamesHolder
  BY Invariance, IInvImplies, PTL

\* The lock excludes: no two callers are in a critical section at once.
THEOREM MutualExclusion ==
  LockSpec => [](\A t, u \in Caller : InLock(t) /\ InLock(u) => t = u)
  <1>1. InLockHoldsIt => \A t, u \in Caller : InLock(t) /\ InLock(u) => t = u
    BY MineApart DEF InLockHoldsIt
  <1> QED BY <1>1, LockIsHeld, PTL

-----------------------------------------------------------------------------
(* The lock as the store sees it.  A caller comes in by TryLock or by the   *)
(* handle that its helper sent; in both cases the lock was free of any      *)
(* other caller, since whoever is inside owns it.                           *)

LEMMA OneInside ==
  ASSUME Custody, NEW t \in Caller, NEW u \in Caller, InLock(t), InLock(u)
  PROVE  t = u
  BY MineApart DEF Custody, InLockHoldsIt

\* A step of a caller that stays inside, or stays outside.
LEMMA SameSide ==
  ASSUME Shape, NEW t \in Caller, at' = [at EXCEPT ![t] = at'[t]], InLock(t)' <=> InLock(t)
  PROVE  Inside' = Inside
  <1>1. \A u \in Caller : InLock(u)' <=> InLock(u)
    BY DEF Shape, InLock
  <1> QED BY <1>1 DEF Inside

LEMMA ComesInAlone ==
  ASSUME Shape, Custody, NEW t \in Caller, TryLock(t) \/ ReceiveHandle(t), at'[t] = "granted"
  PROVE  AsExclusion!ComeIn(t)
  <1>1. at[t] \in {"fast", "waiting"} /\ at' = [at EXCEPT ![t] = "granted"] /\ sidecar' = sidecar
    BY DEF TryLock, ReceiveHandle, Moves, Shape
  <1>2. ASSUME NEW u \in Caller, InLock(u) PROVE FALSE
    <2>1. owner = Mine(u) /\ Mine(u) \in Helper
      BY <1>2, MineFacts DEF Custody, InLockHoldsIt, AtAttempt, InLock
    <2>2. CASE TryLock(t)
      BY <2>1, <2>2, HandleFacts DEF TryLock, Moves, Shape
    <2>3. CASE ReceiveHandle(t)
      <3>1. helper[Mine(t)] = "sent" /\ at[t] = "waiting"
        BY <2>3 DEF ReceiveHandle, Moves
      <3>2. Mine(t) \in Helper
        BY <3>1, MineFacts DEF Custody, AtAttempt
      <3>3. owner = Mine(t)
        BY <3>1, <3>2 DEF Custody, HelperHoldsIt
      <3> QED BY <1>2, <2>1, <3>1, <3>3, MineApart DEF InLock
    <2> QED BY <2>2, <2>3
  <1>3. \A u \in Caller : InLock(u)' <=> u = t
    BY <1>1, <1>2 DEF InLock, Shape
  <1> QED BY <1>1, <1>2, <1>3 DEF AsExclusion!ComeIn, Inside

LEMMA StepIsExclusive ==
  ASSUME Shape, Custody, [LockNext]_lockVars
  PROVE  [AsExclusion!Next]_(AsExclusion!vars)
  <1>0. ASSUME Inside' = Inside, sidecar' = sidecar
        PROVE  [AsExclusion!Next]_(AsExclusion!vars)
    BY <1>0 DEF AsExclusion!vars
  <1>1. CASE UNCHANGED lockVars \/ \E h \in Helper : Help(h)
    <2>1. at' = at /\ sidecar' = sidecar
      BY <1>1 DEF lockVars, Help, Granted, HelperLeaves, HandOver
    <2> QED BY <1>0, <2>1 DEF Inside, InLock
  <1>2. ASSUME NEW t \in Caller,
               \/ Enter(t) \/ SpawnFails(t) \/ Queue(t) \/ QueueFull(t) \/ Undo(t) \/ UndoFailed(t)
               \/ TimeOut(t) \/ DropReceiver(t) \/ Blame(t)
        PROVE  [AsExclusion!Next]_(AsExclusion!vars)
    <2>1. /\ at' = [at EXCEPT ![t] = at'[t]] /\ sidecar' = sidecar
          /\ ~InLock(t) /\ ~InLock(t)'
      BY <1>2 DEF Enter, SpawnFails, Queue, QueueFull, Undo, UndoFailed, TimeOut, DropReceiver,
                  Blame, Moves, InLock, Shape
    <2> QED BY <1>0, <2>1, SameSide
  <1>3. ASSUME NEW t \in Caller, TryLock(t) \/ ReceiveHandle(t)
        PROVE  [AsExclusion!Next]_(AsExclusion!vars)
    <2>1. CASE at'[t] = "granted"
      BY <1>3, <2>1, ComesInAlone DEF AsExclusion!Next
    <2>2. CASE at'[t] # "granted"
      <3>1. /\ at' = [at EXCEPT ![t] = at'[t]] /\ sidecar' = sidecar
            /\ ~InLock(t) /\ ~InLock(t)'
        BY <1>3, <2>2 DEF TryLock, ReceiveHandle, Moves, InLock, Shape
      <3> QED BY <1>0, <3>1, SameSide
    <2> QED BY <2>1, <2>2
  <1>4. ASSUME NEW t \in Caller, Name(t) \/ Unname(t)
        PROVE  [AsExclusion!Next]_(AsExclusion!vars)
    <2>1. at' = [at EXCEPT ![t] = at'[t]] /\ InLock(t) /\ InLock(t)'
      BY <1>4 DEF Name, Unname, Moves, InLock, Shape
    <2>2. Inside' = Inside /\ t \in Inside
      BY <2>1, SameSide DEF Inside
    <2> QED BY <2>2 DEF AsExclusion!Next, AsExclusion!Write
  <1>5. ASSUME NEW t \in Caller, Unlock(t)
        PROVE  [AsExclusion!Next]_(AsExclusion!vars)
    <2>1. at' = [at EXCEPT ![t] = "idle"] /\ InLock(t) /\ sidecar' = sidecar
      BY <1>5 DEF Unlock, Moves, InLock
    <2>2. \A u \in Caller : ~InLock(u)'
      BY <2>1, OneInside DEF InLock, Shape
    <2> QED BY <2>1, <2>2 DEF AsExclusion!Next, AsExclusion!Leave, Inside
  <1>6. ASSUME NEW p \in Process, Crash(p)
        PROVE  [AsExclusion!Next]_(AsExclusion!vars)
    <2>1. /\ sidecar' = sidecar
          /\ \A u \in Caller : InLock(u)' <=> InLock(u) /\ ProcessOf[u] # p
      BY <1>6 DEF Crash, InLock
    <2>2. CASE \E u \in Caller : InLock(u) /\ ProcessOf[u] = p
      <3>1. Inside # {} /\ Inside' = {}
        BY <2>1, <2>2, OneInside DEF Inside
      <3> QED BY <2>1, <3>1 DEF AsExclusion!Next, AsExclusion!Leave
    <2>3. CASE ~\E u \in Caller : InLock(u) /\ ProcessOf[u] = p
      BY <1>0, <2>1, <2>3 DEF Inside
    <2> QED BY <2>2, <2>3
  <1> QED BY <1>1, <1>2, <1>3, <1>4, <1>5, <1>6 DEF LockNext, Step

\* What AuthStore calls Acquires is what lock_exclusive does: callers come in
\* one at a time, when nobody is inside, and the sidecar is only written there.
THEOREM LockImplementsExclusion == LockSpec => ImplementsExclusion
  <1>1. LockInit => AsExclusion!Init
    BY DEF LockInit, AsExclusion!Init, Inside, InLock
  <1>2. IInv /\ [LockNext]_lockVars => [AsExclusion!Next]_(AsExclusion!vars)
    BY StepIsExclusive DEF IInv
  <1> QED BY <1>1, <1>2, Invariance, PTL DEF LockSpec, ImplementsExclusion, AsExclusion!Spec
=============================================================================
