------------------------------- MODULE AuthLock -------------------------------
(***************************************************************************)
(* How the gateway and the CLI take `auth.lock` (gateway/auth/store.rs):   *)
(* `lock_exclusive`, `acquire_within` and the guard's Drop.  A caller that *)
(* cannot take the lock at once starts a helper thread that blocks in the  *)
(* kernel, and waits for it a bounded time; a helper whose caller has gone *)
(* is stranded until the kernel grants it the lock, which it then drops.   *)
(*                                                                         *)
(* The OS lock belongs to an open file handle.  A handle is named after    *)
(* the caller's attempt that opened it; it is moved to the helper and, in  *)
(* the helper's message, back to the caller.                               *)
(***************************************************************************)
EXTENDS Integers, FiniteSets

CONSTANTS Caller, Process,
          ProcessOf,    \* the process each calling thread runs in
          MaxWaiters,   \* MAX_LOCK_WAITERS
          MayCrash,     \* the processes that may be killed
          Tries         \* bound of the exploration: the attempts of each caller

ASSUME ProcessOfType == ProcessOf \in [Caller -> Process]
ASSUME MaxWaitersPositive == MaxWaiters \in Nat \ {0}
ASSUME TriesType == Tries \in [Caller -> Nat]
ASSUME MayCrashType == MayCrash \subseteq Process

Unheld == <<>>
Nobody == "nobody"

ASSUME NobodyIsNoProcess == Nobody \notin Process

VARIABLES
  owner,     \* the handle that holds the OS lock
  waiters,   \* LOCK_WAITERS of each process
  at,        \* where each caller is
  try,       \* the number of each caller's current attempt
  helper,    \* the helper thread of each attempt
  sidecar    \* the process auth.lock.holder names

lockVars == <<owner, waiters, at, try, helper, sidecar>>

Helper == UNION {{t} \X (1..Tries[t]) : t \in Caller}
Mine(t) == <<t, try[t]>>

\* The states in which a caller has the lock's handle in its own hands.
InLock(t) == at[t] \in {"granted", "named", "unnamed"}

LockTypeOK ==
  /\ owner \in Helper \union {Unheld}
  /\ waiters \in [Process -> Nat]
  /\ at \in [Caller -> {"idle", "fast", "queue", "over", "failed", "waiting", "expired", "busy",
                        "granted", "named", "unnamed", "dead"}]
  /\ try \in [Caller -> Nat]
  /\ helper \in [Helper -> {"none", "blocked", "granted", "counted", "sent", "gone"}]
  /\ sidecar \in Process \union {Nobody}

LockInit ==
  /\ owner = Unheld
  /\ waiters = [p \in Process |-> 0]
  /\ at = [t \in Caller |-> "idle"]
  /\ try = [t \in Caller |-> 0]
  /\ helper = [h \in Helper |-> "none"]
  /\ sidecar = Nobody

Count(p, n) == waiters' = [waiters EXCEPT ![p] = @ + n]
Moves(t, from, to) == at[t] = from /\ at' = [at EXCEPT ![t] = to]

-----------------------------------------------------------------------------
(* The caller, up to having the lock or giving up *)

\* A new handle is opened; the fast path is skipped while somebody of the
\* same process is queued.
Enter(t) ==
  /\ try[t] < Tries[t]
  /\ try' = [try EXCEPT ![t] = @ + 1]
  /\ Moves(t, "idle", IF waiters[ProcessOf[t]] = 0 THEN "fast" ELSE "queue")
  /\ UNCHANGED <<owner, waiters, helper, sidecar>>

TryLock(t) ==
  /\ \/ owner = Unheld /\ Moves(t, "fast", "granted") /\ owner' = Mine(t)
     \/ owner # Unheld /\ Moves(t, "fast", "queue") /\ UNCHANGED owner
  /\ UNCHANGED <<waiters, try, helper, sidecar>>

Room(p) == waiters[p] < MaxWaiters

\* fetch_add, and the helper is started.
Queue(t) ==
  /\ Room(ProcessOf[t])
  /\ Moves(t, "queue", "waiting")
  /\ Count(ProcessOf[t], 1)
  /\ helper' = [helper EXCEPT ![Mine(t)] = "blocked"]
  /\ UNCHANGED <<owner, try, sidecar>>

\* fetch_add found the cap reached; it is undone a moment later.
QueueFull(t) ==
  /\ ~Room(ProcessOf[t])
  /\ Moves(t, "queue", "over")
  /\ Count(ProcessOf[t], 1)
  /\ UNCHANGED <<owner, try, helper, sidecar>>

\* Mutant: the count of a refused caller is not taken back.
KeepCount(t) == UNCHANGED waiters

Uncount(t) == Count(ProcessOf[t], -1)

Undo(t) ==
  /\ Moves(t, "over", "busy")
  /\ Uncount(t)
  /\ UNCHANGED <<owner, try, helper, sidecar>>

\* The thread could not be started: an I/O error, not StoreBusy.
SpawnFails(t) ==
  /\ Room(ProcessOf[t])
  /\ Moves(t, "queue", "failed")
  /\ Count(ProcessOf[t], 1)
  /\ UNCHANGED <<owner, try, helper, sidecar>>

UndoFailed(t) ==
  /\ Moves(t, "failed", "idle")
  /\ Uncount(t)
  /\ UNCHANGED <<owner, try, helper, sidecar>>

ReceiveHandle(t) ==
  /\ Moves(t, "waiting", "granted")
  /\ helper[Mine(t)] = "sent"
  /\ helper' = [helper EXCEPT ![Mine(t)] = "gone"]
  /\ UNCHANGED <<owner, waiters, try, sidecar>>

\* No message within LOCK_WAIT, which may run out at any moment: the time
\* is left out.  The receiver itself goes a moment later.
TimeOut(t) ==
  /\ Moves(t, "waiting", "expired")
  /\ helper[Mine(t)] # "sent"
  /\ UNCHANGED <<owner, waiters, try, helper, sidecar>>

\* Mutant: a handle that arrived too late is never closed.
LeftOpen(h) == owner

\* A handle that is closed releases the lock if it holds it.
Closed(h) == IF owner = h THEN Unheld ELSE owner

\* Dropping the receiver drops the message in it, if one came after all.
DropReceiver(t) ==
  /\ Moves(t, "expired", "busy")
  /\ IF helper[Mine(t)] = "sent"
     THEN owner' = Closed(Mine(t)) /\ helper' = [helper EXCEPT ![Mine(t)] = "gone"]
     ELSE UNCHANGED <<owner, helper>>
  /\ UNCHANGED <<waiters, try, sidecar>>

\* StoreBusy, with whoever the sidecar names now.
Blame(t) ==
  /\ Moves(t, "busy", "idle")
  /\ UNCHANGED <<owner, waiters, try, helper, sidecar>>

-----------------------------------------------------------------------------
(* The helper thread *)

Listens(h) == try[h[1]] = h[2] /\ at[h[1]] \in {"waiting", "expired"}

\* The kernel grants the lock to one of those blocked on it.
Granted(h) ==
  /\ helper[h] = "blocked" /\ owner = Unheld
  /\ owner' = h
  /\ helper' = [helper EXCEPT ![h] = "granted"]
  /\ UNCHANGED <<waiters, at, try, sidecar>>

HelperLeaves(h) ==
  /\ helper[h] = "granted"
  /\ helper' = [helper EXCEPT ![h] = "counted"]
  /\ Count(ProcessOf[h[1]], -1)
  /\ UNCHANGED <<owner, at, try, sidecar>>

\* The handle goes to the caller, or is closed if the caller has gone.
HandOver(h) ==
  /\ helper[h] = "counted"
  /\ IF Listens(h)
     THEN helper' = [helper EXCEPT ![h] = "sent"] /\ UNCHANGED owner
     ELSE helper' = [helper EXCEPT ![h] = "gone"] /\ owner' = Closed(h)
  /\ UNCHANGED <<waiters, at, try, sidecar>>

-----------------------------------------------------------------------------
(* The critical section *)

\* Mutant: the guard is dropped at once (`let _ =`), and the lock with it.
NameUnguarded(t) ==
  /\ Moves(t, "granted", "named")
  /\ sidecar' \in {ProcessOf[t], sidecar}
  /\ owner' = Closed(Mine(t))
  /\ UNCHANGED <<waiters, try, helper>>

\* The sidecar is written once the lock is held; writing may fail.
Name(t) ==
  /\ Moves(t, "granted", "named")
  /\ sidecar' \in {ProcessOf[t], sidecar}
  /\ UNCHANGED <<owner, waiters, try, helper>>

\* Mutant: the lock is released with the sidecar still there.
StillNamed == sidecar

Unnamed == Nobody

\* StoreLock::drop removes the sidecar first; the handle is closed after.
Unname(t) ==
  /\ Moves(t, "named", "unnamed")
  /\ sidecar' = Unnamed
  /\ UNCHANGED <<owner, waiters, try, helper>>

Unlock(t) ==
  /\ Moves(t, "unnamed", "idle")
  /\ owner' = Closed(Mine(t))
  /\ UNCHANGED <<waiters, try, helper, sidecar>>

\* A process is killed: its threads are gone and its handles closed, and the
\* sidecar stays as it is.
Crash(p) ==
  LET threads == {t \in Caller : ProcessOf[t] = p}
  IN  /\ p \in MayCrash /\ \E t \in threads : at[t] # "dead"
      /\ at' = [t \in Caller |-> IF t \in threads THEN "dead" ELSE at[t]]
      /\ helper' = [h \in Helper |-> IF h[1] \in threads THEN "gone" ELSE helper[h]]
      /\ owner' = IF owner # Unheld /\ owner[1] \in threads THEN Unheld ELSE owner
      /\ waiters' = [waiters EXCEPT ![p] = 0]
      /\ UNCHANGED <<try, sidecar>>

-----------------------------------------------------------------------------

Step(t) ==
  \/ TryLock(t) \/ Queue(t) \/ QueueFull(t) \/ Undo(t) \/ UndoFailed(t) \/ ReceiveHandle(t) \/ TimeOut(t)
  \/ DropReceiver(t) \/ Blame(t) \/ Name(t) \/ Unname(t) \/ Unlock(t)

Help(h) == Granted(h) \/ HelperLeaves(h) \/ HandOver(h)

LockNext ==
  \/ \E t \in Caller : Enter(t) \/ Step(t) \/ SpawnFails(t)
  \/ \E h \in Helper : Help(h)
  \/ \E p \in Process : Crash(p)

\* Threads keep running and a critical section ends.  The kernel does not
\* pass over a blocked thread for ever: that is what a queued lock is for.
LockFairness ==
  /\ \A t \in Caller : WF_lockVars(Step(t))
  /\ \A h \in Helper : WF_lockVars(Help(h)) /\ SF_lockVars(Granted(h))

LockSpec == LockInit /\ [][LockNext]_lockVars /\ LockFairness

-----------------------------------------------------------------------------
(* Properties *)

\* Whoever is in a critical section holds the lock, through whichever hands
\* its handle has gone, so no two are.
InLockHoldsIt == \A t \in Caller : InLock(t) => owner = Mine(t)

\* The lock as the store sees it: however the handle comes to a caller, by the
\* fast path or from a helper, late or not at all, callers come in one at a time
\* and only when nobody is inside, a killed process leaves as an orderly one
\* does, and only one who is inside touches the sidecar.
Inside == {t \in Caller : InLock(t)}
AsExclusion == INSTANCE Exclusion WITH Locker <- Caller, inside <- Inside, guarded <- sidecar
ImplementsExclusion == AsExclusion!Spec

\* The blocked helpers of a process stay within the cap, stranded ones
\* included, whatever the order of the counter's updates.
HelpersBounded ==
  \A p \in Process :
    Cardinality({h \in Helper : ProcessOf[h[1]] = p /\ helper[h] = "blocked"}) <= MaxWaiters

\* Those who stand in the counter of a process: its helpers still queued, and
\* its callers about to take their own increment back.
Queued(p) == {h \in Helper : ProcessOf[h[1]] = p /\ helper[h] \in {"blocked", "granted"}}
Overcounted(p) == {t \in Caller : ProcessOf[t] = p /\ at[t] \in {"over", "failed"}}

\* The counter tells no lies for long: it counts exactly those.  One lost
\* decrement would end at a gateway that refuses everybody for ever.
CounterExact ==
  \A p \in Process : waiters[p] = Cardinality(Queued(p)) + Cardinality(Overcounted(p))

\* The sidecar names the process that holds the lock, or one that was killed.
SidecarNamesHolder ==
  sidecar = Nobody \/ (\E t \in Caller : ProcessOf[t] = sidecar /\ (InLock(t) \/ at[t] = "dead"))

\* The lock never stays with a handle nobody will close, a stranded helper's
\* or one whose message came too late.
LockComesFree == (owner # Unheld) ~> (owner = Unheld)
=============================================================================
