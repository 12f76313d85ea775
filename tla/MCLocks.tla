-------------------------------- MODULE MCLocks --------------------------------
(***************************************************************************)
(* The two locks of the program that are files: the store's `auth.lock`    *)
(* and the daemon's start lock.  Their machines share nothing and are      *)
(* checked together as a disjoint sum: which of the two runs is chosen to  *)
(* begin with, and the other stays where it is.                            *)
(***************************************************************************)
EXTENDS MCAuthLock, MCDaemonSlot

VARIABLE part   \* the machine that runs

locksVars == <<lockVars, slotVars, part>>

LocksInit == LockInit /\ SlotInit /\ part \in {"store", "slot"}

LocksView == <<lockVars, SlotView, part>>

LocksNext ==
  /\ UNCHANGED part
  /\ \/ part = "store" /\ LockNext /\ UNCHANGED slotVars
     \/ part = "slot" /\ SlotNext /\ UNCHANGED lockVars

\* With the fairness of LockSpec and of SlotSpec.
LocksSpec == LocksInit /\ [][LocksNext]_locksVars /\ LockFairness /\ SlotFairness
=============================================================================
