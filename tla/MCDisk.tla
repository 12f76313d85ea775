-------------------------------- MODULE MCDisk --------------------------------
(***************************************************************************)
(* What the program keeps on disk and rewrites file by file: the search    *)
(* index, a vault's plugin with its registry entry, and the installed      *)
(* binary.  Their machines share nothing and are checked together as a     *)
(* disjoint sum: which of them runs is chosen to begin with, and the       *)
(* others stay where they are.                                             *)
(***************************************************************************)
EXTENDS MCIndex, MCVaultSync, SelfUpdate

VARIABLE part   \* the machine that runs

diskVars == <<indexVars, syncVars, updateVars, part>>

\* A machine that does not run starts in one of its states.
DiskInit ==
  /\ part \in {"index", "sync", "update"}
  /\ IndexInit /\ SyncInit /\ UpdateInit
  /\ part # "sync" => Entries = {} /\ present = {}
  /\ part # "update" => ~managed /\ shadow = 0 /\ latest = 1 /\ exe.v = 1

DiskNext ==
  /\ UNCHANGED part
  /\ \/ part = "index" /\ IndexNext /\ ReadSoon /\ UNCHANGED <<syncVars, updateVars>>
     \/ part = "sync" /\ SyncNext /\ UNCHANGED <<indexVars, updateVars>>
     \/ part = "update" /\ UpdateNext /\ UNCHANGED <<indexVars, syncVars>>

DiskView ==
  <<file, edits, stores, minted, embedModel, undone, ServedMemo, SeenEngine, remade, cut, upsets,
    syncVars, updateVars, part>>

DiskSpec == DiskInit /\ [][DiskNext]_diskVars
=============================================================================
