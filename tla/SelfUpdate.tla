------------------------------ MODULE SelfUpdate ------------------------------
(***************************************************************************)
(* `onebrain update` (onebrain-fs/src/update): look the latest release up, *)
(* in a file that is kept for an hour or at GitHub, refuse to go back,     *)
(* install it by renaming a downloaded binary over the running one or by   *)
(* handing off to the package manager, and see what `onebrain` on the PATH *)
(* says afterwards.  The zip archives of Windows are not unpacked yet, so  *)
(* there the update ends before it touches a file.                         *)
(***************************************************************************)
EXTENDS Integers

CONSTANTS Updater,    \* processes that run `onebrain update`
          Version,    \* the releases there can be, in the order of semver
          Serial,     \* whether the user runs one update at a time
          MaxUpdate   \* bound of the exploration: updates that are started

ASSUME VersionType == Version \subseteq Nat \ {0}

VARIABLES
  exe,       \* the installed binary: the release it is of, and whether it is whole
  new,       \* its sibling `onebrain.new`; version 0 when there is none
  managed,   \* whether brew or npm installed it
  shadow,    \* another install that comes first on the PATH; 0 when there is none
  latest,    \* what GitHub lists first
  known,     \* latest-release.json; 0 when there is none or it is too old
  updating,  \* how far each update is
  self,      \* the release of the binary that each update runs
  target,    \* the release it goes for
  updates    \* updates so far

updateVars == <<exe, new, managed, shadow, latest, known, updating, self, target, updates>>

Binary == [v : Version \union {0}, whole : BOOLEAN]
NoFile == [v |-> 0, whole |-> FALSE]

UpdateTypeOK ==
  /\ exe \in Binary /\ new \in Binary
  /\ managed \in BOOLEAN
  /\ shadow \in Version \union {0} /\ known \in Version \union {0}
  /\ latest \in Version
  /\ updating \in [Updater -> {"idle", "looking", "decided", "staging", "staged", "placed",
                               "ok", "upToDate", "failed"}]
  /\ self \in [Updater -> Version \union {0}]
  /\ target \in [Updater -> Version \union {0}]
  /\ updates \in Nat

UpdateInit ==
  /\ \E v \in Version : exe = [v |-> v, whole |-> TRUE]
  /\ new = NoFile
  /\ managed \in BOOLEAN
  /\ shadow \in Version \union {0}
  /\ latest \in Version
  /\ known = 0
  /\ updating = [u \in Updater |-> "idle"]
  /\ self = [u \in Updater |-> 0]
  /\ target = [u \in Updater |-> 0]
  /\ updates = 0

Turns(u, from, to) == updating[u] = from /\ updating' = [updating EXCEPT ![u] = to]
Done(u) == updating[u] \in {"idle", "ok", "upToDate", "failed"}

-----------------------------------------------------------------------------

\* GitHub lists by the date of publication, not by semver: an older release
\* that is published again comes first.
Released(v) ==
  /\ latest' = v
  /\ UNCHANGED <<exe, new, managed, shadow, known, updating, self, target, updates>>

\* RELEASE_CACHE_TTL runs out.
ReleaseCacheExpires ==
  /\ known' = 0
  /\ UNCHANGED <<exe, new, managed, shadow, latest, updating, self, target, updates>>

\* A process starts from the binary that is installed now; what it will say its
\* version is was compiled into it.
RunUpdate(u) ==
  /\ updates < MaxUpdate /\ Done(u) /\ exe.whole
  /\ Serial => \A w \in Updater : Done(w)
  /\ updates' = updates + 1
  /\ updating' = [updating EXCEPT ![u] = "looking"]
  /\ self' = [self EXCEPT ![u] = exe.v]
  /\ UNCHANGED <<exe, new, managed, shadow, latest, known, target>>

\* default_fetch_latest_release: the file, unless --fresh or too old; what
\* comes from GitHub is written back.
FetchRelease(u) ==
  /\ Turns(u, "looking", "decided")
  /\ \/ known # 0 /\ target' = [target EXCEPT ![u] = known] /\ UNCHANGED known
     \/ target' = [target EXCEPT ![u] = latest] /\ known' \in {latest, known}
  /\ UNCHANGED <<exe, new, managed, shadow, latest, self, updates>>

\* Mutant: anything but the very same release is gone for.
VersionDiffers(u) == self[u] = target[u]

\* version_at_least.
VersionAtLeast(u) == self[u] >= target[u]

\* --check, or nothing newer: done without touching anything.
Decline(u) ==
  /\ updating[u] = "decided"
  /\ \/ VersionAtLeast(u) /\ Turns(u, "decided", "upToDate")
     \/ Turns(u, "decided", "upToDate")
  /\ UNCHANGED <<exe, new, managed, shadow, latest, known, self, target, updates>>

\* The archive is downloaded and its digest checked in memory; then
\* `onebrain.new` is created, or emptied.
Stage(u) ==
  /\ ~VersionAtLeast(u) /\ ~managed
  /\ Turns(u, "decided", "staging")
  /\ new' = [v |-> target[u], whole |-> FALSE]
  /\ UNCHANGED <<exe, managed, shadow, latest, known, self, target, updates>>

\* Written, synced and made executable.
FinishStaging(u) ==
  /\ Turns(u, "staging", "staged")
  /\ new' = [v |-> target[u], whole |-> TRUE]
  /\ UNCHANGED <<exe, managed, shadow, latest, known, self, target, updates>>

\* Mutant: the rename does not wait for the write.
StagedUnsynced(u) == updating[u] \in {"staging", "staged"}

Staged(u) == updating[u] = "staged"

\* The rename over the running binary, of whatever the sibling is by now.
Place(u) ==
  /\ Staged(u) /\ new # NoFile
  /\ updating' = [updating EXCEPT ![u] = "placed"]
  /\ exe' = new /\ new' = NoFile
  /\ UNCHANGED <<managed, shadow, latest, known, self, target, updates>>

\* External: npm installs the release it is told to; brew what its tap has,
\* which may be nothing new, and says it succeeded.
PackageManager(u) ==
  /\ ~VersionAtLeast(u) /\ managed
  /\ Turns(u, "decided", "placed")
  /\ \E v \in {exe.v, target[u]} : exe' = [v |-> v, whole |-> TRUE]
  /\ UNCHANGED <<new, managed, shadow, latest, known, self, target, updates>>

\* What `onebrain` on the PATH is.
OnPath == IF shadow # 0 THEN shadow ELSE exe.v

\* validate_reported.
Reported(u) == OnPath >= target[u]

\* After the check the warm daemons are retired, and a failure of that is
\* absorbed.  Nothing is taken back when the check fails.
Validate(u) ==
  /\ exe.whole \/ shadow # 0
  /\ IF Reported(u) THEN Turns(u, "placed", "ok") ELSE Turns(u, "placed", "failed")
  /\ UNCHANGED <<exe, new, managed, shadow, latest, known, self, target, updates>>

\* An error: the sibling goes when it was the rename that failed, and stays
\* when it was the write.
UpdateFails(u) ==
  /\ \/ \E s \in {"looking", "decided", "staging"} : Turns(u, s, "failed") /\ UNCHANGED new
     \/ Turns(u, "staged", "failed") /\ new' \in {new, NoFile}
     \/ Turns(u, "placed", "failed") /\ UNCHANGED new
  /\ UNCHANGED <<exe, managed, shadow, latest, known, self, target, updates>>

UpdateNext ==
  \/ ReleaseCacheExpires \/ \E v \in Version : Released(v)
  \/ \E u \in Updater :
       \/ RunUpdate(u) \/ FetchRelease(u) \/ Decline(u) \/ Stage(u) \/ FinishStaging(u)
       \/ Place(u) \/ PackageManager(u) \/ Validate(u) \/ UpdateFails(u)

UpdateSpec == UpdateInit /\ [][UpdateNext]_updateVars

-----------------------------------------------------------------------------
(* Properties *)

\* Whatever fails, and wherever an update is killed, the binary that is
\* installed is a whole one, and an update that says it succeeded is what the
\* next command runs.
UpdateIsSafe ==
  /\ exe.whole
  /\ \A u \in Updater : updating[u] = "ok" => OnPath >= target[u]

\* No update takes a newer release away: not by what an hour-old file says,
\* nor when an old release is published again.
NeverOlder == [][exe'.v >= exe.v]_updateVars
=============================================================================
