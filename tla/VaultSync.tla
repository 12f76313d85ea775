------------------------------ MODULE VaultSync ------------------------------
(***************************************************************************)
(* `onebrain vault sync` (onebrain-fs/src/vault_sync): a release is        *)
(* downloaded, its plugin files are laid over the vault's one by one, the  *)
(* root files and onebrain.yml are brought up to date, Claude Code's       *)
(* plugin registry is pointed at the vault's copy, and the plugin cache is *)
(* emptied.  Nothing is rolled back: a sync that fails or is killed leaves *)
(* what it has done, and the next one starts over.                         *)
(*                                                                         *)
(* The registry (installed_plugins.json) and the cache belong to the user, *)
(* so all vaults share them; no lock is taken.                             *)
(***************************************************************************)
EXTENDS Integers, FiniteSets

CONSTANTS Vault,
          Release,      \* the releases a channel may serve, numbered
          File,         \* the plugin's files
          Meta,         \* plugin.json, the one that names the release
          Ships,        \* the files of each release
          CacheDir,     \* <cache>/<marketplace>/onebrain/<version>
          Elsewhere,    \* an installPath that is neither of a vault nor of the cache
          Overlapping,  \* whether syncs of two vaults may run at the same time
          MaxSync       \* bound of the exploration: syncs that are started

\* A plugin.json that is missing or has no version would read as "unknown", 0 here.
ASSUME ManifestShipped ==
  0 \notin Release /\ Ships \in [Release -> SUBSET File] /\ \A r \in Release : Meta \in Ships[r]
ASSUME ElsewhereIsNoVault == Elsewhere \notin Vault

VARIABLES
  files,     \* the release each vault's file is of; 0 when there is no such file
  channel,   \* whether update_channel in onebrain.yml is up to date
  registry,  \* the onebrain entry of each vault's project, if any
  readable,  \* whether installed_plugins.json parses
  cache,     \* the cached version directories
  present,   \* the vaults whose directory exists
  syncing,   \* how far the sync of each vault is
  fetched,   \* the release it has downloaded
  copied,    \* the files it has copied
  plan,      \* the registry it is about to write
  started    \* syncs so far

syncVars == <<files, channel, registry, readable, cache, present, syncing, fetched,
              copied, plan, started>>

NoEntry == [path |-> Elsewhere, version |-> 0, source |-> "none"]
Entry == [path : Vault \union CacheDir \union {Elsewhere}, version : Release \union {0},
          source : {"local", "marketplace"}] \union {NoEntry}
Registry == [Vault -> Entry]

SyncTypeOK ==
  /\ files \in [Vault -> [File -> Release \union {0}]]
  /\ channel \in [Vault -> BOOLEAN]
  /\ registry \in Registry
  /\ readable \in BOOLEAN
  /\ cache \subseteq CacheDir
  /\ present \subseteq Vault
  /\ syncing \in [Vault -> {"idle", "copying", "merging", "config", "pinning",
                            "writing", "torn", "skipped", "pinned", "failed", "ok"}]
  /\ fetched \in [Vault -> Release \union {0}]
  /\ copied \in [Vault -> SUBSET File]
  /\ plan \in [Vault -> Registry]
  /\ started \in Nat

\* What Claude Code may have left: entries it installed in the cache or from
\* elsewhere, or none; entries of vaults that are gone.
SyncInit ==
  /\ files = [v \in Vault |-> [f \in File |-> 0]]
  /\ channel = [v \in Vault |-> FALSE]
  /\ cache = CacheDir
  /\ registry \in [Vault -> {NoEntry} \union
                     [path : CacheDir \union {Elsewhere}, version : {0},
                      source : {"local", "marketplace"}]]
  /\ readable = TRUE
  /\ present \in SUBSET Vault
  /\ syncing = [v \in Vault |-> "idle"]
  /\ fetched = [v \in Vault |-> 0]
  /\ copied = [v \in Vault |-> {}]
  /\ plan = [v \in Vault |-> [w \in Vault |-> NoEntry]]
  /\ started = 0

Steps(v, from, to) == syncing[v] = from /\ syncing' = [syncing EXCEPT ![v] = to]

Inactive(v) == syncing[v] \in {"idle", "failed", "ok"}

-----------------------------------------------------------------------------
(* The files of the vault *)

\* download_and_extract; when it fails nothing in the vault has changed.
Download(v, r) ==
  /\ started < MaxSync
  /\ v \in present /\ Inactive(v)
  /\ Overlapping \/ \A w \in Vault : Inactive(w)
  /\ started' = started + 1
  /\ \/ /\ syncing' = [syncing EXCEPT ![v] = "copying"]
        /\ fetched' = [fetched EXCEPT ![v] = r]
     \/ /\ syncing' = [syncing EXCEPT ![v] = "failed"]
        /\ UNCHANGED fetched
  /\ copied' = [copied EXCEPT ![v] = {}]
  /\ UNCHANGED <<files, channel, registry, readable, cache, present, plan>>

\* Mutant: a file that is already there is left alone.
MissingOnly(v) == {f \in Ships[fetched[v]] : files[v][f] = 0}

\* overlay_directory copies every file of the release, whatever is there.
ToCopy(v) == Ships[fetched[v]]

Copy(v, f) ==
  /\ syncing[v] = "copying" /\ f \in ToCopy(v) \ copied[v]
  /\ files' = [files EXCEPT ![v][f] = fetched[v]]
  /\ copied' = [copied EXCEPT ![v] = @ \union {f}]
  /\ UNCHANGED <<channel, registry, readable, cache, present, syncing, fetched, plan, started>>

\* What the release no longer ships goes; an unlink that fails is passed over.
PruneFiles(v) ==
  /\ Steps(v, "copying", "merging") /\ ToCopy(v) \subseteq copied[v]
  /\ \E kept \in SUBSET (File \ Ships[fetched[v]]) :
       files' = [files EXCEPT ![v] =
                   [f \in File |-> IF f \in Ships[fetched[v]] \union kept THEN @[f] ELSE 0]]
  /\ UNCHANGED <<channel, registry, readable, cache, present, fetched, copied, plan, started>>

\* copy_root_docs cannot fail the sync, merge_harness_files can.
Merge(v) ==
  /\ Steps(v, "merging", "config")
  /\ UNCHANGED <<files, channel, registry, readable, cache, present, fetched, copied, plan, started>>

\* update_vault_yml; a vault that is not Claude Code's is done after it.
UpdateConfig(v) ==
  /\ Steps(v, "config", "pinning") \/ Steps(v, "config", "ok")
  /\ channel' = [channel EXCEPT ![v] = TRUE]
  /\ UNCHANGED <<files, registry, readable, cache, present, fetched, copied, plan, started>>

\* An error of any step so far ends the sync and leaves what was done.
Fail(v) ==
  /\ \E s \in {"copying", "merging", "config"} : Steps(v, s, "failed")
  /\ UNCHANGED <<files, channel, registry, readable, cache, present, fetched, copied, plan, started>>

\* The process is killed; a direct write of the registry may be half done.
SyncKilled(v) ==
  /\ ~Inactive(v)
  /\ syncing' = [syncing EXCEPT ![v] = "failed"]
  /\ UNCHANGED <<files, channel, registry, readable, cache, present, fetched, copied, plan, started>>

-----------------------------------------------------------------------------
(* pin_to_vault *)

Entries == {w \in Vault : registry[w] # NoEntry}

\* No registry, nothing of onebrain in it, or an entry of the marketplace.
PinSkipped == Entries = {} \/ \E w \in Entries : registry[w].source = "marketplace"

\* The entries that this sync refreshes: of this vault's copy, of this
\* project, and every one that points into the cache.
Mine(v, w) == registry[w].path = v \/ registry[w].path \in CacheDir \/ w = v

\* Mutant: the version is brought up to date only when the path is.
OnlyWhenMoved(v, w) ==
  IF registry[w].path = v THEN registry[w]
  ELSE [registry[w] EXCEPT !.path = v, !.version = files[v][Meta]]

Refreshed(v, w) == [registry[w] EXCEPT !.path = v, !.version = files[v][Meta]]

\* Entries of projects that are gone are dropped, mine are pinned.
Pinned(v) ==
  [w \in Vault |-> IF w \notin Entries \/ w \notin present THEN NoEntry
                   ELSE IF Mine(v, w) THEN Refreshed(v, w) ELSE registry[w]]

\* The registry is read and worked out in memory.  Any error only warns.
ReadRegistry(v) ==
  /\ IF ~readable \/ PinSkipped
     THEN Steps(v, "pinning", "skipped") /\ UNCHANGED plan
     ELSE /\ Steps(v, "pinning", IF Pinned(v) = registry THEN "pinned" ELSE "writing")
          /\ plan' = [plan EXCEPT ![v] = Pinned(v)]
  /\ UNCHANGED <<files, channel, registry, readable, cache, present, fetched, copied, started>>

PinFails(v) ==
  /\ Steps(v, "pinning", "skipped") \/ Steps(v, "writing", "skipped")
  /\ UNCHANGED <<files, channel, registry, readable, cache, present, fetched, copied, plan, started>>

\* atomic_write: renamed into place, or, when the rename fails, written in place.
WriteRegistry(v) ==
  /\ \/ Steps(v, "writing", "pinned") /\ readable' = TRUE
     \/ Steps(v, "writing", "torn") /\ readable' = FALSE
  /\ registry' = plan[v]
  /\ UNCHANGED <<files, channel, cache, present, fetched, copied, plan, started>>

WriteEnds(v) ==
  /\ Steps(v, "torn", "pinned") /\ readable' = TRUE
  /\ registry' = plan[v]
  /\ UNCHANGED <<files, channel, cache, present, fetched, copied, plan, started>>

-----------------------------------------------------------------------------

\* clean_plugin_cache, whatever became of the pin: every version directory it
\* finds, but for those that cannot be removed.
CleanCache(v) ==
  /\ \E s \in {"skipped", "pinned"} : Steps(v, s, "ok")
  /\ cache' \in SUBSET cache
  /\ UNCHANGED <<files, channel, registry, readable, present, fetched, copied, plan, started>>

SyncNext ==
  \E v \in Vault :
    \/ \E r \in Release : Download(v, r)
    \/ \E f \in File : Copy(v, f)
    \/ PruneFiles(v) \/ Merge(v) \/ UpdateConfig(v) \/ Fail(v) \/ SyncKilled(v)
    \/ ReadRegistry(v) \/ PinFails(v) \/ WriteRegistry(v) \/ WriteEnds(v) \/ CleanCache(v)

SyncSpec == SyncInit /\ [][SyncNext]_syncVars

-----------------------------------------------------------------------------
(* Properties *)

\* Every file of release r is there, and of that release.
Whole(v, r) == \A f \in Ships[r] : files[v][f] = r

\* A sync that ends well has left the vault with the whole of one release,
\* whatever earlier syncs that failed half-way had left behind; and a pin that
\* went through has made that release the one this project's entry names.
SyncTakesEffect ==
  \A v \in Vault :
    /\ syncing[v] = "ok" => Whole(v, fetched[v]) /\ channel[v]
    /\ syncing[v] = "pinned" =>
         /\ readable
         /\ \A w \in Entries : w = v \/ registry[w].path = v =>
              registry[w].path = v /\ registry[w].version = fetched[v]

\* The registry never comes to name a release for a vault's copy that is not
\* there as a whole: not by a sync that failed, nor after one.
PinNamesWhole ==
  [][\A w, v \in Vault :
       LET e == registry'[w]
       IN  e # registry[w] /\ e.path = v => e.version # 0 /\ Whole(v, e.version)]_syncVars

=============================================================================
