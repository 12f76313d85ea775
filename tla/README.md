# TLA+ models of OneBrain CLI

OneBrain is one Rust binary, `onebrain`, that keeps a vault of Markdown notes:
it searches it, serves it to AI clients, syncs its plugin, schedules skills and
updates itself. This directory holds TLA+ modules of the parts where several
actors or several writes meet, the TLC runs that check them on small instances,
and TLAPS proofs of their main invariants for every value of the constants.

The modules are translated from the Rust sources under `src/`; `PROJECT.json`
gives the lines behind each definition (`map`), the runs, for each property a
mutation of the code that breaks it (`mutants`), the hazards and the theorems.

    tlc -workers 2 -config Auth.cfg MCAuth     # any run
    tlapm AuthStoreProofs.tla                  # any proof module

## 1. The system

### 1.1 The gateway (`onebrain-cli/src/commands/gateway`)

An HTTP server that remote AI clients reach through a tunnel. OAuth names the
client, a policy decides what it may do, and a human may be asked.

| Part | State it keeps | Operations | Right when |
|---|---|---|---|
| OAuth store, `auth/store.rs` | `clients.json`, `codes.json`, `tokens.json` | register, issue, consume and exchange a code, rotate, revoke, remove a client, purge | files survive a crash between two of them; a code opens one session; a refresh token is used once; what is revoked stays revoked |
| Store lock, `auth/store.rs` | `auth.lock`, its holder sidecar, a counter of helper threads per process | acquire within a time, release | it excludes; helpers are bounded; the lock always comes free; the sidecar blames the right process |
| Authorize flow, `oauth_routes.rs` | nothing of its own between requests | validate, pair, issue, look again, redirect | no redirect carries a code of a client that is gone and can still redeem it |
| Limiters, `oauth_routes.rs` | two mutex-guarded counters in memory | check a pairing code, admit a registration | guesses and registrations are paced whatever the threads wait for |
| Approval registry, `approval.rs` | pending calls, prompts, a closed flag | register, attach, resolve, deny all, wait | the first answer stands; nothing is left behind; every wait ends; caps hold |
| Native dialog, `approval_native.rs` | a child process per call | spawn, attach, click, kill | none outlives the question |
| Operator's HTTP surface, `approval_routes.rs` | none | list, approve, deny | told the truth about who won |
| Policy, `policy.rs` | the grant table | decide, record, look up | a grant covers what was consented to, no more |
| Tool gate, `server.rs` | one handler per call | admit, decide, ask, cut, re-check, act | nothing is written without live consent; the audit names who decided |
| Telegram, `telegram*.rs` | messages sent, tombstones, the update offset | send, edit, poll, claim | each message shows the final outcome; no press is lost or replayed |
| Audit, host guard, config, service, tunnel | log lines; none; YAML; plists; a child | append; match; edit; install; supervise | see 1.4 |

How they meet: `server.rs` calls `policy.rs`, then registers in `approval.rs`
and waits with a biased `select` on the disconnect, the revocation poll and the
answer. Answers come from other tasks and threads through `resolve`. The
handler re-reads the store when it is allowed. The CLI (`onebrain gateway
clients remove`, `tokens revoke`) shares only the files and `auth.lock` with a
running gateway. `oauth_routes.rs` makes several store calls per request, each
with its own hold of the lock.

### 1.2 The daemon (`daemon.rs`, `daemon_client.rs`, `server/mod.rs`)

One background process per vault keeps the search engine warm. A slot is a pid
file, a discovery record and a start lock. `daemon start` and `stop`, clients
that discover, and the daemons themselves all write and remove these by name,
from different processes, with kills at any moment and no transaction. Right
when the slot ends up naming the daemon that serves it, no start hangs, and no
lock is left.

### 1.3 The engine crates

| Crate | State | Hard behaviour |
|---|---|---|
| `onebrain-search` | an index of three stores per collection, its lock, schema version and generation | a document's writes commit store by store; a reindex, a model switch or a schema rebuild is killed mid-way |
| `onebrain-token` | a redb ledger, a memo of answers, gain events | a memo entry outlives the index it was taken from; an append during a roll-up |
| `onebrain-cache` | session tokens, checkpoint state per session | a checkpoint's number runs from 01 to 99 |
| `onebrain-fs` | the vault's notes, the plugin directory and its registry, the installed binary | multi-file moves with a rollback; a sync or an update that fails or is killed at any step |
| `onebrain-core` | configuration, schedules | text for launchd, systemd and schtasks |

### 1.4 Left out, and why

Ranking, embedding, token transforms, cron translation, YAML and Markdown
parsing, header predicates and rendering are pure functions over text or
numbers: their hazards are in the data, where table and property tests do
better than a small-scope model. `doctor`, `init`, `migrate` and `backup` are
run by one person at a terminal, one step after the other. The npm wrapper and
the release scripts are packaging. The service and tunnel supervise other
programs. Section 6 lists what has state and is not modelled.

## 2. The modules

| Module | Models | Refines | Proofs |
|---|---|---|---|
| `AuthStore` | the store's files and every locked operation | `TokenSessions`, `Exclusion` | `AuthStoreProofs` |
| `TokenSessions` | a login, with no files, lock or clock | | |
| `Authorize` | POST /authorize; EXTENDS `AuthStore` | | `AuthStoreProofs` |
| `AuthLock` | how a process gets `auth.lock` | `Exclusion` | `AuthLockProofs` |
| `Exclusion` | what `auth.lock` promises: one inside at a time, writes from inside only | | |
| `PairingGate` | the two limiters | | `PairingGateProofs` |
| `Approvals` | the registry and the native dialog | | `ApprovalsProofs` |
| `Gate` | a gated call from bearer check to write; EXTENDS `Approvals` | `Consent` | `GateProofs` |
| `Consent` | what the operator was promised | | |
| `TelegramPrompt` | one prompt's message, from its send to its last edit | | `TelegramPollProofs` |
| `TelegramPoll` | who polls for presses, and from which update on | | `TelegramPollProofs` |
| `DaemonSlot` | one slot's files, the commands and daemons | | `DaemonSlotProofs` |
| `Index` | the search index on disk, every operation that writes it, the memo | | `DiskProofs` |
| `VaultSync` | a sync of the plugin into the vaults that share a registry | | `DiskProofs` |
| `SelfUpdate` | the installed binary and the update that replaces it | | `DiskProofs` |
| `Notes` | the operations that write notes | | `DiskProofs` |

The `MC*` modules give values to constants TLC cannot take from a `.cfg`. Four of
them, `MCLocks`, `MCPresses`, `MCDisk` and `MCClocks`, also put machines that share
nothing into one run, as a disjoint sum: the variable `part` chooses at the
start which machine runs, and the others stay where they began. A sum has the
behaviours of its parts, each with its own fairness, and no others; it says
nothing of the parts at work together. In `MCAuth`, `part` chooses which actors the
one store has.
A definition whose comment starts with "Mutant" (or "mutant") is a plausible
slip in the definition below it; no specification uses it.

**AuthStore.** An operation of the code takes the lock, loads whole files,
edits its copies and writes them back by rename, one file at a time. So an
operation is one action that takes the `lock`, computes `copy[p]` and plans
`todo[p]`, the files in the order the method writes them; `Save(p)` replaces one
file on `disk`; `Return(p)` answers and lets go. `Abort(p)` can come at any point
between: it is a killed process and a failed write alike, since both leave the
remaining saves undone and free the lock. Expiry is against `now`. A secret is
256 random bits, so minting one is taking the next number. `mintedBy` and `born`
are history. `check_access` and the handlers read files without the lock, and so do
`CheckAccess` and the guards of `Authorize`.

**Authorize** adds to it where each handler's request stands. Between its two
lock-free lookups and its two locked calls anything else may happen, the
owner's removal of the client above all.

**AuthLock** is what `Acquires` in `AuthStore` abstracts, and `Exclusion` is where
the two meet: both implement it, `AuthLock` with its callers and the sidecar,
`AuthStore` with its operations and the three files. The OS lock belongs to an
open handle, which wanders: opened by the caller, moved to a helper thread that
blocks in the kernel, sent back in a channel, or dropped in one whose receiver
went. Handles are named by the attempt that opened them, which is how a
stranded helper of an earlier attempt is told from that of the current one.
The counter is raised before it is tested, so refused callers stand in it for
a moment: `Overcounted`.

**PairingGate.** A submission reads the clock (`Submit`), waits for the mutex
and is judged in one hold (`CheckPairingCode`), so its reading may be old. A
lockout starts from a second, fresh reading; the mutant `LockedSince` starts it
from the stale one. The limits live in memory: a restart of the gateway
forgets them, which the model does not include.

**Approvals** has one action per hold of a lock. An answer is taken out of
`pending`, then the dialog is withdrawn, then the decision is sent: three steps,
with other threads between them, carried by a record in `hands`. The oneshot
channel is `chan`; a call whose future is dropped is "abandoned" and leaves its
entry for the next `register` to prune.

**Gate** runs those actions inside its own. `stage` is where the handler stands,
`verdict` what its audit line will say. `Cut` is a branch of the biased select;
`AfterCut` is `outcome_on_disconnect` and `outcome_on_revoke`. Tokens and
clients of the store are reduced to who is revoked or removed, in the order
`AuthStore` proves safe (tokens first).

**DaemonSlot** has one action per file operation, system call or poll of
`run_start`, `stop_slot`, `discover` and `run_internal`. A process id is the
process and is never used again. A dead child that its start has not reaped is
still "alive" to `kill(pid, 0)`, and so it is here (`Unreaped`). The Windows stop
marker, passive discovery and the HTTP routes are left out. The races the code
has are in the model: two starts that reclaim one stale lock both spawn; a slow
daemon on its way out removes its successor's files; `stop` clears the lock of a
start in progress; a stale record is removed after it was replaced. A start
creates its lock and then writes its pid into it, and the write may fail
(`NameFails`): that start ends without a guard, and leaves a lock with no pid.

**TelegramPrompt** follows the message of each call. The send, the registration
of the message's id, the outcome, the edit and the sweep of entries past their
expiry are steps of different threads with a mutex between them; a tombstone is
the word an outcome leaves for a send that is not back yet. A send may fail, or
arrive and have its answer lost. `AskFor` and the clock decide what was timely.

**TelegramPoll** has the flag `polling`, the loop's steps (long poll, handling,
persisting the offset, the look at what still waits, the release, the second
look and the claim taken back) and what Telegram does: it hands an update out
until a higher offset confirms it. A restart loses all but the offset file and
Telegram's queue. The system may refuse the thread: the claim is given up
(`SpawnRefused`), and nobody polls until another call asks for a thread.

**Index** keeps, for each document, what each store says on disk: the entries in
the keyword index, the chunk and hashes in redb, the vector; and `draft`, what the
writer of the keyword index would commit. An add is in `draft` only, stays there
when the document fails, and goes to disk with the next commit, of whichever
document; the writer dies with its process. Each action is one durable commit of
the code, or the call that comes before it, so a kill can fall between any two.
A pass of a reindex goes through documents, and each document through a list
of `steps`, in the order the code takes them. Any step may fail: `Strand` is a
failure after the add was buffered, `UnlexFails` and `PublishFails` a commit of the
keyword index that may have taken effect or not, `StepFails` one that changes
nothing, and `GiveUp` what the pass then does. `generation` moves where the code
moves it, and `memo` is what a query stored under its key. A document is one
chunk, a text is a number, a model is its name and the width of its vectors; two
models may have one width. A switch of the model wipes the vectors (`Rebuild`),
makes the store again (`Remake`), embeds every chunk (`Reembed`) and then writes
`onebrain.yml` (`Persist`). `undone`, `stray`, `cut` and `remade` are history, each
explained where it is declared.

**VaultSync** has one action per file operation from the extracted release on,
for vaults that share `installed_plugins.json` and the plugin cache. Any step may
fail, and what the code makes of that, a failed sync or a warning, is the next
state; a kill leaves what was done. `Overlapping` lets syncs of two vaults
interleave.

**SelfUpdate** has the binary, the staged sibling, each whole or not, the file
that remembers the latest release, and `shadow`, an install earlier on the PATH.
`Serial` says that the user runs one update at a time.

**Notes** has one action per operation, but for a move, which has one per file
that it rewrites or restores. A text is the pieces written into it and the names
it links to. A revision is the file's time, and any number of writes may fall
into one tick of the clock; `SecondOf` says which ticks are of one second, which is
all that the suffix of a trash name tells apart. A PUT makes the revision
advance (`Advanced`) or, when that fails, leaves the clock's (`Stamped`); no other
write tries. A move passes over the notes it cannot read (`skipped`). `Ages` are
the vaults to begin with, by when each note was last written, `Trashed` what their
trash has. `kept` is history: the pieces that nobody who had seen them has
replaced; so are `misled`, the editors whose revision a write left standing
without having made it advance, and `forfeit`, what was lost by that or by a name
taken in the trash. The archive is this month's bucket, and what is in it is
not rewritten by a move.

## 3. What is checked

Bounds are constants, and each counter's bound is named where it is declared.

| Run | Instance | Shows |
|---|---|---|
| `auth` | the store: 2 processes, 2 clients, 2 codes, 2 pairs, clock 1..3. `Authorize`: 2 requests and a third process, 1 client and 1 pair less | all store invariants at every point between two writes; revocation is final (`NoResurrection`); the store implements `TokenSessions`; no handed-out code outlives its client's registration on disk |
| `auth_retention` | 1 process, 1 client, 1 code, 2 pairs, clock to 7 | finding 1 |
| `approvals` | 2 calls of one client, cap 1 a client, HTTP and dialog, time limit 1 | first answer stands, no dialog left behind, shutdown and every wait end |
| `gate` | 2 calls with 2 tokens of one family, ask-once | `Consent` is kept; the audit names the one who decided |
| `gate_scopes` | the same, 2 families, 2 vaults, 2 classes, 4 policies | `Consent` is kept: no grant covers another scope, and none stands under ask-always |
| `presses` | `Gate`: 1 call, with the dialog. `TelegramPoll`: 2 calls, 2 threads, 2 updates, 1 restart | a disconnect or revocation ends the wait as a refusal; one poller, no press skipped, none but the operator's obeyed |
| `locks` | `AuthLock`: 2 gateway threads (one tries twice), 1 command, 1 helper at most, both processes may die. `DaemonSlot`: 2 starts (one may be a stop), 1 client, 2 daemons, one of another version, kills of one start and one daemon | `Exclusion` is implemented, exact counter, sidecar, the lock comes free; a start lock is left by a kill or a failed write only, starts exclude each other but for a lock that was removed, the slot heals, no start hangs |
| `clocks` | `Notes`: 4 paths, 3 notes of which two link to the third, 1 in the trash, 2 editors, 2 new texts, 4 operations, 3 ticks in 2 seconds. `PairingGate`: 2 requests, caps 2, lockout 3, window 2, clock to 8. `TelegramPrompt`: 2 calls, clock to 4 | no text is lost that nobody who had seen it replaced; a move ends as it says; guesses and registrations are paced; a message shows that its call is over |
| `disk` | `Index`: 2 documents, 3 models of which two are of one width, 2 texts, 2 upsets (kills and the like; a failed write counts 2). `VaultSync`: 2 vaults, 2 releases of 3 files, 2 syncs. `SelfUpdate`: 3 versions, 2 updaters, 3 updates | a hit has its text; what is skipped is indexed; the memo moves with a reindex; a sync that ends well took effect; a pin names a whole plugin; the binary is whole and never gets older |
| `index_memo` | `Index`, 2 documents, 2 models | finding 3 |
| `daemon_ready` | 2 starts, 2 daemons, one may be killed | finding 2 |
| `trash_clobbered` | `Notes`, 1 editor, 1 new text, 3 operations | finding 4 |

**Why these sizes.** In the store a hazard needs a second process between two
writes of the first, a second pair for rotation and a second client or code to
be confused with; lifetimes of 1 and 2 under a clock of 3 let each kind of
record expire before, with and after the others. A request of `Authorize` needs a
code, a client and a removal, and races for them with another request. In the registry two calls are
enough, because calls only meet in the caps and in `deny_all`: in `approvals` the
second is refused while the first is pending and admitted once its slot is
pruned, in `gate` both are pending at once. The gate needs two calls so that the grant of
one can be used by the other, and two of every scope so that a key with a
missing part is seen. In the lock, two tries of one thread give a stranded
helper with a successor of the same thread. In the slot, three commands give a
contender for a stale lock, its rival and a third party that clears files; two
daemons are the daemon and its replacement. The pacing properties need
MaxFailures + 1 failures and one lockout between them, which clock 8 leaves room
for. Two poll threads are the one that exits and the one that replaces it. In the
index one document is worked on while the other is as the last pass left it, and
three models are an old and a new one of different widths and a pair of one
width, which the store cannot tell apart. A sync needs a second
vault for the registry they share and a second release for files that came,
stayed and went. A move with a rollback needs the note, two notes that link to
it and a free path; a lost save needs two editors and two texts. A trash name
that is taken twice needs an older note in the trash, a delete, a text written
anew and a delete in the same second: three operations, and the fourth shows what
becomes of it. A failed write of the index counts as much as two kills, so `disk`
has one failure, or two kills, and what both make together is shown by the proofs.

**The view.** `disk` tells states apart by `DiskView`. A memo reads as none when it is
of an earlier generation, of an index that is gone, or from before a store was
rebuilt (`ServedMemo`): no step makes it hit again unwatched, no guard looks at it and
`MemoFresh` does not. The document last worked on is left out once its steps are
done (`SeenEngine`). In either case such states have one future. `MCDisk` also takes
edits at the ready engine and between documents only (`ReadSoon`): a pass reads a
file once, when it takes the document, and no property looks at the files elsewhere.

**Deadlock** is left unchecked only where the system may stop: every call over,
every command done, every caller out of tries, the clock or a supply (of edits,
syncs, updates, texts) at its bound.

### Fairness

- `Approvals`: weak fairness of `Work(c)`, what the runtime's tasks and threads do
  by themselves. None for the clock, the operator, the client or the dialog's
  user. `EveryWaitEnds` therefore assumes that the clock gets to `MaxNow`;
  `ShutdownEndsAll` needs no clock.
- `Gate`: the same for `Handle` and `Around`, and for the two `Cut` branches
  separately, since the handler's task is woken by the cancellation token and
  polls the store every five seconds. No clock, so the refusal does not wait
  for the timer.
- `AuthLock`: weak fairness of the threads' steps (a critical section ends: it
  is file I/O), and strong fairness of `Granted(h)`, the kernel granting a
  blocked lock, because a queued lock request is not passed over for ever.
- `TelegramPoll`: weak fairness of each thread's own steps and of the nudge that
  a registered call gives, and strong fairness of `Fetch`: a poll that is tried
  again and again gets through. None for presses, calls, time-outs or restarts.
- A sum keeps the fairness of the parts that have liveness properties. Where
  a part begins, nothing is enabled that fairness is claimed of (for the gate it
  is claimed of the chosen part only), so a part that was not chosen owes none.
- `DaemonSlot`: a command that was begun runs on, and a daemon that serves keeps
  polling its registration. Nothing is assumed of how fast a daemon binds or
  drains, or that it ever idles out. `SlotConverges` speaks of the pid file: a
  client's removal of a live record can leave a daemon registered but not
  discoverable, which no document rules out.

## 4. What is proved

TLAPS proves these for every set of processes, calls, daemons and threads, and
every cap, lifetime and clock that satisfies the `ASSUME`s of the module
(limits are positive numbers, owner maps are functions of the right type, null
values are nobody). TLC evaluates those assumptions in the runs.

| Module | Theorems | Inductive invariant |
|---|---|---|
| `AuthStoreProofs` | `TypeCorrect`, `LiveTokensHaveClients`, `StoreWritesSerially` | `TypeOK`; `ClientInv` |
| | `RefreshIsSingleUse`, `CodesAreSpentAndLinked`, `RevocationIsFinal`, `StoreImplementsSessions` | `SessionInv`: `OneLive`, `Linked`, `Unshared`, `Evolves` |
| | `AnswersAreTrue` | `AnswerInv` |
| | `NoStrayCodes` (of `Authorize`) | `AuthorizeTypeOK`, `StageInv`, `OwnersInv` |
| `AuthLockProofs` | `LockTypeCorrect`, `LockIsHeld`, `MutualExclusion`, `LockImplementsExclusion`, `HelpersAreBounded`, `CounterIsExact`, `SidecarIsRight` | `Shape`, `Custody`, `Counted`, `HelpersBounded`, `Unsigned`, `SidecarNamesHolder` |
| `ApprovalsProofs` | `RegistryTypeCorrect`, `OneAnswerPerCall`, `NoDialogLeftBehind`, `ReturnedCallsHoldNoSlot`, `RegistryWithinCaps` | `TypeOK`, `Told`, `NoOrphanPrompt`, `Caps` |
| `DaemonSlotProofs` | `SlotTypeCorrect`, `StartDropsItsLock`, `StartsAreExclusive` | `SlotTypeOK`, `PollsEnd`, `NoLeakedLock`, `Owns`, `Unnamed` |
| `TelegramPollProofs` | `PollTypeCorrect`, `OnlyOnePoller`, `OnlyPressesAnswer` | `PollInv`: `PollTypeOK`, `FlagIsHeld`, `BatchIsReal`, `AnsweredByPress` |
| | `PromptTyping`, `OutcomeOfPromptShown`, `DrainMissesNothing` (of `TelegramPrompt`) | `PromptInv`: `PromptTypeOK`, `OutcomeOnce`, `NotYetPrompted`, `SendsEnd`, `EditsAreOfOutcomes`, `SlotsSay`, `OutcomeAwaitsSend`, `ButtonsKnown`, `SettledStays` |
| `GateProofs` | `GateTypeCorrect`, `RegistryUnderTheGate`, `AuditIsTrue` | `GateIInv`: `GateTypeOK`, `Asked`, `Grounds` |
| | `GateKeepsPromise` | `GateIInv`, `Heard` |
| `DiskProofs` | `UpdatesAreSafe`, `UpdatesGoForward` | `UInv`: `UpdateTypeOK`, `OneUpdates`, `SelfIsInstalled`, `UpdateIsSafe` |
| | `NoGhosts` | `GInv`: `IndexShape`, `Midway`, `NoGhostHits`, `NoGhostDraft` |
| | `MemosAreFresh` | `GInv`; `MemoInv`: `Positions`, `Restorable`, `Counters`, `StoredIsFresh` |
| | `IndexTyping` | both; `TypeInv`: `Past`, `OnPlan`, `StoresTyped`, `FlagsTyped` |
| | `WhatIsSkippedIsIndexed` | all three; `SkipInv`: `Claim`, `MidClaim`, `Refilled`, `Switching`, `WipedOut` |
| | `SyncTyping`, `SyncLaysOver` | `FilesInv`: `SyncTypeOK`, `FetchedIsRelease`, `CopiedIsFetched`, `LaidOver`, `ChannelSet` |
| | `SyncsTakeEffect`, `PinsNameWhole` | `FilesInv`; `PinInv`: `OneSyncs`, `PlanIsPinned`, `TornIsPlan`, `PinnedNames` |
| | `NotesTyped`, `NothingIsLost` | `KInv`: `NotesTypeOK`, `SeenUnlessMisled`, `MovedAway`, `NothingLost` |
| | `MovesTellTheTruth` | `MInv`: `NotesTypeOK`, `NothingIsNoNote`, `Progress`, `MoveTellsTheTruth` |
| `PairingGateProofs` | `LimitersTypeCorrect`, `GuessesArePaced`, `RegistrationsArePaced` | `TypeOK`, `Paced`, `Windows` |

- **LiveTokensHaveClients.** The property speaks of the files, and a crash may
  come before any save, so the invariant has to speak of the pending saves too:
  the tokens still to be saved suit the clients on disk, and the clients still
  to be saved suit the tokens that will be there by then. It is this second
  clause that the order of `remove_client` (tokens, codes, clients) buys.
- **Sessions.** tokens.json changes in three ways only: tokens are revoked or
  dropped, a pair opens a session, or a pair takes over from the refresh token it
  was rotated from (`Evolves`). Which of the three a save will be is settled when it
  is planned, under the lock, so the invariant carries it with the pending save; the
  codes of a session that is still to be saved are linked before it (`Later`), which is
  what codes.json before tokens.json buys. From there single use, the finality
  of revocation and the refinement of `TokenSessions` are lemmas about two token
  maps, with no lock, process or file in them.
- **Answers.** An answer is chosen before its files are saved; what is inductive is
  that it will be true of the files as the saves that are left will leave them
  (`FilesAfter`), and a save does not change those.
- **Stray codes.** No edit changes a code's owner (`KeepsOwners`), and by the time
  clients.json is saved the client it drops has no codes (`DropsBare`), so a code seen
  with its client at the second look-up is gone when the client is. Every step of
  `Authorize` is a step of the store or none (`AuthorizeStepsStore`).
- **The lock.** `InLockHoldsIt` alone says nothing of a handle in a helper or in a
  message. `Custody` follows it through all three hands and says whose it can
  be in each state of the caller. With it every step of `AuthLock` is one of
  `Exclusion` or none: a caller that comes in, by the fast path or by a message,
  finds nobody inside, for whoever is inside owns the lock. `AuthStore` implements
  `Exclusion` too, where the point is that `Save` asks for no lock: `ClientInv`
  has it that an operation with saves left still holds it. `Counted` equates the counter with two finite
  sets' sizes and needs the finiteness lemmas of the library.
- **One answer.** An answer is unique because `pending` lets it out once: a call
  still pending has been told nothing (`PendingUnanswered`), a call has at most
  one hand with something to send (`OneHand`), and what was acknowledged is what
  its channel holds until the wait takes it (`AckedIsSent`).
- **The gate.** Every step of `Gate` is a step of the registry, or a waiting call's
  denial of itself (`HandleIsRegistry`), so the registry's lemmas are used again
  and only that denial is new. Each answer is followed through the hands, the
  channel, the outcome and the verdict, and is backed in each by what it stands
  for: an accepted press, a closed registry, a client that is gone, a revoked
  token (`Grounds`). A verdict becomes an approval in the step that clears the
  call (`ApprovedIsCleared`), and a client goes after its tokens, as
  `LiveTokensHaveClients` has it for the store.
- **The gate implements Consent.** Under the refinement a call's fate is read off
  its stage, so most steps of the gate are none of `Consent`. What the invariant adds is
  that an approval heard was acknowledged first and that a call in the checks has
  heard one (`Heard`): a yes may be said, and then taken back, but never assumed.
- **One poller.** Reading is a thread's being anywhere between the claim and
  its release: a thread that reads has the flag up and is the only one
  (`FlagIsHeld`). The claim taken back after the second look goes through the same
  compare-and-swap, so the invariant does not care which thread wins.
- **Presses.** An answer goes back to a batch, a batch to the inbox, and the
  inbox only grows, so a restart that loses thread and batch loses no ground.
- **Prompts.** The outcome of a call and the answer to its send may come in either
  order, and each looks for the other in `sent`. What is inductive is that an
  outcome with nothing to edit stays there as a tombstone for as long as the send
  can last (`SendsEnd`, `OutcomeAwaitsSend`), so that one of the two edits. That a
  tombstone outlives a send is the assumption `TombstonesOutliveSends`; the
  code has 120 seconds against the HTTP client's 40. A thread counts as busy
  until its edit ends, so a drain that counts none has missed none (`SettledStays`).
- **No ghosts.** The property is about what is on disk; what is inductive is also
  about the writer of the keyword index, which may commit at the next document what
  it was given for this one: its draft obeys the same bound, but for the document
  being added (`NoGhostDraft`). The rest is the position in the list of steps
  (`Midway`): from "forget" to "publish" a document that is not `stray` has no entry, at
  "publish" redb knows it, and a list for a document with no text never records.
  `InOrder` says which step may follow which, so the tail of a list is again one,
  with nothing said of how long it is.
- **The memo.** A pass moves the generation before its first change to a store,
  and no query runs until the pass is over, so what is stored under the present
  generation is what the index gives now, unless a store was rebuilt
  (`StoredIsFresh`). Nothing is stored under a generation or an id still to come
  (`Counters`), so an index made again, which counts from the start under a new id,
  is not taken for the old one. An index without chunks has no entries left to
  lose, which is `NoGhostHits` again: a pass over it may end with its generation unmoved.
- **What is skipped.** A hash is written when the document is in the stores it
  stands for: `FullClaim` and `LexClaim` say what a hash claims, of the hash and not of
  the file, so an edit, or one that is undone, changes nothing in them. `Claim` has
  both of a document between passes, with nothing of it left in the writer's draft, and
  `MidClaim` says what the document a pass is at may count on: the steps that are
  left are the tail of one list, and which of them are left says which stores have
  the new text. A pass that fails or is cut short at a document puts it in `cut`. Of a
  switch, `Switching` says that what is not to be embedded any more has a vector by
  the new model and that `undone` is up; of an upgrade, `Refilled` that the keyword
  index is whole when the marker goes; of `--force`, `WipedOut` which stores are
  empty by then.
- **Syncs.** The vault's copy has every file that is no longer to be copied, by
  the release it was fetched from (`CopiedIsFetched`), and syncs of other vaults
  do not write there: that half is proved for any number of them at once
  (`SyncLaysOver`). The pin reads the registry and writes it later, whole; that
  what it writes is then what it would read (`PlanIsPinned`) needs syncs one at a
  time (`~Overlapping`), without which the other half is false (section 5). A release
  is taken to ship the file that names its version, and a foreign path
  to be no vault of the registry (`ManifestShipped`, `ElsewhereIsNoVault`).
- **Updates** are proved for a user who runs one at a time (`Serial`). The
  updater that runs was started from the installed binary and goes for a newer
  one, and the staged file is its own and whole when it is renamed
  (`SelfIsInstalled`); both are false of two at once, as section 5 says.
- **Nothing lost.** `If-Match` compares times. An editor that no write has misled holds
  a revision that is no later than that of the note at its path, and has seen the
  text if the two are one (`SeenUnlessMisled`): a write that makes the revision
  advance passes everyone by, and any other makes those it does not pass by
  misled. So what a save replaces is what its editor had loaded, or is in `forfeit`. The rest
  is that a move or an archive writes to a place with nothing in it (`MovedAway`), and
  that what a delete replaces in the trash is in `forfeit`. Nothing is assumed of the
  clock.
- **Moves.** While a move runs, every note reads as before it or as rewritten, and
  which of the two is known from `done`, `todo` and `unrestored` (`Progress`). What is
  to be written is fixed by what was read at the start, without the notes that
  could not be (`PlanOf`).
- **Guesses.** The failures counted now are the last ones of the record, and
  right before them lies a gap of a lockout (`LastLockout`): at the cap the
  record is MaxFailures + 1 long, so the gap is inside. A reading on arrival
  that is past the lock is past it at the comparison, as the clock only rises.
- **Registrations.** Of any MaxAdmitted admissions in a row, one opened a window,
  and every window but the open one was over before anything a cap's worth
  later was admitted (`Windows`). Two caps' worth hold a whole window.

Every invariant, action property and refinement of a passing run is proved. Only
model-checked are the liveness properties (`ShutdownEndsAll`, `EveryWaitEnds`,
`CutsRefuse`, `EveryPressIsHeard`, `LockComesFree`, `SlotConverges`, `StartNeverHangs`):
they need fairness, whose proof rules speak of ENABLED. The sums of machines
are for TLC; each theorem is of one machine's specification. A module's type
invariant (`...TypeOK`) is proved in each case and is no run's property.

## 5. Where the code and its words disagree

1. `auth_retention`, property `CodeOutlivesFamily`. The doc of `purge_expired`
   (`store.rs:1166-1168`) says a spent code is kept long enough to outlive every
   token its family could still be rotating. Each rotation gives the new refresh
   token a full lifetime of its own, and the code is kept one lifetime past its
   own expiry (`store.rs:1195`), so a family that keeps rotating outlives it, and
   a replay of the code after that is answered as an unknown code.
2. `daemon_ready`, property `StartedMeansUp`. `run_start`'s comment
   (`daemon.rs:1079-1080`) says it waits, holding the lock, until the daemon has
   published its record after binding. The wait (`daemon.rs:1168`) only asks
   whether a record exists; one that a killed daemon left answers at once, and
   the start reports ready and drops its lock while its daemon has yet to bind.
3. `index_memo`, property `NeverStale`. The memo of query answers is keyed by
   the index's generation, and a stale hit is called "the one outcome the memo
   layer must make impossible" (`engine.rs:2202-2203`). A rebuild of the keyword
   index (`engine.rs:1107`) and a switch of the embedding model (`engine.rs:1289`)
   change answers and leave the generation as it is, and the model is not in the
   key. `MemoFresh` is what does hold: no stale hit but after such a rebuild.
4. `trash_clobbered`, property `TrashKeeps`. `note/delete.rs:2-3` says that no trashed
   note is ever clobbered. The suffix is the second, and is not checked
   (`delete.rs:56`): with an older note of that path in the trash, a note that is
   deleted, written again and deleted again within one second is lost.

Seen while modelling, with no run of their own:

- `search_model.rs:493-499` says a failed switch never leaves `onebrain.yml` at a
  model whose index cannot open. The vectors are made again at the new width
  before the first document is embedded (`engine.rs:1312-1333`): after a kill there,
  the old model cannot open them. In `Index` that is `Open` disabled by `width`.
  When the two models are of one width, or the kill comes before the store is made
  again, the old model opens over vectors that are gone or the other model's, while
  `DOC_HASHES` calls the documents current, so no incremental pass embeds them
  again. `undone` names that in `SkippedIsIndexed`, until a switch or `--force` ends it.
- A pass that fails on, or is killed at, a document it has taken out of the
  keyword index may leave a hash that says the document is current; a later
  keyword pass then skips it. `cut` names these documents in `SkippedIsIndexed`.
- A failure between the writer's add and the commit of engine.redb
  (`engine.rs:1646-1668`) is swallowed by `reindex_all` (`engine.rs:2597-2602`), and the
  next document's commit publishes the entry: one more, or one without a `DOC_CHUNKS`
  row, which `remove_doc` cannot find. `stray` names these documents in `NoGhostHits`; it
  lasts until the document is recorded and taken out again, or the keyword index is
  made again. `engine.rs:1062-1068` says that orphans do surface on the keyword-only
  paths, and gives as their usual source a crash between the commits of `remove_doc`,
  which the order of the commits now rules out; this is a source that is left.
- A keyword pass takes the vector of a document away with its old text. If the edit
  is then undone, `DOC_HASHES` calls the document current again and a full pass skips
  it, though it has no vector; the doc of `reindex_existing_doc` says it is reported
  as pending until a full pass runs. `SkippedIsIndexed` asks for the vector only when
  there is no keyword hash of its own (`lexHash[d] = 0`).
- `search_reindex.rs:127-134` wipes the index for `--force` before it takes the
  collection's lock.
- A prompt whose outcome comes after its expiry was swept keeps its buttons
  (`docs/gateway.md:166` says every prompt is edited): `TimelyOutcomeShown` is
  about the others.
- `orchestrate.rs:191-194` says that after a failed pin Claude Code keeps using its
  current copy of the plugin; the cache that holds it is then emptied
  (`cache_clean.rs:22-25`). Two syncs at once (`Overlapping`) break
  `SyncTakesEffect`: both claim to have written what one of them left.
- Two updates at once (`Serial = FALSE`) break `NeverOlder`: they stage into one
  sibling and the slower one wins.
- `note/io.rs:14-15` says a failed write leaves no stray `.tmp`; a failed
  `fs::write` leaves one, and two writers of one path share it.
- Only the PUT route sees to it that a note's revision advances, and when that fails
  it logs a warning and answers 200 with the old one (`api.rs:915-917`); append, move,
  `note edit` and `note new --force` do not try. A save within the same tick of the
  file system's clock then replaces what its editor has not seen: `misled` and
  `forfeit` name what `NothingLost` does not promise. `read_vault_file` reads the text
  before it reads the time, so a save in between pairs the old text with the new
  revision; `Load` reads both at once, as operations do not overlap in `Notes`.
- A move reports the notes it could not read as skipped and keeps going
  (`move.rs:163-168`); their links then name nothing.
- A start whose write of its pid into the lock fails (`daemon.rs:688-689`) ends without a
  guard: the empty lock reads as unknown (`daemon.rs:578-606`) and turns every later
  start away until `daemon stop` clears it. `NoLeakedLock` names that case.
- The drop of `auth.lock`'s guard ignores an error of the sidecar's removal
  (`store.rs:1468`), and the drop of the start lock's guard one of the unlink. The models take
  both removals to succeed; after a failure the sidecar names a process that has let
  go, and the start lock waits for its creator to be found dead.
- A Telegram edit that fails is logged and not tried again, and a send whose answer
  is lost leaves a message nobody can edit. `docs/gateway.md:166` speaks of neither;
  `TimelyOutcomeShown` leaves out the second, and the model the first.
- When the system refuses the poll thread, the claim is given up and the call that
  asked stays unpolled until a later one asks (`telegram.rs:934-944`).
  `EveryPressIsHeard` excepts that time (`refused`).
- A move that is killed leaves links that name nothing, and running it again is
  refused, for its source is gone.

## 6. Plan and what is not modelled

Order follows what matters most to a user: consent and credentials first, then
the processes that share files, then the file operations of one process.

| Step | Module | Question | Status |
|---|---|---|---|
| 1 | `AuthStore`, `TokenSessions` | credentials survive crashes | checked and proved |
| 2 | `Approvals`, `Gate`, `Consent` | nothing without consent | checked; safety and the refinement proved |
| 3 | `AuthLock`, `Exclusion` | the lock under time-outs | checked; safety and the refinement proved |
| 4 | `PairingGate`, `Authorize` | limits and the authorize race | checked; safety proved |
| 5 | `DaemonSlot` | the slot heals | checked; safety proved |
| 6 | `TelegramPrompt`, `TelegramPoll` | outcome before the message is sent; presses handed out again; one poller | checked; safety proved |
| 7 | `Index` | three stores, any commit the last; the memo | checked; safety proved |
| 8 | `VaultSync` | files, registry and pin with a failure between any two | checked; proved for syncs one at a time, the files for any |
| 9 | `SelfUpdate` | the binary is never missing, never older | checked and proved |
| 10 | `Notes` | no text lost, a move tells the truth | checked and proved |

Still worth having: an abstract specification of the index (what a search may
show, by document) that `Index` implements, and of the slot, one daemon or none.

Not modelled, though it has state:

- **The collection lock** (`holder.rs`): the daemon lets go of the index for a
  command and takes it back. `Index` has one process with the engine at a time,
  which is what that lock is for; the hand-over itself is the next module worth
  writing. A client's request that is sent again after the daemon vanished
  (`daemon_client.rs:930`) belongs to it.
- **The token ledger**: gain events appended while they are rolled up, and the
  eviction of memo entries. Both are single redb transactions or single
  appends; what could go wrong lies in the file system's append.
- **Checkpoints**: the hooks of one session run one after the other, over files
  of that session's own; a number from 01 to 99 that becomes 100 is a matter for
  a unit test.
- **Host guard, access rules, audit sink, configuration edits**: one predicate
  per request, one line per event, one file by one person.
- **Inside a document**: `Index` has one chunk to a document, so a failure between two
  chunks of one is that of the first or none of it; a file that cannot be read is a
  document that fails before its first change.
- **Two note operations at once** in the daemon, which the code accepts
  (`api.rs:813`); folders and uploads; a vault that is synced between devices by
  another program.
- **Windows**: the stop marker of the daemon, and the self-update, which ends
  before it touches a file there.

By lines, most of this repository is the text work of section 1.4, its command
lines and its in-file tests, which no module here stands for: the share of the lines
with a definition of their own is small and will stay so. By state, each file
that two processes write, and each one a user would miss, has a module, but
for the list above.
