------------------------------ MODULE DaemonSlot ------------------------------
(***************************************************************************)
(* One vault's daemon slot (commands/daemon.rs, commands/daemon_client.rs): *)
(* the pid file, the discovery record (json) and the start lock that        *)
(* `daemon start`, `daemon stop`, the daemon itself and the clients that    *)
(* look for it read, write and remove with no transaction between them.     *)
(*                                                                          *)
(* A command is one process that runs once.  A process id is never used     *)
(* again, and is the process itself: a file "names" the process in it.      *)
(***************************************************************************)
EXTENDS Naturals

CONSTANTS Command,   \* the processes that run `start`, `stop` or look for the daemon
          Verbs,     \* what each of them may be asked to do
          Daemon,    \* the `daemon __run` processes
          Skewed,    \* those of another version than the clients
          MayDie,    \* the processes that may be killed outright
          Misses     \* DEREGISTERED_MISSES

ASSUME VerbsType == Verbs \in [Command -> SUBSET {"start", "stop", "discover"}]
ASSUME ClientsDiscover == \A c \in Command : "discover" \in Verbs[c] => Verbs[c] = {"discover"}
ASSUME SkewedType == Skewed \subseteq Daemon
ASSUME MissesPositive == Misses \in Nat \ {0}

Absent == "absent"

ASSUME AbsentIsNobody == Absent \notin Command \union Daemon

\* No lock file.
Unlocked == [by |-> Absent, named |-> FALSE]

VARIABLES
  lock,    \* the start lock: the command that made it and whether it wrote its pid
  pid,     \* the daemon the pid file names
  json,    \* the daemon the discovery record names
  pc,      \* where each command is
  target,  \* the daemon each command has spawned, is stopping or has read of
  daemon,  \* where each daemon is
  missed,  \* the polls in a row that did not find a daemon's own pid in the file
  robbed   \* history: the starts whose lock another command removed under them

slotVars == <<lock, pid, json, pc, target, daemon, missed, robbed>>

\* The commands between winning the start lock and dropping its guard.
InStart == {"naming", "recheck", "spawn", "note", "wait", "up", "slow", "drop"}

SlotTypeOK ==
  /\ lock \in [by : Command, named : BOOLEAN] \union {Unlocked}
  /\ pid \in Daemon \union {Absent}
  /\ json \in Daemon \union {Absent}
  /\ pc \in [Command -> InStart \union
               {"idle", "lock", "owner", "reclaim", "relock", "signal", "grace", "clear1", "clear2",
                "clear3", "probe", "dropjson", "done", "failed", "killed"}]
  /\ target \in [Command -> Daemon \union {Absent}]
  /\ daemon \in [Daemon -> {"unborn", "spawned", "named", "bound", "serving", "signalled",
                            "draining", "leaving", "dead"}]
  /\ missed \in [Daemon -> 0..Misses]
  /\ robbed \subseteq Command

SlotInit ==
  /\ lock = Unlocked
  /\ pid = Absent
  /\ json = Absent
  /\ pc = [c \in Command |-> "idle"]
  /\ target = [c \in Command |-> Absent]
  /\ daemon = [d \in Daemon |-> "unborn"]
  /\ missed = [d \in Daemon |-> 0]
  /\ robbed = {}

\* A daemon that ended stays a zombie until the start that spawned it reaps it
\* or ends.
Unreaped(d) == \E c \in Command : target[c] = d /\ pc[c] \in {"note", "wait", "up", "slow"}

\* is_alive: a session leader of that pid exists, be it a zombie.
Alive(d) == daemon[d] # "unborn" /\ (daemon[d] = "dead" => Unreaped(d))

\* compute_status: the pid file names a daemon that is alive.
Running == pid # Absent /\ Alive(pid)

Goto(c, from, to) == pc[c] = from /\ pc' = [pc EXCEPT ![c] = to]
Turn(d, from, to) == daemon[d] = from /\ daemon' = [daemon EXCEPT ![d] = to]

\* The lock file is removed by its name, whoever's it is by now.
RemoveLock(c) ==
  /\ lock' = Unlocked
  /\ robbed' = robbed \union {e \in Command \ {c} : lock.by = e /\ pc[e] \in InStart}

-----------------------------------------------------------------------------
(* daemon start: run_start *)

Start(c) ==
  /\ "start" \in Verbs[c]
  /\ Goto(c, "idle", IF Running THEN "done" ELSE "lock")
  /\ UNCHANGED <<lock, pid, json, target, daemon, missed, robbed>>

\* Mutant: the create opens a file that is there already.
Creates == TRUE

\* O_EXCL
Creatable == lock = Unlocked

\* create_lock, first step.
Create(c, from, otherwise) ==
  /\ IF Creatable
     THEN Goto(c, from, "naming") /\ lock' = [by |-> c, named |-> FALSE]
     ELSE Goto(c, from, otherwise) /\ UNCHANGED lock
  /\ UNCHANGED <<pid, json, target, daemon, missed, robbed>>

\* create_lock, second step: the pid goes into the open file, which may have
\* lost its name since.
NameLock(c) ==
  /\ Goto(c, "naming", "recheck")
  /\ lock' = IF lock.by = c THEN [lock EXCEPT !.named = TRUE] ELSE lock
  /\ UNCHANGED <<pid, json, target, daemon, missed, robbed>>

\* The write may fail: the start ends with that error, without a guard, and
\* leaves the lock as it is.
NameFails(c) ==
  /\ Goto(c, "naming", "failed")
  /\ UNCHANGED <<lock, pid, json, target, daemon, missed, robbed>>

\* lock_owner_state: only a lock whose pid can be read and is of a dead
\* process is stale.
Stale == lock.named /\ pc[lock.by] \in {"done", "failed", "killed"}

ReadOwner(c) ==
  /\ Goto(c, "owner", IF Stale THEN "reclaim" ELSE "done")
  /\ UNCHANGED <<lock, pid, json, target, daemon, missed, robbed>>

\* remove_pid_lock_stale
Reclaim(c) ==
  /\ Goto(c, "reclaim", "relock")
  /\ RemoveLock(c)
  /\ UNCHANGED <<pid, json, target, daemon, missed>>

Recheck(c) ==
  /\ Goto(c, "recheck", IF Running THEN "drop" ELSE "spawn")
  /\ UNCHANGED <<lock, pid, json, target, daemon, missed, robbed>>

\* spawn_detached_run: the child is a session leader when spawn returns.
Spawn(c) ==
  /\ \/ \E d \in Daemon :
          /\ Goto(c, "spawn", "note") /\ target' = [target EXCEPT ![c] = d]
          /\ Turn(d, "unborn", "spawned")
     \/ Goto(c, "spawn", "drop") /\ UNCHANGED <<target, daemon>>
  /\ UNCHANGED <<lock, pid, json, missed, robbed>>

\* write_pid; where it fails the start ends under its guard, and the child runs.
Note(c) ==
  /\ \/ Goto(c, "note", "wait") /\ pid' = target[c]
     \/ Goto(c, "note", "drop") /\ UNCHANGED pid
  /\ UNCHANGED <<lock, json, target, daemon, missed, robbed>>

\* wait_until_ready: the child alive and a discovery record there.
Ready(c) ==
  /\ Goto(c, "wait", "up")
  /\ Alive(target[c]) /\ json # Absent
  /\ UNCHANGED <<lock, pid, json, target, daemon, missed, robbed>>

\* child_has_exited reaps it; the record was looked for a moment before.
Died(c) ==
  /\ Goto(c, "wait", "drop")
  /\ daemon[target[c]] = "dead"
  /\ UNCHANGED <<lock, pid, json, target, daemon, missed, robbed>>

\* Mutant: the wait is not bounded.
WaitsOn(c) ==
  Goto(c, "wait", "wait") /\ UNCHANGED <<lock, pid, json, target, daemon, missed, robbed>>

\* Five seconds have passed, at a moment of which only the order is modelled.
Slow(c) ==
  /\ Goto(c, "wait", "slow")
  /\ daemon[target[c]] # "dead"
  /\ UNCHANGED <<lock, pid, json, target, daemon, missed, robbed>>

\* Mutant: a start that found the daemon dead keeps its guard.
KeepGuard(c) ==
  /\ \E from \in {"up", "slow", "drop"} : Goto(c, from, "done")
  /\ IF pc[c] = "drop" THEN UNCHANGED <<lock, robbed>> ELSE RemoveLock(c)
  /\ UNCHANGED <<pid, json, target, daemon, missed>>

\* StartGuard::drop
DropGuard(c) ==
  /\ \E from \in {"up", "slow", "drop"} : Goto(c, from, "done")
  /\ RemoveLock(c)
  /\ UNCHANGED <<pid, json, target, daemon, missed>>

-----------------------------------------------------------------------------
(* daemon stop: stop_slot *)

StopFrom(c, from) ==
  /\ IF Running
     THEN Goto(c, from, "signal") /\ target' = [target EXCEPT ![c] = pid]
     ELSE Goto(c, from, "clear1") /\ UNCHANGED target
  /\ UNCHANGED <<lock, pid, json, daemon, missed, robbed>>

Stop(c) == "stop" \in Verbs[c] /\ StopFrom(c, "idle")

\* SIGTERM ends a daemon that has no handler yet, and asks one that has.
Signal(c) ==
  /\ Goto(c, "signal", "grace")
  /\ daemon' = [daemon EXCEPT ![target[c]] =
                  CASE @ \in {"spawned", "named", "bound"} -> "dead"
                    [] @ = "serving" -> "signalled"
                    [] OTHER -> @]
  /\ UNCHANGED <<lock, pid, json, target, missed, robbed>>

\* The daemon is gone, or two seconds have passed.
GraceOver(c) ==
  /\ Goto(c, "grace", "clear1")
  /\ UNCHANGED <<lock, pid, json, target, daemon, missed, robbed>>

\* clear_slot_files, and the record once more after a version skew.
Clear(c) ==
  /\ \/ Goto(c, "clear1", "clear2") /\ pid' = Absent /\ UNCHANGED <<json, lock, robbed>>
     \/ Goto(c, "clear2", "clear3") /\ json' = Absent /\ UNCHANGED <<pid, lock, robbed>>
     \/ \E next \in {"done", "dropjson"} :
          /\ Goto(c, "clear3", next) /\ RemoveLock(c) /\ UNCHANGED <<pid, json>>
          /\ next = "dropjson" <=> "discover" \in Verbs[c]
  /\ UNCHANGED <<target, daemon, missed>>

-----------------------------------------------------------------------------
(* A client that looks for the daemon: discover *)

Discover(c) ==
  /\ "discover" \in Verbs[c]
  /\ IF json = Absent
     THEN Goto(c, "idle", "done") /\ UNCHANGED target
     ELSE Goto(c, "idle", "probe") /\ target' = [target EXCEPT ![c] = json]
  /\ UNCHANGED <<lock, pid, json, daemon, missed, robbed>>

\* It answers its clients from the bind until it drains.
Answers(d) == daemon[d] \in {"bound", "serving", "signalled"}

\* A record of another version stops the slot; a daemon that does not answer
\* in time is taken for dead.
Probe(c) ==
  /\ pc[c] = "probe"
  /\ \/ target[c] \in Skewed /\ StopFrom(c, "probe")
     \/ /\ target[c] \notin Skewed
        /\ \/ Answers(target[c]) /\ Goto(c, "probe", "done")
           \/ Goto(c, "probe", "dropjson")
        /\ UNCHANGED <<lock, pid, json, target, daemon, missed, robbed>>

\* DaemonInfo::remove removes the file by name.
DropJson(c) ==
  /\ Goto(c, "dropjson", "done")
  /\ json' = Absent
  /\ UNCHANGED <<lock, pid, target, daemon, missed, robbed>>

-----------------------------------------------------------------------------
(* The daemon: run_internal *)

WritePid(d) ==
  /\ Turn(d, "spawned", "named")
  /\ pid' = d
  /\ UNCHANGED <<lock, json, pc, target, missed, robbed>>

\* on_bind publishes the record; a write that fails is only logged.
Bind(d) ==
  /\ Turn(d, "named", "bound")
  /\ json' \in {d, json}
  /\ UNCHANGED <<lock, pid, pc, target, missed, robbed>>

BindFails(d) ==
  /\ Turn(d, "named", "draining")
  /\ UNCHANGED <<lock, pid, json, pc, target, missed, robbed>>

\* The server starts, and with it the handler, the idle timer and the polls.
Serve(d) ==
  /\ Turn(d, "bound", "serving")
  /\ UNCHANGED <<lock, pid, json, pc, target, missed, robbed>>

\* Mutant: any pid in the file will do.
AnyRegistration(d) == pid # Absent

Registered(d) == pid = d

Enough(n) == n >= Misses

\* deregistered_shutdown_every: one poll.
Poll(d) ==
  /\ daemon[d] = "serving"
  /\ missed' = [missed EXCEPT ![d] = IF Registered(d) THEN 0 ELSE @ + 1]
  /\ daemon' = [daemon EXCEPT ![d] = IF Enough(missed'[d]) THEN "draining" ELSE @]
  /\ UNCHANGED <<lock, pid, json, pc, target, robbed>>

IdleOut(d) ==
  /\ Turn(d, "serving", "draining")
  /\ UNCHANGED <<lock, pid, json, pc, target, missed, robbed>>

Terminated(d) ==
  /\ Turn(d, "signalled", "draining")
  /\ UNCHANGED <<lock, pid, json, pc, target, missed, robbed>>

\* The way out, once the requests in flight are done: the pid file and then
\* the record are removed by name.
RemovePid(d) ==
  /\ Turn(d, "draining", "leaving")
  /\ pid' = Absent
  /\ UNCHANGED <<lock, json, pc, target, missed, robbed>>

Leave(d) ==
  /\ Turn(d, "leaving", "dead")
  /\ json' = Absent
  /\ UNCHANGED <<lock, pid, pc, target, missed, robbed>>

\* SIGKILL, a power cut of the process: the files stay as they are.
KillCommand(c) ==
  /\ c \in MayDie /\ pc[c] \notin {"idle", "done", "failed", "killed"}
  /\ pc' = [pc EXCEPT ![c] = "killed"]
  /\ UNCHANGED <<lock, pid, json, target, daemon, missed, robbed>>

KillDaemon(d) ==
  /\ d \in MayDie /\ Alive(d)
  /\ daemon' = [daemon EXCEPT ![d] = "dead"]
  /\ UNCHANGED <<lock, pid, json, pc, target, missed, robbed>>

-----------------------------------------------------------------------------

RunStart(c) ==
  \/ Create(c, "lock", "owner") \/ NameLock(c) \/ NameFails(c) \/ ReadOwner(c) \/ Reclaim(c)
  \/ Create(c, "relock", "done") \/ Recheck(c) \/ Spawn(c) \/ Note(c)
  \/ Ready(c) \/ Died(c) \/ Slow(c) \/ DropGuard(c)

Begin(c) == Start(c) \/ Stop(c) \/ Discover(c)
RunOther(c) == Signal(c) \/ GraceOver(c) \/ Clear(c) \/ Probe(c) \/ DropJson(c)

Run(d) ==
  \/ WritePid(d) \/ Bind(d) \/ BindFails(d) \/ Serve(d) \/ IdleOut(d) \/ Terminated(d)
  \/ RemovePid(d) \/ Leave(d)

SlotNext ==
  \/ \E c \in Command : Begin(c) \/ RunStart(c) \/ RunOther(c) \/ KillCommand(c)
  \/ \E d \in Daemon : Run(d) \/ Poll(d) \/ KillDaemon(d)

\* Commands that were begun run on, and a daemon that serves polls.  Nothing
\* is assumed of how fast a daemon comes up or drains, or that one idles out.
SlotFairness ==
  /\ \A c \in Command : WF_slotVars(RunStart(c)) /\ WF_slotVars(RunOther(c))
  /\ \A d \in Daemon : WF_slotVars(Poll(d))

SlotSpec == SlotInit /\ [][SlotNext]_slotVars /\ SlotFairness

-----------------------------------------------------------------------------
(* Properties *)

\* A start lock left behind is that of a start that was killed, or that could
\* not write its pid into it: then it has no name, and no start will ever take
\* it for stale.  One that ends in any other way, its daemon up, slow, dead or
\* never spawned, has dropped its guard.
NoLeakedLock ==
  lock # Unlocked =>
    \/ pc[lock.by] \in InStart \union {"killed"}
    \/ pc[lock.by] = "failed" /\ ~lock.named

\* Two starts are past the lock together only after it was removed under one of
\* them: by a stop, or by a start that took it for a dead one's or had itself
\* been robbed of its own.
StartsExclude ==
  \A c, e \in Command : pc[c] \in InStart /\ pc[e] \in InStart /\ c # e =>
    c \in robbed \/ e \in robbed

\* However starts, stops, kills and the daemons' own exits interleave, and
\* whoever's files they remove, in the end no daemon serves that the pid file
\* does not name: at most one holds the slot, and `daemon stop` can find it.
SlotConverges == <>[](\A d \in Daemon : daemon[d] = "serving" => pid = d)

\* `daemon start` ends though the daemon it spawned never comes up: each
\* command runs once, and no start is under way for ever.
StartNeverHangs == []<>(\A c \in Command : pc[c] \notin InStart)

\* "until the daemon is fully up (it has published its json after binding)":
\* a start that calls its daemon ready has waited for that daemon to bind.
StartedMeansUp ==
  [][\A c \in Command : Goto(c, "wait", "up") =>
       daemon[target[c]] \notin {"spawned", "named"}]_slotVars
=============================================================================
