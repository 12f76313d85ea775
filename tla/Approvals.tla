------------------------------ MODULE Approvals ------------------------------
(***************************************************************************)
(* The registry of tool calls that wait for a human (gateway/approval.rs)  *)
(* and the native dialog that may answer them (gateway/approval_native.rs).*)
(* A call registers, waits up to its time limit, and is answered by the    *)
(* first of: the operator's HTTP surface or Telegram, the native dialog,   *)
(* shutdown, or (in module Gate) the waiting call itself.                  *)
(*                                                                         *)
(* Every step is what the code does under one lock or between two of them: *)
(* an answer is first TAKEN out of `pending`, then the call's dialog is    *)
(* withdrawn, then the decision is sent; other threads run in between.     *)
(***************************************************************************)
EXTENDS Integers, FiniteSets, Functions

CONSTANTS Call, Client,
          ClientOf,       \* the client that makes each call
          MaxPending,     \* MAX_PENDING_APPROVALS
          MaxPerClient,   \* MAX_PENDING_APPROVALS_PER_CLIENT
          Wait,           \* approval_wait_seconds
          Channel,        \* the remote channels switched on, of "http" and "telegram"
          Native,         \* whether approval_native::is_available()
          MaxNow          \* bound of the exploration: the last clock reading

ASSUME ClientOfType == ClientOf \in [Call -> Client]
ASSUME CapsPositive == MaxPending \in Nat \ {0} /\ MaxPerClient \in Nat \ {0}
ASSUME WaitNat == Wait \in Nat
ASSUME ChannelType == Channel \subseteq {"http", "telegram"}

VARIABLES
  now,       \* the clock, in coarse seconds
  call,      \* where each call's wait stands
  pending,   \* the registry: PendingApproval.expires of each pending call
  timer,     \* the running timers of the waits: when each runs out
  chan,      \* what the oneshot channel of each call holds
  hands,     \* answers taken out of `pending` and not sent yet
  prompts,   \* the calls with an entry in `prompts`
  dialog,    \* the native dialog of each call
  closed,    \* set by deny_all
  outcome,   \* the WaitOutcome (or the refusal to register) of each call
  acked      \* history: the answers `resolve` reported as delivered

vars == <<now, call, pending, timer, chan, hands, prompts, dialog,
          closed, outcome, acked>>

Decision == {"approve", "deny"}
Via == {"http", "telegram", "native", "shutdown", "disconnect", "revoked", "unverified"}
Answer == [d : Decision, via : Via]
Silent == [d |-> "none", via |-> "silent"]     \* nothing sent yet
Dropped == [d |-> "none", via |-> "dropped"]   \* the sender went without sending
TimedOut == [d |-> "none", via |-> "timeout"]
AtCapacity == [d |-> "deny", via |-> "capacity"]
ShutDown == [d |-> "deny", via |-> "shutdown"]
Undecided == [d |-> "none", via |-> "none"]

\* An answer in some thread's hands: first the dialog goes, then the decision.
Hand == [call : Call, step : {"withdraw", "send"}, answer : Answer]
\* Expired entries leave a withdrawal behind, and nothing to send.
Withdrawal == [call : Call, step : {"withdraw"}, answer : {TimedOut}]

TypeOK ==
  /\ now \in Nat
  /\ call \in [Call -> {"new", "registered", "waiting", "elapsed", "cleaning",
                        "abandoned", "over"}]
  /\ DOMAIN pending \subseteq Call /\ Range(pending) \subseteq Nat
  /\ DOMAIN timer \subseteq Call /\ Range(timer) \subseteq Nat
  /\ chan \in [Call -> Answer \union {Silent, Dropped}]
  /\ hands \subseteq Hand \union Withdrawal
  /\ prompts \subseteq Call
  /\ dialog \in [Call -> {"off", "starting", "up", "approve", "deny", "gone"}]
  /\ closed \in BOOLEAN
  /\ outcome \in [Call -> Answer \union {TimedOut, AtCapacity, Undecided}]
  /\ acked \subseteq [call : Call, answer : Answer]

Init ==
  /\ now = 0
  /\ call = [c \in Call |-> "new"]
  /\ pending = <<>>
  /\ timer = <<>>
  /\ chan = [c \in Call |-> Silent]
  /\ hands = {}
  /\ prompts = {}
  /\ dialog = [c \in Call |-> "off"]
  /\ closed = FALSE
  /\ outcome = [c \in Call |-> Undecided]
  /\ acked = {}

-----------------------------------------------------------------------------
(* Registering *)

Pending == DOMAIN pending

\* What `register` leaves in place: the entries that have not expired.
Live == {p \in Pending : pending[p] > now}

\* The refusal of `register`, counted over the entries that are left.
Full(c, left) ==
  \/ Cardinality(left) >= MaxPending
  \/ Cardinality({p \in left : ClientOf[p] = ClientOf[c]}) >= MaxPerClient

RegisterShut(c) ==
  /\ call[c] = "new" /\ closed
  /\ call' = [call EXCEPT ![c] = "over"]
  /\ outcome' = [outcome EXCEPT ![c] = ShutDown]
  /\ UNCHANGED <<now, pending, timer, chan, hands, prompts, dialog, closed, acked>>

\* What every `register` does before it looks at the caps: drop the expired
\* entries, and with them their senders; their dialogs follow.
Prune ==
  LET expired == Pending \ Live
  IN  /\ chan' = [c \in Call |-> IF c \in expired THEN Dropped ELSE chan[c]]
      /\ hands' = hands \union
                  {[call |-> p, step |-> "withdraw", answer |-> TimedOut] : p \in expired}

RegisterRefused(c) ==
  /\ call[c] = "new" /\ ~closed
  /\ Full(c, Live)
  /\ Prune
  /\ pending' = Restrict(pending, Live)
  /\ call' = [call EXCEPT ![c] = "over"]
  /\ outcome' = [outcome EXCEPT ![c] = AtCapacity]
  /\ UNCHANGED <<now, timer, prompts, dialog, closed, acked>>

\* Mutant: the closed flag is not looked at under the lock.
RegistrableEvenClosed(c) == call[c] = "new"

Registrable(c) == call[c] = "new" /\ ~closed

RegisterAccepted(c) ==
  /\ Registrable(c)
  /\ ~Full(c, Live)
  /\ Prune
  /\ pending' = [p \in Live \union {c} |-> IF p = c THEN now + Wait ELSE pending[p]]
  /\ call' = [call EXCEPT ![c] = "registered"]
  /\ UNCHANGED <<now, timer, prompts, dialog, closed, outcome, acked>>

Register(c) == RegisterShut(c) \/ RegisterRefused(c) \/ RegisterAccepted(c)

\* The wait is announced to the client (an await), then the channels are
\* fired and the wait's own timer starts.
BeginWait(c) ==
  /\ call[c] = "registered"
  /\ call' = [call EXCEPT ![c] = "waiting"]
  /\ timer' = [p \in DOMAIN timer \union {c} |-> IF p = c THEN now + Wait ELSE timer[p]]
  /\ dialog' = IF Native THEN [dialog EXCEPT ![c] = "starting"] ELSE dialog
  /\ UNCHANGED <<now, pending, chan, hands, prompts, closed, outcome, acked>>

-----------------------------------------------------------------------------
(* Answering *)

\* Mutant: the entry is looked up and left in place.
LeftInPlace(c) == pending

\* `pending.remove(id)`: what is left once c's entry is taken.
Without(c) == Restrict(pending, Pending \ {c})

\* The first half of `resolve`: only a pending call can be answered, and
\* answering takes it out, so a second answer finds nothing.
Take(c, d, via) ==
  /\ c \in Pending
  /\ pending' = Without(c)
  /\ hands' = hands \union
              {[call |-> c, step |-> "withdraw", answer |-> [d |-> d, via |-> via]]}

Resolve(c, d, via) ==
  /\ Take(c, d, via)
  /\ UNCHANGED <<now, call, timer, chan, prompts, dialog, closed, outcome, acked>>

\* deny_all: closes the registry and drains it under one lock.
DenyAll ==
  /\ ~closed
  /\ closed' = TRUE
  /\ pending' = <<>>
  /\ hands' = hands \union
              {[call |-> c, step |-> "withdraw", answer |-> ShutDown] : c \in Pending}
  /\ UNCHANGED <<now, call, timer, chan, prompts, dialog, outcome, acked>>

\* kill_prompt: an exited child takes no harm.
Killed(c) == IF dialog[c] \in {"starting", "up"} THEN "gone" ELSE dialog[c]

\* Mutant: the entry is removed and the child is left running.
WithdrawnUnkilled(c) ==
  /\ prompts' = prompts \ {c}
  /\ UNCHANGED dialog

\* withdraw_prompt: off the screen only if it had been attached.
Withdrawn(c) ==
  /\ prompts' = prompts \ {c}
  /\ dialog' = IF c \in prompts THEN [dialog EXCEPT ![c] = Killed(c)] ELSE dialog

\* A pruned entry has no sender left: its waiter was told when it went.
StillOwed(h) == IF h.answer = TimedOut THEN {} ELSE {[h EXCEPT !.step = "send"]}

Withdraw(h) ==
  /\ h.step = "withdraw"
  /\ Withdrawn(h.call)
  /\ hands' = (hands \ {h}) \union StillOwed(h)
  /\ UNCHANGED <<now, call, pending, timer, chan, closed, outcome, acked>>

\* The timer of a wait goes with it.
Stopped(c) == Restrict(timer, DOMAIN timer \ {c})

\* The receiver is alive until the wait has returned or was dropped.
Listening(c) == call[c] \in {"registered", "waiting", "elapsed"}

Send(h) ==
  /\ h.step = "send"
  /\ hands' = hands \ {h}
  /\ IF Listening(h.call)
     THEN /\ chan' = [chan EXCEPT ![h.call] = h.answer]
          /\ acked' = acked \union {[call |-> h.call, answer |-> h.answer]}
     ELSE UNCHANGED <<chan, acked>>
  /\ UNCHANGED <<now, call, pending, timer, prompts, dialog, closed, outcome>>

-----------------------------------------------------------------------------
(* Waiting *)

Receive(c) ==
  /\ call[c] = "waiting" /\ chan[c] \in Answer
  /\ call' = [call EXCEPT ![c] = "over"]
  /\ outcome' = [outcome EXCEPT ![c] = chan[c]]
  /\ chan' = [chan EXCEPT ![c] = Silent]
  /\ timer' = Stopped(c)
  /\ UNCHANGED <<now, pending, hands, prompts, dialog, closed, acked>>

\* Mutant: a dropped sender does not end the wait, and the timer was beaten.
TimeIsUpUnlessDropped(c) == chan[c] = Silent /\ now >= timer[c]

TimeIsUp(c) == chan[c] = Dropped \/ (chan[c] = Silent /\ now >= timer[c])

\* The timer is only looked at when no answer is there. The receiver is
\* dropped a moment later: an answer sent in between is lost.
Elapse(c) ==
  /\ call[c] = "waiting"
  /\ TimeIsUp(c)
  /\ call' = [call EXCEPT ![c] = "elapsed"]
  /\ timer' = Stopped(c)
  /\ UNCHANGED <<now, pending, chan, hands, prompts, dialog, closed, outcome, acked>>

Forget(c) ==
  /\ call[c] = "elapsed"
  /\ call' = [call EXCEPT ![c] = "cleaning"]
  /\ pending' = Without(c)
  /\ UNCHANGED <<now, timer, chan, hands, prompts, dialog, closed, outcome, acked>>

GiveUpWaiting(c) ==
  /\ call[c] = "cleaning"
  /\ Withdrawn(c)
  /\ call' = [call EXCEPT ![c] = "over"]
  /\ outcome' = [outcome EXCEPT ![c] = TimedOut]
  /\ UNCHANGED <<now, pending, timer, chan, hands, closed, acked>>

\* The call's future is dropped mid-wait: its entry stays until it is
\* answered or a later register prunes it.
Abandon(c) ==
  /\ call[c] \in {"registered", "waiting"}
  /\ call' = [call EXCEPT ![c] = "abandoned"]
  /\ timer' = Stopped(c)
  /\ UNCHANGED <<now, pending, chan, hands, prompts, dialog, closed, outcome, acked>>

-----------------------------------------------------------------------------
(* The native dialog, on a thread of its own *)

\* Mutant: the dialog is recorded whether or not its call is still pending.
AttachableAlways(c) == TRUE

\* attach_prompt, under the `pending` lock: a dialog whose call was answered
\* meanwhile is killed at once.
Attachable(c) == c \in Pending

AttachPrompt(c) ==
  /\ dialog[c] = "starting"
  /\ IF Attachable(c)
     THEN prompts' = prompts \union {c} /\ dialog' = [dialog EXCEPT ![c] = "up"]
     ELSE dialog' = [dialog EXCEPT ![c] = "gone"] /\ UNCHANGED prompts
  /\ UNCHANGED <<now, call, pending, timer, chan, hands, closed, outcome, acked>>

\* A click ends the dialog's process with an answer.
Click(c, d) ==
  /\ dialog[c] = "up"
  /\ dialog' = [dialog EXCEPT ![c] = d]
  /\ UNCHANGED <<now, call, pending, timer, chan, hands, prompts, closed, outcome, acked>>

\* It is dismissed, or gives up on its own: nobody is told.
Dismiss(c) ==
  /\ dialog[c] = "up"
  /\ dialog' = [dialog EXCEPT ![c] = "gone"]
  /\ UNCHANGED <<now, call, pending, timer, chan, hands, prompts, closed, outcome, acked>>

\* resolve_as_native: an answered call is not answered twice.
ResolveNative(c) ==
  /\ dialog[c] \in Decision
  /\ dialog' = [dialog EXCEPT ![c] = "gone"]
  /\ IF c \in Pending THEN Take(c, dialog[c], "native") ELSE UNCHANGED <<pending, hands>>
  /\ UNCHANGED <<now, call, timer, chan, prompts, closed, outcome, acked>>

-----------------------------------------------------------------------------

Tick ==
  /\ now < MaxNow
  /\ now' = now + 1
  /\ UNCHANGED <<call, pending, timer, chan, hands, prompts, dialog, closed, outcome, acked>>

\* What the gateway's own threads do, without anybody's decision.
Work(c) ==
  \/ BeginWait(c) \/ Receive(c) \/ Elapse(c) \/ Forget(c) \/ GiveUpWaiting(c)
  \/ AttachPrompt(c) \/ ResolveNative(c)
  \/ \E h \in hands : h.call = c /\ (Withdraw(h) \/ Send(h))

Next ==
  \/ Tick
  \/ DenyAll
  \/ \E c \in Call :
       \/ Register(c) \/ Abandon(c) \/ Work(c) \/ Dismiss(c)
       \/ \E d \in Decision : Click(c, d)
       \/ \E d \in Decision, via \in Channel : Resolve(c, d, via)

\* The runtime keeps polling its tasks and its threads keep running. Nothing
\* is assumed of the clock, the operator or the client.
Spec == Init /\ [][Next]_vars /\ \A c \in Call : WF_vars(Work(c))

-----------------------------------------------------------------------------
(* Properties *)

\* No dialog of an answered call is left behind: whoever took the call out of
\* `pending` still owes its withdrawal, however the answer raced the attach.
NoOrphanPrompt ==
  \A c \in prompts \ Pending :
     \/ \E h \in hands : h.call = c /\ h.step = "withdraw"
     \/ call[c] = "cleaning"

\* The first answer stands: a call is told of at most one, and it ends with
\* that one, or with a time-out that dropped it, never with another.
FirstAnswerStands ==
  \A a, b \in acked :
     /\ a.call = b.call => a = b
     /\ call[a.call] = "over" => outcome[a.call] \in {a.answer, TimedOut}

\* A call that has returned holds no slot of the caps.
NoGhostEntry == \A c \in Call : call[c] \in {"cleaning", "over"} => c \notin Pending

\* The registry stays within its caps.
CapsHold ==
  /\ Cardinality(Pending) <= MaxPending
  /\ \A k \in Client : Cardinality({c \in Pending : ClientOf[c] = k}) <= MaxPerClient

\* Shutdown answers every waiting call and every dialog without waiting for
\* anybody's timer, those that race it into the registry included.
ShutdownEndsAll ==
  /\ \A c \in Call : (closed /\ Listening(c)) ~> (call[c] \in {"over", "abandoned"})
  /\ \A c \in Call : (closed /\ dialog[c] = "up") ~> (dialog[c] = "gone")

\* Every wait ends, by its own timer if by nothing else, once the clock has
\* come that far (of the waits whose time limit the bounded clock reaches).
EveryWaitEnds ==
  (<>(now = MaxNow)) =>
    \A c \in Call :
      (c \in DOMAIN timer /\ timer[c] <= MaxNow) ~> (call[c] \in {"over", "abandoned"})
=============================================================================
