--------------------------- MODULE TelegramPrompt ---------------------------
(***************************************************************************)
(* The approval prompt on the operator's phone (gateway/telegram.rs): the  *)
(* message that is sent for a call, the edit that takes its buttons away   *)
(* once the call has its outcome, and the wait for outstanding edits when  *)
(* the gateway stops.                                                      *)
(*                                                                         *)
(* Sending and editing run on threads nobody waits for, so a call may end  *)
(* before its own prompt has been sent; `sent` is where the two meet.  Of  *)
(* the registry (module Approvals) only what reaches this channel is kept: *)
(* the expiry a call was registered with, and that its wait, which starts  *)
(* later, has come to some outcome or was dropped.                         *)
(***************************************************************************)
EXTENDS Integers, FiniteSets, Functions

CONSTANTS PromptedCall,
          AskFor,          \* approval_wait_seconds
          SendLimit,     \* HTTP_TIMEOUT: how long a send may be in flight
          TombstoneTTL,  \* TOMBSTONE_TTL_SECS
          MaxTime         \* bound of the exploration: the last clock reading

ASSUME TimesNat == AskFor \in Nat /\ SendLimit \in Nat /\ TombstoneTTL \in Nat
\* "An unclaimed tombstone is always genuinely unclaimable by the time it expires."
ASSUME TombstonesOutliveSends == TombstoneTTL > SendLimit

VARIABLES
  time,      \* the clock, in coarse seconds
  standing,     \* where each call stands
  until,    \* PendingApproval.expires, which the send carries along
  sent,     \* TelegramChannel.sent: a live prompt, or the tombstone of an outcome
  task,     \* the thread that still owes the call's prompt something
  sendBy,   \* when a send in flight times out
  screen,   \* the prompt on the phone
  noted,    \* history: on which side of `until` note_outcome ran
  stop      \* how far the gateway has stopped

promptVars == <<time, standing, until, sent, task, sendBy, screen, noted, stop>>

Slot == [kind : {"live", "tombstone"}, expires : Nat]

PromptTypeOK ==
  /\ time \in Nat
  /\ standing \in [PromptedCall -> {"new", "registered", "waiting", "over", "noted", "dropped"}]
  /\ until \in [PromptedCall -> Nat]
  /\ sent \in [DOMAIN sent -> Slot] /\ DOMAIN sent \subseteq PromptedCall
  /\ task \in [PromptedCall -> {"none", "sending", "late", "editing"}]
  /\ sendBy \in [PromptedCall -> Nat]
  /\ screen \in [PromptedCall -> {"none", "buttons", "closed", "stuck"}]
  /\ noted \in [PromptedCall -> {"no", "timely", "late"}]
  /\ stop \in {"running", "closed", "settled", "timedOut"}

PromptInit ==
  /\ time = 0
  /\ standing = [c \in PromptedCall |-> "new"]
  /\ until = [c \in PromptedCall |-> 0]
  /\ sent = <<>>
  /\ task = [c \in PromptedCall |-> "none"]
  /\ sendBy = [c \in PromptedCall |-> 0]
  /\ screen = [c \in PromptedCall |-> "none"]
  /\ noted = [c \in PromptedCall |-> "no"]
  /\ stop = "running"

-----------------------------------------------------------------------------
(* The call *)

Ask(c) ==
  /\ standing[c] = "new" /\ stop = "running"
  /\ standing' = [standing EXCEPT ![c] = "registered"]
  /\ until' = [until EXCEPT ![c] = time + AskFor]
  /\ UNCHANGED <<time, sent, task, sendBy, screen, noted, stop>>

\* The wait has been announced: `fire` schedules the send, counted from here.
Fire(c) ==
  /\ standing[c] = "registered"
  /\ standing' = [standing EXCEPT ![c] = "waiting"]
  /\ task' = [task EXCEPT ![c] = "sending"]
  /\ sendBy' = [sendBy EXCEPT ![c] = time + SendLimit]
  /\ UNCHANGED <<time, until, sent, screen, noted, stop>>

\* The wait returns: answered through any channel, or out of time.
Decided(c) ==
  /\ standing[c] = "waiting"
  /\ standing' = [standing EXCEPT ![c] = "over"]
  /\ UNCHANGED <<time, until, sent, task, sendBy, screen, noted, stop>>

\* The call's future is dropped: no outcome is ever noted.
Cancel(c) ==
  /\ standing[c] \in {"registered", "waiting", "over"}
  /\ standing' = [standing EXCEPT ![c] = "dropped"]
  /\ UNCHANGED <<time, until, sent, task, sendBy, screen, noted, stop>>

-----------------------------------------------------------------------------
(* The prompt *)

\* sweep_expired, run by whoever inserts.
Swept(slots) == Restrict(slots, {c \in DOMAIN slots : slots[c].expires > time})

Put(slots, c, slot) == [x \in DOMAIN slots \union {c} |-> IF x = c THEN slot ELSE slots[x]]
Drop(slots, c) == Restrict(slots, DOMAIN slots \ {c})

\* Telegram has the message; its answer is still on the way back.
Delivered(c) ==
  /\ task[c] = "sending" /\ screen[c] = "none"
  /\ screen' = [screen EXCEPT ![c] = "buttons"]
  /\ UNCHANGED <<time, standing, until, sent, task, sendBy, noted, stop>>

Tombstoned(c) == c \in DOMAIN sent /\ sent[c].kind = "tombstone"

\* Mutant: an outcome left behind is not looked for.
NothingClaimed(c) == FALSE

\* The outcome that came first, claimed before the sweep.
Claimed(c) == Tombstoned(c)

\* The success path of `fire`: claim the outcome that came first, or leave the
\* prompt where note_outcome will find it.
SendReturns(c) ==
  /\ task[c] = "sending" /\ screen[c] = "buttons"
  /\ IF Claimed(c)
     THEN /\ sent' = Swept(Drop(sent, c))
          /\ task' = [task EXCEPT ![c] = "late"]
     ELSE /\ sent' = Put(Swept(Drop(sent, c)), c, [kind |-> "live", expires |-> until[c]])
          /\ task' = [task EXCEPT ![c] = "none"]
  /\ UNCHANGED <<time, standing, until, sendBy, screen, noted, stop>>

\* The send fails, or only its answer is lost: then nobody knows of the message.
SendFails(c) ==
  /\ task[c] = "sending"
  /\ task' = [task EXCEPT ![c] = "none"]
  /\ screen' = IF screen[c] = "buttons" THEN [screen EXCEPT ![c] = "stuck"] ELSE screen
  /\ UNCHANGED <<time, standing, until, sent, sendBy, noted, stop>>

\* Nothing to edit yet: the outcome is left behind.
LeftBehind(c) == Put(Swept(sent), c, [kind |-> "tombstone", expires |-> time + TombstoneTTL])

NoteOutcome(c) ==
  /\ standing[c] = "over"
  /\ standing' = [standing EXCEPT ![c] = "noted"]
  /\ noted' = [noted EXCEPT ![c] = IF time < until[c] THEN "timely" ELSE "late"]
  /\ IF c \in DOMAIN sent
     THEN sent' = Drop(sent, c) /\ task' = [task EXCEPT ![c] = "editing"]
     ELSE sent' = LeftBehind(c) /\ UNCHANGED task
  /\ UNCHANGED <<time, until, sendBy, screen, stop>>

\* editMessageText, from either thread: an edit that fails leaves the buttons.
EditEnds(c) ==
  /\ task[c] \in {"late", "editing"}
  /\ task' = [task EXCEPT ![c] = "none"]
  /\ \E s \in {"closed", "stuck"} : screen' = [screen EXCEPT ![c] = s]
  /\ UNCHANGED <<time, standing, until, sent, sendBy, noted, stop>>

-----------------------------------------------------------------------------
(* The clock and the stop *)

\* No send outlives its time limit.
Pass ==
  /\ time < MaxTime
  /\ \A c \in PromptedCall : task[c] = "sending" => time < sendBy[c]
  /\ time' = time + 1
  /\ UNCHANGED <<standing, until, sent, task, sendBy, screen, noted, stop>>

\* deny_all: nothing is registered any more, and every waiter is woken; when
\* each gets to run is its own matter.
DenyLive ==
  /\ stop = "running"
  /\ stop' = "closed"
  /\ UNCHANGED <<time, standing, until, sent, task, sendBy, screen, noted>>

\* Mutant: the sends are counted, the edits are not.
SendsInFlight == {c \in PromptedCall : task[c] = "sending"}

\* EditTracker.in_flight: from before a send is scheduled, and from under the
\* lock an edit's prompt was taken out of `sent`.
InFlight == {c \in PromptedCall : task[c] # "none"}

EditsSettled ==
  /\ InFlight = {}
  /\ \A c \in DOMAIN sent : sent[c].kind = "live" => sent[c].expires <= time

\* drain_edits returns, settled or out of time, and the process exits.
Exit ==
  /\ stop = "closed"
  /\ stop' \in {IF EditsSettled THEN "settled" ELSE "timedOut"}
  /\ UNCHANGED <<time, standing, until, sent, task, sendBy, screen, noted>>

PromptNext ==
  /\ stop \in {"running", "closed"}
  /\ \/ Pass \/ DenyLive \/ Exit
     \/ \E c \in PromptedCall :
          \/ Ask(c) \/ Fire(c) \/ Decided(c) \/ Cancel(c)
          \/ Delivered(c) \/ SendReturns(c) \/ SendFails(c)
          \/ NoteOutcome(c) \/ EditEnds(c)

PromptSpec == PromptInit /\ [][PromptNext]_promptVars

-----------------------------------------------------------------------------
(* Properties *)

\* Somebody is about to take the buttons of c away: a thread has the edit in
\* hand, or the send in flight will find the outcome when it returns.
Kept(c) == task[c] \in {"late", "editing"} \/ (task[c] = "sending" /\ Tombstoned(c))

\* The order of the send and the outcome does not matter: a prompt whose call
\* ended in time never keeps its buttons with nobody left to take them.
TimelyOutcomeShown ==
  \A c \in PromptedCall : noted[c] = "timely" /\ screen[c] = "buttons" => Kept(c)

\* A gateway that says its edits have settled leaves no prompt with buttons
\* whose call could still have been answered.
SettledMeansClosed ==
  stop = "settled" => \A c \in PromptedCall : screen[c] = "buttons" => until[c] <= time
=============================================================================
