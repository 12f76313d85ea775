----------------------------- MODULE TelegramPoll -----------------------------
(***************************************************************************)
(* The thread that polls for button presses (gateway/telegram.rs): started *)
(* on demand by `ensure_polling`, it answers the calls the operator's      *)
(* presses name, persists how far it has read, and ends when no approval   *)
(* is live.  Its end races the start of the next one over the `polling`    *)
(* flag alone.                                                             *)
(*                                                                         *)
(* Of the registry (module Approvals) what this thread sees is kept: the   *)
(* entry of each call, and whether it has expired.                         *)
(***************************************************************************)
EXTENDS Integers, Sequences, FiniteSets, FiniteSetsExt

CONSTANTS Approval,
          Thread,      \* poller threads, numbered
          MaxUpdates,  \* bound of the exploration: updates Telegram ever has
          MaxCrash     \* bound of the exploration: restarts of the gateway

ASSUME ThreadType == Thread \subseteq Nat /\ IsFiniteSet(Thread)

VARIABLES
  entry,    \* each call's entry in the registry
  answer,   \* the decision the call was answered with through this channel
  nudged,   \* the calls that have run ensure_polling
  inbox,    \* every update Telegram ever had for this bot
  confirmed,    \* history: the updates Telegram was asked to skip
  offset,   \* the persisted offset; 0 when there is no readable file
  polling,  \* TelegramChannel.polling
  thread,   \* the poller threads
  refused,  \* history: a spawn was refused, and since its flag was given up no call
            \* has asked for a thread again
  crashes

pollVars == <<entry, answer, nudged, inbox, confirmed, offset, polling, thread, refused,
              crashes>>

Verdict == {"approve", "deny"}

\* An update: a press of the operator's, or one that handle_update refuses
\* (another sender, another chat, data that does not parse, no callback).
Update == [call : Approval, d : Verdict, from : {"operator", "other"}]

\* A thread: what it is about to do, its own offset (0 when it has none), and
\* the batch it holds.  "refused" is no thread yet: the caller whose spawn the
\* system has just refused, with the flag still taken.
Stage == {"off", "refused", "poll", "handle", "look", "release", "again", "reclaim"}
Off == [pc |-> "off", offset |-> 0, next |-> 1, last |-> 0]

PollTypeOK ==
  /\ entry \in [Approval -> {"new", "live", "expired", "gone"}]
  /\ answer \in [Approval -> Verdict \union {"none"}]
  /\ nudged \subseteq Approval
  /\ inbox \in Seq(Update)
  /\ confirmed \in Nat /\ offset \in Nat
  /\ polling \in BOOLEAN
  /\ thread \in [Thread -> [pc : Stage, offset : Nat, next : Nat, last : Nat]]
  /\ refused \in BOOLEAN /\ crashes \in Nat

PollInit ==
  /\ entry = [c \in Approval |-> "new"]
  /\ answer = [c \in Approval |-> "none"]
  /\ nudged = {}
  /\ inbox = <<>>
  /\ confirmed = 0 /\ offset = 0
  /\ polling = FALSE
  /\ thread = [t \in Thread |-> Off]
  /\ refused = FALSE /\ crashes = 0

-----------------------------------------------------------------------------
(* The calls and the operator *)

Arrive(c) ==
  /\ entry[c] = "new"
  /\ entry' = [entry EXCEPT ![c] = "live"]
  /\ UNCHANGED <<answer, nudged, inbox, confirmed, offset, polling, thread, refused, crashes>>

\* The entry's time runs out; it stays until somebody takes it out.
Expire(c) ==
  /\ entry[c] = "live"
  /\ entry' = [entry EXCEPT ![c] = "expired"]
  /\ UNCHANGED <<answer, nudged, inbox, confirmed, offset, polling, thread, refused, crashes>>

\* Another channel answers, the wait gives up, a later register prunes.
TakenOut(c) ==
  /\ entry[c] \in {"live", "expired"}
  /\ entry' = [entry EXCEPT ![c] = "gone"]
  /\ UNCHANGED <<answer, nudged, inbox, confirmed, offset, polling, thread, refused, crashes>>

\* The operator presses a button of a prompt (as often as they like, long
\* after the call is over too), or something else comes in.
Press(c) ==
  /\ c \in nudged
  /\ Len(inbox) < MaxUpdates
  /\ \E d \in Verdict : inbox' = Append(inbox, [call |-> c, d |-> d, from |-> "operator"])
  /\ UNCHANGED <<entry, answer, nudged, confirmed, offset, polling, thread, refused, crashes>>

Noise(c) ==
  /\ Len(inbox) < MaxUpdates
  /\ inbox' = Append(inbox, [call |-> c, d |-> "approve", from |-> "other"])
  /\ UNCHANGED <<entry, answer, nudged, confirmed, offset, polling, thread, refused, crashes>>

-----------------------------------------------------------------------------
(* The poller *)

\* ensure_polling's compare_exchange from FALSE to TRUE.
Starts == ~polling

\* ensure_polling, run once for every call after its prompt was fired; the
\* thread that is spawned reads the persisted offset.  The spawn may be refused.
EnsurePolling(c) ==
  /\ entry[c] # "new" /\ c \notin nudged
  /\ nudged' = nudged \union {c}
  /\ IF Starts
     THEN /\ polling' = TRUE
          /\ \E t \in Thread, spawned \in BOOLEAN :
               /\ thread[t].pc = "off"
               /\ \A u \in Thread : thread[u].pc = "off" => t <= u
               /\ thread' = [thread EXCEPT ![t] =
                    [pc |-> IF spawned THEN "poll" ELSE "refused", offset |-> offset,
                     next |-> 1, last |-> 0]]
               /\ refused' = ~spawned
     ELSE /\ refused' = (refused /\ \E t \in Thread : thread[t].pc = "refused")
          /\ UNCHANGED <<polling, thread>>
  /\ UNCHANGED <<entry, answer, inbox, confirmed, offset, crashes>>

Goes(t, from, to) == thread[t].pc = from /\ thread' = [thread EXCEPT ![t].pc = to]

\* ensure_polling gives the flag up again; until another call asks for a thread
\* nobody polls.
SpawnRefused(t) ==
  /\ Goes(t, "refused", "off")
  /\ polling' = FALSE
  /\ UNCHANGED <<entry, answer, nudged, inbox, confirmed, offset, refused, crashes>>

\* The first update asked for; with no offset, the first one not skipped yet.
From(t) == IF thread[t].offset = 0 THEN confirmed + 1 ELSE thread[t].offset

\* get_updates: what came in from there on; what lies before is skipped for good.
Fetch(t) ==
  /\ thread[t].pc = "poll"
  /\ thread' = [thread EXCEPT ![t] =
       [pc |-> "handle", offset |-> @.offset, next |-> From(t), last |-> Len(inbox)]]
  /\ confirmed' = Max({confirmed, From(t) - 1})
  /\ UNCHANGED <<entry, answer, nudged, inbox, offset, polling, refused, crashes>>

PollFails(t) ==
  /\ Goes(t, "poll", "look")
  /\ UNCHANGED <<entry, answer, nudged, inbox, confirmed, offset, polling, refused, crashes>>

\* Mutant: whoever pressed.
AcceptedFromAnyone(u) == entry[u.call] \in {"live", "expired"}

\* handle_update: the sender and the chat are the configured ones, the data
\* parses, and `resolve` finds the entry.
Accepted(u) == u.from = "operator" /\ entry[u.call] \in {"live", "expired"}

HandleUpdate(t) ==
  /\ thread[t].pc = "handle" /\ thread[t].next <= thread[t].last
  /\ thread' = [thread EXCEPT ![t].next = @ + 1]
  /\ LET u == inbox[thread[t].next]
     IN  IF Accepted(u)
         THEN /\ entry' = [entry EXCEPT ![u.call] = "gone"]
              /\ answer' = [answer EXCEPT ![u.call] = u.d]
         ELSE UNCHANGED <<entry, answer>>
  /\ UNCHANGED <<nudged, inbox, confirmed, offset, polling, refused, crashes>>

\* The highest update_id of the batch plus one, and never a step back.
NextOffset(t) == Max({thread[t].last + 1, thread[t].offset})

\* After the batch the offset moves on; the write may fail, before or after
\* the file was truncated.  A batch that was empty moves nothing.
Persist(t) ==
  /\ thread[t].pc = "handle" /\ thread[t].next > thread[t].last
  /\ IF From(t) <= thread[t].last
     THEN /\ thread' = [thread EXCEPT ![t] =
               [pc |-> "look", offset |-> NextOffset(t), next |-> 1, last |-> 0]]
          /\ offset' \in {NextOffset(t), offset, 0}
     ELSE /\ thread' = [thread EXCEPT ![t] =
               [pc |-> "look", offset |-> @.offset, next |-> 1, last |-> 0]]
          /\ UNCHANGED offset
  /\ UNCHANGED <<entry, answer, nudged, inbox, confirmed, polling, refused, crashes>>

NoLiveApprovals == \A c \in Approval : entry[c] # "live"

\* The exit: look, give the flag up, look again, and take it back if something
\* has shown up in between and nobody else has.
Look(t) ==
  /\ Goes(t, "look", IF NoLiveApprovals THEN "release" ELSE "poll")
  /\ UNCHANGED <<entry, answer, nudged, inbox, confirmed, offset, polling, refused, crashes>>

Release(t) ==
  /\ Goes(t, "release", "again")
  /\ polling' = FALSE
  /\ UNCHANGED <<entry, answer, nudged, inbox, confirmed, offset, refused, crashes>>

\* Mutant: gone without a second look.
StaysNever == FALSE

\* Whether the second look finds something to stay for.
Stays == ~NoLiveApprovals

LookAgain(t) ==
  /\ Goes(t, "again", IF Stays THEN "reclaim" ELSE "off")
  /\ UNCHANGED <<entry, answer, nudged, inbox, confirmed, offset, polling, refused, crashes>>

\* Mutant: the flag is taken back whoever holds it by now.
TakesBack == TRUE

\* The compare_exchange of the exit.
Reclaims == ~polling

TakeOver(t) ==
  /\ Goes(t, "reclaim", IF Reclaims THEN "poll" ELSE "off")
  /\ polling' = TRUE
  /\ refused' = (refused /\ ~Reclaims)
  /\ UNCHANGED <<entry, answer, nudged, inbox, confirmed, offset, crashes>>

-----------------------------------------------------------------------------

\* The gateway stops, at any point, and is started again: its registry and its
\* flag are in memory, the offset and Telegram's queue are not.
Restart ==
  /\ crashes < MaxCrash
  /\ crashes' = crashes + 1
  /\ entry' = [c \in Approval |-> IF entry[c] = "new" THEN "new" ELSE "gone"]
  /\ thread' = [t \in Thread |-> Off]
  /\ polling' = FALSE /\ refused' = FALSE
  /\ UNCHANGED <<answer, nudged, inbox, confirmed, offset>>

PollStep(t) ==
  \/ SpawnRefused(t) \/ Fetch(t) \/ HandleUpdate(t) \/ Persist(t) \/ Look(t)
  \/ Release(t) \/ LookAgain(t) \/ TakeOver(t)

PollNext ==
  \/ Restart
  \/ \E c \in Approval :
       \/ Arrive(c) \/ Expire(c) \/ TakenOut(c)
       \/ Press(c) \/ Noise(c) \/ EnsurePolling(c)
  \/ \E t \in Thread : PollStep(t) \/ PollFails(t)

\* The thread keeps running, a call that was registered gets to nudge it, and
\* a poll that is tried again and again gets through.
PollFairness ==
  /\ \A c \in Approval : WF_pollVars(EnsurePolling(c))
  /\ \A t \in Thread : WF_pollVars(PollStep(t)) /\ SF_pollVars(Fetch(t))

PollSpec == PollInit /\ [][PollNext]_pollVars /\ PollFairness

-----------------------------------------------------------------------------
(* Properties *)

\* At most one thread reads updates, however the exit of one races the start
\* of the next.
OnePoller ==
  Cardinality({t \in Thread : thread[t].pc \in {"poll", "handle", "look", "release"}}) <= 1

\* Only a press of the operator's answers a call, and with what was pressed:
\* across a restart, and when an update is handed out twice, too.
AnsweredByPress ==
  \A c \in Approval : answer[c] # "none" =>
    \E i \in DOMAIN inbox : inbox[i] = [call |-> c, d |-> answer[c], from |-> "operator"]

\* A press on the prompt of a call that still waits is heard: the poller is
\* there, or comes back, and nothing it had not handled was ever skipped.  Only
\* where the system refused the thread does nobody poll, and not after another
\* call has asked for one: that thread hears the presses of every call.  An
\* entry that has gone does not come back, so what does not last for ever ends.
EveryPressIsHeard ==
  []<>(refused \/ \A c \in Approval : entry[c] = "live" =>
         ~\E i \in DOMAIN inbox : inbox[i].call = c /\ inbox[i].from = "operator")
=============================================================================
