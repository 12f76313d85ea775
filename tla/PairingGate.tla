------------------------------ MODULE PairingGate ------------------------------
(***************************************************************************)
(* The two in-memory limiters of the gateway's OAuth surface               *)
(* (gateway/oauth_routes.rs): the lockout of the pairing code, shared by   *)
(* POST /authorize and the operator's /approvals, and the fixed window of  *)
(* POST /register.                                                         *)
(*                                                                         *)
(* A submission reads the clock, then waits for the limiter's mutex, then  *)
(* is judged in one hold of it: the reading may be old by then.            *)
(***************************************************************************)
EXTENDS Integers, Sequences

CONSTANTS Request,      \* the threads that serve submissions
          MaxFailures,  \* MAX_PAIRING_FAILURES
          Lockout,      \* PAIRING_LOCKOUT_SECS
          MaxAdmitted,  \* MAX_REGISTRATIONS_PER_WINDOW
          Window,       \* REGISTRATION_WINDOW_SECS
          MaxClock        \* bound of the exploration: the last clock reading

ASSUME LimitsPositive ==
  {MaxFailures, Lockout, MaxAdmitted, Window} \subseteq Nat \ {0}
ASSUME MaxNowNat == MaxClock \in Nat

VARIABLES
  clock,          \* now_epoch_secs
  seen,         \* the clock as each waiting submission has read it, or None
  failures,     \* AttemptState.consecutive_failures
  lockedUntil,  \* AttemptState.locked_until, or None
  windowStart,  \* RegistrationWindow.window_start
  count,        \* RegistrationWindow.count
  wrong,        \* history: when the last wrong codes in a row were compared
  admitted      \* history: when the last registrations were admitted

limitsVars == <<clock, seen, failures, lockedUntil, windowStart, count, wrong, admitted>>

None == -1

LimitsTypeOK ==
  /\ clock \in Nat
  /\ seen \in [Request -> Nat \union {None}]
  /\ failures \in 0..MaxFailures
  /\ lockedUntil \in Nat \union {None}
  /\ lockedUntil # None <=> failures = MaxFailures
  /\ windowStart \in Nat
  /\ count \in 0..MaxAdmitted
  /\ wrong \in Seq(Nat)
  /\ admitted \in Seq(Nat)

\* The gateway starts long after the epoch, when the first window is over.
LimitsInit ==
  /\ clock = Window
  /\ seen = [r \in Request |-> None]
  /\ failures = 0
  /\ lockedUntil = None
  /\ windowStart = 0
  /\ count = 0
  /\ wrong = << >>
  /\ admitted = << >>

\* The last n members of s with x at the end.
LastWith(s, x, n) ==
  LET t == Append(s, x)
  IN  IF Len(t) > n THEN SubSeq(t, Len(t) - n + 1, Len(t)) ELSE t

-----------------------------------------------------------------------------
(* check_pairing_code *)

Submit(r) ==
  /\ seen[r] = None
  /\ seen' = [seen EXCEPT ![r] = clock]
  /\ UNCHANGED <<clock, failures, lockedUntil, windowStart, count, wrong, admitted>>

Answered(r) ==
  /\ seen[r] # None
  /\ seen' = [seen EXCEPT ![r] = None]
  /\ UNCHANGED <<clock, windowStart, count, admitted>>

\* Inside a lockout nothing is compared.
LockedOut(r) == lockedUntil # None /\ seen[r] < lockedUntil

RejectUnseen(r) ==
  /\ LockedOut(r)
  /\ Answered(r)
  /\ UNCHANGED <<failures, lockedUntil, wrong>>

\* The failures this submission adds to: a lockout that has run out is gone.
FailuresLeft == IF lockedUntil # None THEN 0 ELSE failures

\* Mutant: the lockout runs from the clock the submission read on arrival.
LockedSince(r) == seen[r]

\* The lockout runs from a fresh reading of the clock.
LockedFrom(r) == clock

\* Whatever waited for the mutex, the code is compared now.
Accept(r) ==
  /\ ~LockedOut(r)
  /\ Answered(r)
  /\ failures' = 0
  /\ lockedUntil' = None
  /\ wrong' = << >>

RejectWrong(r) ==
  /\ ~LockedOut(r)
  /\ Answered(r)
  /\ failures' = FailuresLeft + 1
  /\ lockedUntil' = IF FailuresLeft + 1 >= MaxFailures THEN LockedFrom(r) + Lockout ELSE None
  /\ wrong' = LastWith(wrong, clock, MaxFailures + 1)

\* pairing.json could not be read: no answer, and nothing counted.
StoreError(r) ==
  /\ ~LockedOut(r)
  /\ Answered(r)
  /\ failures' = FailuresLeft
  /\ lockedUntil' = None
  /\ UNCHANGED wrong

CheckPairingCode(r) == RejectUnseen(r) \/ Accept(r) \/ RejectWrong(r) \/ StoreError(r)

-----------------------------------------------------------------------------
(* RegistrationWindow::try_admit, with a clock read inside its mutex *)

\* Mutant: the count is reset and the window stays where it was.
WindowKept == windowStart

WindowNow == IF clock >= windowStart + Window THEN clock ELSE windowStart

CountNow == IF clock >= windowStart + Window THEN 0 ELSE count

TryAdmit ==
  /\ windowStart' = WindowNow
  /\ IF CountNow < MaxAdmitted
     THEN count' = CountNow + 1 /\ admitted' = LastWith(admitted, clock, 2 * MaxAdmitted)
     ELSE count' = CountNow /\ UNCHANGED admitted
  /\ UNCHANGED <<clock, seen, failures, lockedUntil, wrong>>

-----------------------------------------------------------------------------

ClockTicks ==
  /\ clock < MaxClock
  /\ clock' = clock + 1
  /\ UNCHANGED <<seen, failures, lockedUntil, windowStart, count, wrong, admitted>>

LimitsNext ==
  \/ ClockTicks
  \/ TryAdmit
  \/ \E r \in Request : Submit(r) \/ CheckPairingCode(r)

LimitsSpec == LimitsInit /\ [][LimitsNext]_limitsVars

-----------------------------------------------------------------------------
(* Properties *)

\* Wrong codes come no faster than the lockout allows, whatever the threads
\* that submit them were waiting for: with no right one between them, the
\* last of MaxFailures + 1 is compared at least Lockout after the first.
GuessesPaced ==
  Len(wrong) = MaxFailures + 1 => wrong[MaxFailures + 1] - wrong[1] >= Lockout

\* Registrations come no faster than two windows' worth per window: a fixed
\* window lets a burst straddle its end, and no more than that.
RegistrationsPaced ==
  Len(admitted) = 2 * MaxAdmitted => admitted[2 * MaxAdmitted] - admitted[1] >= Window
=============================================================================
