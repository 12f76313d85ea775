------------------------------ MODULE Authorize ------------------------------
(***************************************************************************)
(* POST /authorize over the OAuth store (gateway/oauth_routes.rs): the     *)
(* handler looks the client up without a lock, mints a code in one locked  *)
(* call, looks the client up again, and only then redirects with the code. *)
(* Owner commands, other requests and crashes come between any two of      *)
(* these steps.                                                            *)
(***************************************************************************)
EXTENDS AuthStore

CONSTANT Handler   \* the threads that serve POST /authorize

ASSUME HandlerAssumption == Handler \subseteq Proc

VARIABLES
  stage,   \* stage[h]: how far the request of h has come
  handed   \* history: the codes a redirect carried to a client

authVars == <<stage, handed>>
allVars  == <<vars, stage, handed>>

Stages == {"idle", "validated", "issuing", "issued", "removed", "burning"}
Idle   == [at |-> "idle", client |-> None, code |-> None]

AuthorizeTypeOK ==
  /\ TypeOK
  /\ stage \in [Handler -> [at: Stages, client: Client \cup {None}, code: Code \cup {None}]]
  /\ handed \subseteq Code
  /\ \A h \in Handler : stage[h].at \in {"issuing", "burning"} <=> lock = h

AuthorizeInit ==
  /\ Init
  /\ stage = [h \in Handler |-> Idle]
  /\ handed = {}

At(h, at) == stage[h].at = at
Goto(h, s) == stage' = [stage EXCEPT ![h] = s]

\* validate_authorize_request: a lock-free get_client.
Validate(h, c) ==
  /\ At(h, "idle")
  /\ c \in disk.clients
  /\ Goto(h, [at |-> "validated", client |-> c, code |-> None])
  /\ UNCHANGED <<vars, handed>>

\* A wrong pairing code, a lockout, or an auth.lock that stays busy.
Refuse(h) ==
  /\ At(h, "validated")
  /\ Goto(h, Idle)
  /\ UNCHANGED <<vars, handed>>

\* issue_authorize_code, its locked call to issue_code.
Issue(h) ==
  /\ At(h, "validated")
  /\ IssueCode(h, stage[h].client)
  /\ Goto(h, [stage[h] EXCEPT !.at = "issuing", !.code = minted.code + 1])
  /\ UNCHANGED handed

AfterOk(h) == IF At(h, "issuing") THEN [stage[h] EXCEPT !.at = "issued"] ELSE Idle

\* issue_code or consume_code returns Ok and its guard is dropped.
Answered(h) ==
  /\ Return(h)
  /\ Goto(h, AfterOk(h))
  /\ UNCHANGED handed

\* It returns Err, or the gateway dies: the client gets an error page or nothing.
Failed(h) ==
  /\ Abort(h)
  /\ Goto(h, Idle)
  /\ UNCHANGED handed

\* Mutant: the code is handed out on the strength of the first look-up.
SeenOnce(c) == TRUE

\* The second, lock-free get_client.
StillRegistered(c) == c \in disk.clients

HandOut(h) ==
  /\ At(h, "issued")
  /\ StillRegistered(stage[h].client)
  /\ handed' = handed \cup {stage[h].code}
  /\ Goto(h, Idle)
  /\ UNCHANGED vars

\* Removed meanwhile: the code is not handed out and is to be burnt.
Withhold(h) ==
  /\ At(h, "issued")
  /\ ~StillRegistered(stage[h].client)
  /\ Goto(h, [stage[h] EXCEPT !.at = "removed"])
  /\ UNCHANGED <<vars, handed>>

Burn(h) ==
  /\ At(h, "removed")
  /\ ConsumeCode(h, stage[h].code)
  /\ Goto(h, [stage[h] EXCEPT !.at = "burning"])
  /\ UNCHANGED handed

\* Best effort: a consume_code that cannot have the lock is not tried again.
LeaveUnburnt(h) ==
  /\ At(h, "removed")
  /\ Goto(h, Idle)
  /\ UNCHANGED <<vars, handed>>

Handle(h) ==
  \/ \E c \in Client : Validate(h, c)
  \/ Refuse(h) \/ Issue(h) \/ Answered(h) \/ Failed(h)
  \/ HandOut(h) \/ Withhold(h) \/ Burn(h) \/ LeaveUnburnt(h)
  \/ Save(h) /\ UNCHANGED authVars

Others ==
  /\ Tick \/ \E p \in Proc \ Handler : Operation(p) \/ Save(p) \/ Return(p) \/ Abort(p)
  /\ UNCHANGED authVars

AuthorizeNext == Others \/ \E h \in Handler : Handle(h)

AuthorizeSpec == AuthorizeInit /\ [][AuthorizeNext]_allVars

-----------------------------------------------------------------------------
(* Properties *)

\* issue_authorize_code's argument: "a remove AFTER the re-check deletes the
\* new code itself, and a remove BEFORE it is caught here".  A code that went
\* out in a redirect is gone from codes.json whenever its client is gone.
NoCodeOutlivesItsClient ==
  \A k \in handed :
    disk.codes[k] # Absent => disk.codes[k].client \in disk.clients
=============================================================================
