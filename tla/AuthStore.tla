----------------------------- MODULE AuthStore -----------------------------
(***************************************************************************)
(* The gateway's OAuth store (gateway/auth/store.rs): three JSON files     *)
(* (clients, codes, tokens), one advisory lock, and one operation per      *)
(* locked method.  An operation takes the lock, loads the files, edits its *)
(* copies in memory and writes them back one file at a time, in an order   *)
(* that the crash-safety arguments of the code rest on.  Between two       *)
(* writes the process may die or a write may fail.                         *)
(*                                                                         *)
(* Secrets are random 256-bit strings, so a minted one is always new: they *)
(* are numbered here in the order of minting.  A pair is an access and a   *)
(* refresh token minted together; a family is named by its first pair.     *)
(***************************************************************************)
EXTENDS Integers, FiniteSets, Sequences

CONSTANTS
  Proc,        \* threads and processes that share the store
  NoProc,      \* "nobody holds auth.lock"
  Absent,      \* "no such key in the JSON map"
  ClientCap,   \* MAX_REGISTERED_CLIENTS
  CodeTTL,     \* AUTH_CODE_TTL_SECS
  AccessTTL,   \* ACCESS_TTL_SECS
  RefreshTTL,  \* REFRESH_TTL_SECS
  MaxClient,   \* bound: client ids minted
  MaxCode,     \* bound: authorization codes minted
  MaxPair,     \* bound: token pairs minted
  MaxNow       \* bound: the clock

ASSUME BoundsAssumption ==
  /\ {ClientCap, CodeTTL, AccessTTL, RefreshTTL} \subseteq Nat \ {0}
  /\ {MaxClient, MaxCode, MaxPair, MaxNow} \subseteq Nat

ASSUME NoProcAssumption == NoProc \notin Proc

Client == 1..MaxClient
Code   == 1..MaxCode
Pair   == 1..MaxPair
Kind   == {"access", "refresh"}
Token  == Kind \X Pair
Family == Pair
None   == 0      \* Option::None of minted_family, rotated_to and client_id

CodeRecord ==
  [client: Client, expires: Nat, used: BOOLEAN, minted_family: Family \cup {None}]
TokenRecord ==
  [family: Family, client: Client, expires: Nat, revoked: BOOLEAN,
   rotated_to: Pair \cup {None}]

ASSUME AbsentAssumption == Absent \notin CodeRecord \cup TokenRecord

Files == [clients: SUBSET Client,
          codes:   [Code -> CodeRecord \cup {Absent}],
          tokens:  [Token -> TokenRecord \cup {Absent}]]

NoFiles == [clients |-> {},
            codes   |-> [k \in Code |-> Absent],
            tokens  |-> [t \in Token |-> Absent]]

\* The sequences of saves an operation may still have in front of it.
Todos == {<< >>, <<"clients">>, <<"codes">>, <<"tokens">>,
          <<"codes", "tokens">>, <<"codes", "clients">>,
          <<"tokens", "clients">>, <<"tokens", "codes", "clients">>}

\* What an operation will tell its caller; "subject" is a code, family or
\* client number, None where the answer names nothing.
Answers ==
  [kind: {"none", "registered", "invalid", "coded", "consumed", "issued",
          "replay", "rotated", "reuse", "revoked", "removed", "purged"},
   subject: Nat]
Silent == [kind |-> "none", subject |-> None]

VARIABLES
  disk,      \* the three files
  lock,      \* who holds auth.lock
  copy,      \* copy[p]: the files as p has them in memory
  todo,      \* todo[p]: the files p has yet to save, in order
  answer,    \* answer[p]: what p returns when all its saves succeed
  minted,    \* how many client ids, codes and pairs were minted so far
  now,       \* epoch seconds
  mintedBy,  \* history: the code whose exchange minted a family
  born       \* history: the families whose first pair reached tokens.json

vars == <<disk, lock, copy, todo, answer, minted, now, mintedBy, born>>

TypeOK ==
  /\ disk \in Files
  /\ lock \in Proc \cup {NoProc}
  /\ copy \in [Proc -> Files]
  /\ todo \in [Proc -> Todos]
  /\ answer \in [Proc -> Answers]
  /\ minted \in [client: 0..MaxClient, code: 0..MaxCode, pair: 0..MaxPair]
  /\ now \in Nat
  /\ mintedBy \in [Family -> Code \cup {None}]
  /\ born \subseteq Family

Init ==
  /\ disk = NoFiles
  /\ lock = NoProc
  /\ copy = [p \in Proc |-> NoFiles]
  /\ todo = [p \in Proc |-> << >>]
  /\ answer = [p \in Proc |-> Silent]
  /\ minted = [client |-> 0, code |-> 0, pair |-> 0]
  /\ now = 1
  /\ mintedBy = [f \in Family |-> None]
  /\ born = {}

-----------------------------------------------------------------------------
(* The lock and the saves.                                                 *)

\* lock_exclusive: p may start an operation.  (A caller that waits too long
\* gets StoreBusy and nothing has happened; AuthLock models the waiting.)
AcquiresUnchecked(p) == lock' = p   \* mutant: the lock is not waited for
Acquires(p) == lock = NoProc /\ lock' = p

\* The locked section of an operation ends with these copies in memory,
\* these files to save in this order, and this answer if all are saved.
Plan(p, files, order, kind, subject) ==
  /\ copy' = [copy EXCEPT ![p] = files]
  /\ todo' = [todo EXCEPT ![p] = order]
  /\ answer' = [answer EXCEPT ![p] = [kind |-> kind, subject |-> subject]]

Keep(p, kind, subject) == Plan(p, disk, << >>, kind, subject)

\* write_json_atomic: tmp + fsync + rename replaces one whole file.
Save(p) ==
  /\ todo[p] # << >>
  /\ LET file == Head(todo[p])
     IN  /\ disk' = [disk EXCEPT ![file] = copy[p][file]]
         /\ born' = IF file = "tokens"
                      THEN born \cup {f \in Family :
                              \E t \in Token : /\ copy[p].tokens[t] # Absent
                                               /\ copy[p].tokens[t].family = f}
                      ELSE born
  /\ todo' = [todo EXCEPT ![p] = Tail(@)]
  /\ UNCHANGED <<lock, copy, answer, minted, now, mintedBy>>

Released(p) ==
  /\ lock' = NoProc
  /\ copy' = [copy EXCEPT ![p] = NoFiles]
  /\ todo' = [todo EXCEPT ![p] = << >>]
  /\ answer' = [answer EXCEPT ![p] = Silent]

\* The guard is dropped when the method returns.
Return(p) ==
  /\ lock = p
  /\ todo[p] = << >>
  /\ Released(p)
  /\ UNCHANGED <<disk, minted, now, mintedBy, born>>

\* The process dies, or `?` on a failed save returns Err: the saves that
\* are left never happen, and the OS or the guard frees the lock.
Abort(p) ==
  /\ lock = p
  /\ Released(p)
  /\ UNCHANGED <<disk, minted, now, mintedBy, born>>

Tick ==
  /\ now < MaxNow
  /\ now' = now + 1
  /\ UNCHANGED <<disk, lock, copy, todo, answer, minted, mintedBy, born>>

-----------------------------------------------------------------------------
(* Views of the files.                                                     *)

OnDisk(t) == disk.tokens[t] # Absent
Live(t)   == OnDisk(t) /\ ~disk.tokens[t].revoked

\* check_access: the bearer gate's lock-free read of tokens.json.
CheckAccess(t) == t[1] = "access" /\ Live(t) /\ disk.tokens[t].expires > now

\* The tokens map with every token in a set revoked.
Revoking(tokens, ts) ==
  [t \in Token |-> IF t \in ts /\ tokens[t] # Absent
                     THEN [tokens[t] EXCEPT !.revoked = TRUE]
                     ELSE tokens[t]]

\* The tokens map with the pair n added to a family of a client.
WithPair(tokens, n, family, client) ==
  LET fresh(ttl) == [family |-> family, client |-> client, expires |-> now + ttl,
                     revoked |-> FALSE, rotated_to |-> None]
  IN  [tokens EXCEPT ![<<"access", n>>]  = fresh(AccessTTL),
                     ![<<"refresh", n>>] = fresh(RefreshTTL)]

FamilyTokens(f) == {t \in Token : OnDisk(t) /\ disk.tokens[t].family = f}
ClientTokens(c) == {t \in Token : OnDisk(t) /\ disk.tokens[t].client = c}

\* Saving tokens.json is skipped when the revocation changes nothing.
TokensIfAllLive(ts) == IF \A t \in ts : Live(t) THEN <<"tokens">> ELSE << >>   \* mutant
TokensIfChanged(ts) == IF \E t \in ts : Live(t) THEN <<"tokens">> ELSE << >>

-----------------------------------------------------------------------------
(* The operations.                                                         *)

\* register_client_capped.  A client id is freshly minted for each request.
RegisterClient(p) ==
  LET c == minted.client + 1
  IN  /\ Acquires(p)
      /\ c <= MaxClient
      /\ minted' = [minted EXCEPT !.client = c]
      /\ IF Cardinality(disk.clients) >= ClientCap
           THEN Keep(p, "invalid", None)
           ELSE Plan(p, [disk EXCEPT !.clients = @ \cup {c}], <<"clients">>,
                     "registered", c)
      /\ UNCHANGED <<disk, now, mintedBy, born>>

\* issue_code: the caller validated the client earlier; it may be gone.
IssueCode(p, c) ==
  LET k == minted.code + 1
  IN  /\ Acquires(p)
      /\ c <= minted.client
      /\ k <= MaxCode
      /\ minted' = [minted EXCEPT !.code = k]
      /\ Plan(p, [disk EXCEPT !.codes[k] =
                     [client |-> c, expires |-> now + CodeTTL,
                      used |-> FALSE, minted_family |-> None]],
              <<"codes">>, "coded", k)
      /\ UNCHANGED <<disk, now, mintedBy, born>>

RedeemableTwice(k) == disk.codes[k] # Absent /\ disk.codes[k].expires > now   \* mutant
Redeemable(k) ==
  disk.codes[k] # Absent /\ ~disk.codes[k].used /\ disk.codes[k].expires > now

\* consume_code: the authorize handler burns a code it must not hand out.
ConsumeCode(p, k) ==
  /\ Acquires(p)
  /\ k <= minted.code
  /\ IF Redeemable(k)
       THEN Plan(p, [disk EXCEPT !.codes[k].used = TRUE], <<"codes">>, "consumed", k)
       ELSE Keep(p, "invalid", None)
  /\ UNCHANGED <<disk, minted, now, mintedBy, born>>

\* exchange_code on a code already spent: its family, if it minted one, dies.
ExchangeSpent(p, k) ==
  /\ Acquires(p)
  /\ k <= minted.code
  /\ disk.codes[k] # Absent
  /\ disk.codes[k].used
  /\ LET f    == disk.codes[k].minted_family
         burn == IF f = None THEN {} ELSE FamilyTokens(f)
     IN  Plan(p, [disk EXCEPT !.tokens = Revoking(@, burn)],
              TokensIfChanged(burn), "replay", f)
  /\ UNCHANGED <<disk, minted, now, mintedBy, born>>

\* exchange_code on an unknown or expired code.
ExchangeStale(p, k) ==
  /\ Acquires(p)
  /\ k <= minted.code
  /\ disk.codes[k] # Absent => ~disk.codes[k].used /\ disk.codes[k].expires <= now
  /\ Keep(p, "invalid", None)
  /\ UNCHANGED <<disk, minted, now, mintedBy, born>>

\* exchange_code on a good code, with a failed binding or a client that is
\* no longer registered: presenting the code spends it all the same.
ExchangeRefused(p, k) ==
  /\ Acquires(p)
  /\ k <= minted.code
  /\ Redeemable(k)
  /\ Plan(p, [disk EXCEPT !.codes[k].used = TRUE], <<"codes">>, "invalid", None)
  /\ UNCHANGED <<disk, minted, now, mintedBy, born>>

ExchangeTokensFirst == <<"tokens", "codes">>   \* mutant
ExchangeOrder       == <<"codes", "tokens">>

\* exchange_code that mints: the code is spent and linked to the new family,
\* codes.json first, then tokens.json.
ExchangeMints(p, k) ==
  LET n     == minted.pair + 1
      spent == [disk.codes[k] EXCEPT !.used = TRUE, !.minted_family = n]
  IN  /\ Acquires(p)
      /\ k <= minted.code
      /\ Redeemable(k)
      /\ disk.codes[k].client \in disk.clients
      /\ n <= MaxPair
      /\ minted' = [minted EXCEPT !.pair = n]
      /\ mintedBy' = [mintedBy EXCEPT ![n] = k]
      /\ Plan(p, [disk EXCEPT !.codes[k] = spent,
                              !.tokens = WithPair(@, n, n, disk.codes[k].client)],
              ExchangeOrder, "issued", n)
      /\ UNCHANGED <<disk, now, born>>

ExchangeCode(p, k) ==
  ExchangeSpent(p, k) \/ ExchangeStale(p, k) \/ ExchangeRefused(p, k) \/ ExchangeMints(p, k)

\* rotate_refresh_for_client on a token that was rotated before: reuse, and
\* the whole family dies, whatever client presents it.
RotateReused(p, n) ==
  LET t == <<"refresh", n>>
      f == disk.tokens[t].family
  IN  /\ Acquires(p)
      /\ OnDisk(t)
      /\ disk.tokens[t].rotated_to # None
      /\ Plan(p, [disk EXCEPT !.tokens = Revoking(@, FamilyTokens(f))],
              <<"tokens">>, "reuse", f)
      /\ UNCHANGED <<disk, minted, now, mintedBy, born>>

\* The refresh token n may still be rotated, when the client matches.
Rotatable(n) ==
  LET t == <<"refresh", n>>
  IN  OnDisk(t) /\ disk.tokens[t].rotated_to = None
                /\ ~disk.tokens[t].revoked /\ disk.tokens[t].expires > now

\* An unknown, revoked or expired token, or one of another client: nothing
\* changes.  An access token is refused the same way.
RotateInvalid(p, n, client) ==
  LET t == <<"refresh", n>>
  IN  /\ Acquires(p)
      /\ n <= minted.pair
      /\ OnDisk(t) => /\ disk.tokens[t].rotated_to = None
                      /\ Rotatable(n) => client \notin {None, disk.tokens[t].client}
      /\ Keep(p, "invalid", None)
      /\ UNCHANGED <<disk, minted, now, mintedBy, born>>

\* The presented token, spent: the tripwire of reuse detection.
StillLive(rec, m) == [rec EXCEPT !.rotated_to = m]   \* mutant
RotatedTo(rec, m) == [rec EXCEPT !.revoked = TRUE, !.rotated_to = m]

\* The old refresh token is spent and a pair of the same family takes over.
RotateMints(p, n, client) ==
  LET t   == <<"refresh", n>>
      rec == disk.tokens[t]
      m   == minted.pair + 1
      old == [disk.tokens EXCEPT ![t] = RotatedTo(rec, m)]
  IN  /\ Acquires(p)
      /\ Rotatable(n)
      /\ client \in {None, rec.client}
      /\ m <= MaxPair
      /\ minted' = [minted EXCEPT !.pair = m]
      /\ Plan(p, [disk EXCEPT !.tokens = WithPair(old, m, rec.family, rec.client)],
              <<"tokens">>, "rotated", m)
      /\ UNCHANGED <<disk, now, mintedBy, born>>

RotateRefreshForClient(p, n, client) ==
  RotateReused(p, n) \/ RotateInvalid(p, n, client) \/ RotateMints(p, n, client)

\* revoke_tokens: by id (one token), by family or by client.
Selection(by, x) ==
  CASE by = "id"     -> {t \in Token : t = x /\ OnDisk(t)}
    [] by = "family" -> FamilyTokens(x)
    [] by = "client" -> ClientTokens(x)

RevokeTokens(p, by, x) ==
  LET ts == Selection(by, x)
  IN  /\ Acquires(p)
      /\ ts # {}
      /\ Plan(p, [disk EXCEPT !.tokens = Revoking(@, ts)],
              TokensIfChanged(ts), "revoked", None)
      /\ UNCHANGED <<disk, minted, now, mintedBy, born>>

\* The saves of remove_client, given whether it revoked tokens and whether
\* it deleted codes: the registration last.
RemovalClientFirst(revoked, deleted) ==   \* mutant
  IF revoked THEN <<"clients", "tokens", "codes">> ELSE <<"clients", "codes">>
RemovalOrder(revoked, deleted) ==
  CASE revoked /\ deleted  -> <<"tokens", "codes", "clients">>
    [] revoked /\ ~deleted -> <<"tokens", "clients">>
    [] ~revoked /\ deleted -> <<"codes", "clients">>
    [] OTHER               -> <<"clients">>

\* remove_client: revoke its tokens, delete its codes, drop it.
RemoveClient(p, c) ==
  LET ts == ClientTokens(c)
      ks == {k \in Code : disk.codes[k] # Absent /\ disk.codes[k].client = c}
  IN  /\ Acquires(p)
      /\ c \in disk.clients
      /\ Plan(p, [clients |-> disk.clients \ {c},
                  codes   |-> [k \in Code |-> IF k \in ks THEN Absent ELSE disk.codes[k]],
                  tokens  |-> Revoking(disk.tokens, ts)],
              RemovalOrder(\E t \in ts : Live(t), ks # {}), "removed", c)
      /\ UNCHANGED <<disk, minted, now, mintedBy, born>>

\* purge_expired, run once when the gateway starts.  A spent code that
\* minted a family is kept RefreshTTL longer than its own expiry.
KeptCode(rec) ==
  \/ rec.expires > now
  \/ rec.used /\ rec.minted_family # None /\ now <= rec.expires + RefreshTTL

\* Each file is saved only if a record was dropped from it.
PurgeOrder(codes, tokens) ==
  CASE codes /\ tokens  -> <<"codes", "tokens">>
    [] codes /\ ~tokens -> <<"codes">>
    [] ~codes /\ tokens -> <<"tokens">>
    [] OTHER            -> << >>

PurgeExpired(p) ==
  LET ks == {k \in Code : disk.codes[k] # Absent /\ ~KeptCode(disk.codes[k])}
      ts == {t \in Token : OnDisk(t) /\ disk.tokens[t].expires <= now}
  IN  /\ Acquires(p)
      /\ Plan(p, [disk EXCEPT
                    !.codes  = [k \in Code |-> IF k \in ks THEN Absent ELSE @[k]],
                    !.tokens = [t \in Token |-> IF t \in ts THEN Absent ELSE @[t]]],
              PurgeOrder(ks # {}, ts # {}), "purged", None)
      /\ UNCHANGED <<disk, minted, now, mintedBy, born>>

Operation(p) ==
  \/ RegisterClient(p)
  \/ \E c \in Client : IssueCode(p, c) \/ RemoveClient(p, c) \/ RevokeTokens(p, "client", c)
  \/ \E k \in Code : ConsumeCode(p, k) \/ ExchangeCode(p, k)
  \/ \E n \in Pair, client \in Client \cup {None} : RotateRefreshForClient(p, n, client)
  \/ \E f \in Family : RevokeTokens(p, "family", f)
  \/ \E t \in Token : RevokeTokens(p, "id", t)
  \/ PurgeExpired(p)

Next ==
  \/ Tick
  \/ \E p \in Proc : Operation(p) \/ Save(p) \/ Return(p) \/ Abort(p)

Spec == Init /\ [][Next]_vars

-----------------------------------------------------------------------------
(* Properties.                                                             *)

\* A client that is not registered holds no unrevoked token, at any point
\* between the writes of remove_client and of an exchange, and after a crash
\* there: "never a client that looks removed but still holds live tokens".
LiveTokenHasClient ==
  \A t \in Token : Live(t) => disk.tokens[t].client \in disk.clients

\* Why LiveTokenHasClient survives a crash between two saves: only the lock
\* holder has saves left, the tokens it still has to save suit the clients on
\* disk, and when it drops a client the tokens suit that too by then.
Listed(tokens, clients) ==
  \A t \in Token : tokens[t] # Absent /\ ~tokens[t].revoked => tokens[t].client \in clients

Pending(order) == {order[i] : i \in DOMAIN order}

ClientInv ==
  /\ Listed(disk.tokens, disk.clients)
  /\ \A p \in Proc : todo[p] # << >> => lock = p
  /\ \A p \in Proc :
       LET later == Pending(todo[p])
       IN  /\ "tokens" \in later => Listed(copy[p].tokens, disk.clients)
           /\ "clients" \in later =>
                Listed(IF "tokens" \in later THEN copy[p].tokens ELSE disk.tokens,
                       copy[p].clients)

\* A refresh token is single-use: whatever was rotated, revoked or lost in a
\* crash, a family never has two refresh tokens that could both be rotated.
SingleUseRefresh ==
  \A m, n \in Pair :
    LET a == <<"refresh", m>>
        b == <<"refresh", n>>
    IN  Live(a) /\ Live(b) /\ disk.tokens[a].family = disk.tokens[b].family => m = n

\* No live token stands beside the code it came from unless that code is
\* spent and names the token's family: a replay of the code always finds
\* what to revoke, and the code never mints a second family.
CodeSpentAndLinked ==
  \A t \in Token :
    OnDisk(t) =>
      LET f == disk.tokens[t].family
          k == mintedBy[f]
      IN  /\ k # None
          /\ disk.codes[k] # Absent =>
               disk.codes[k].used /\ disk.codes[k].minted_family = f
          /\ \A g \in born : mintedBy[g] = k => g = f

\* When an operation is about to return, the files bear its answer out: a
\* replay or reuse leaves its family dead, a removed client has no tokens and
\* no codes, a pair handed out is on disk with its code spent.
AnswersMatchDisk ==
  \A p \in Proc : lock = p /\ todo[p] = << >> =>
    LET x == answer[p].subject
        k == answer[p].kind
    IN  /\ k \in {"replay", "reuse"} => \A t \in FamilyTokens(x) : ~Live(t)
        /\ k = "removed" =>
             /\ x \notin disk.clients
             /\ \A t \in ClientTokens(x) : ~Live(t)
             /\ \A c \in Code : disk.codes[c] # Absent => disk.codes[c].client # x
        /\ k \in {"issued", "rotated"} => \A kind \in Kind : Live(<<kind, x>>)

\* Revocation is final: no write of any operation, whatever it had loaded,
\* brings a revoked token back, and a family with no live refresh token left
\* never gets one again.
NoResurrection ==
  [][/\ \A t \in Token : OnDisk(t) /\ ~Live(t) => ~Live(t)'
     /\ \A f \in born :
          (\A t \in FamilyTokens(f) : t[1] = "refresh" => ~Live(t))
            => (\A t \in FamilyTokens(f)' : t[1] = "refresh" => ~Live(t)')]_vars

\* The store implements TokenSessions: every save is one step of it or none,
\* and so is every crash.
CurrentRefresh(f) == {n \in Pair : LET t == <<"refresh", n>>
                                   IN  Live(t) /\ disk.tokens[t].family = f}

PhaseOf(f) == IF CurrentRefresh(f) # {} THEN "live"
              ELSE IF f \in born THEN "closed" ELSE "unborn"
CurrentOf(f) == IF CurrentRefresh(f) = {} THEN None ELSE CHOOSE n \in CurrentRefresh(f) : TRUE
OpenerOf(f)  == IF f \in born THEN mintedBy[f] ELSE None

Sessions == INSTANCE TokenSessions WITH
  Token    <- Pair,
  phase    <- [f \in Family |-> PhaseOf(f)],
  current  <- [f \in Family |-> CurrentOf(f)],
  openedBy <- [f \in Family |-> OpenerOf(f)]

ImplementsSessions == Sessions!Spec

\* The files are written under the lock only, one operation at a time: an
\* operation that crashed has no saves left that a later one could meet.
AsExclusion == INSTANCE Exclusion WITH Locker <- Proc, inside <- Proc \cap {lock}, guarded <- disk
WritesAreSerial == AsExclusion!Spec

\* purge_expired's doc says a spent, family-linked code is kept "long enough
\* to outlive every token that family could still be rotating".
CodeOutlivesFamily ==
  \A n \in Pair : Rotatable(n) =>
    disk.codes[mintedBy[disk.tokens[<<"refresh", n>>].family]] # Absent
=============================================================================
