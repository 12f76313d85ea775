-------------------------- MODULE AuthStoreProofs --------------------------
(* Proofs about AuthStore and Authorize, for every value of their constants. *)
EXTENDS Authorize, TLAPS

(***************************************************************************)
(* Lemmas about the helpers: what each edit of the files leaves in them.   *)
(***************************************************************************)

LEMMA RevokingType ==
  ASSUME NEW tokens \in [Token -> TokenRecord \cup {Absent}], NEW ts
  PROVE  Revoking(tokens, ts) \in [Token -> TokenRecord \cup {Absent}]
  BY DEF Revoking, TokenRecord

LEMMA WithPairType ==
  ASSUME NEW tokens \in [Token -> TokenRecord \cup {Absent}],
         NEW n \in Pair, NEW f \in Family, NEW c \in Client, now \in Nat
  PROVE  WithPair(tokens, n, f, c) \in [Token -> TokenRecord \cup {Absent}]
  <1>1. \A ttl \in Nat :
          [family |-> f, client |-> c, expires |-> now + ttl,
           revoked |-> FALSE, rotated_to |-> None] \in TokenRecord
    BY DEF TokenRecord
  <1>2. AccessTTL \in Nat /\ RefreshTTL \in Nat
    BY BoundsAssumption
  <1>3. <<"access", n>> \in Token /\ <<"refresh", n>> \in Token
    BY DEF Token, Kind
  <1> QED BY <1>1, <1>2, <1>3 DEF WithPair

LEMMA PlanType ==
  ASSUME NEW p \in Proc, TypeOK, NEW files \in Files, NEW order \in Todos,
         NEW kind \in {"none", "registered", "invalid", "coded", "consumed", "issued",
                       "replay", "rotated", "reuse", "revoked", "removed", "purged"},
         NEW subject \in Nat, Plan(p, files, order, kind, subject)
  PROVE  /\ copy' \in [Proc -> Files]
         /\ todo' \in [Proc -> Todos]
         /\ answer' \in [Proc -> Answers]
  BY DEF TypeOK, Plan, Answers

\* The saves an operation plans are one of the listed orders.
LEMMA OrderType ==
  ASSUME NEW ts, NEW a \in BOOLEAN, NEW b \in BOOLEAN
  PROVE  /\ TokensIfChanged(ts) \in Todos
         /\ RemovalOrder(a, b) \in Todos
         /\ PurgeOrder(a, b) \in Todos
         /\ ExchangeOrder \in Todos
  <1>1. TokensIfChanged(ts) \in Todos
    BY DEF TokensIfChanged, Todos
  <1>2. RemovalOrder(a, b) \in Todos
    BY DEF RemovalOrder, Todos
  <1>3. PurgeOrder(a, b) \in Todos
    BY DEF PurgeOrder, Todos
  <1>4. ExchangeOrder \in Todos
    BY DEF ExchangeOrder, Todos
  <1> QED BY <1>1, <1>2, <1>3, <1>4

\* The next file to save, and what is left to save after it.
LEMMA TodoSteps ==
  ASSUME NEW s \in Todos, s # << >>
  PROVE  Head(s) \in {"clients", "codes", "tokens"} /\ Tail(s) \in Todos
  <1>0. << >> \in Todos
    BY DEF Todos
  <1>a. CASE s = <<"clients">>
    <2>1. Head(s) = "clients" /\ Tail(s) = << >>
      BY <1>a
    <2> QED BY <1>0, <2>1
  <1>b. CASE s = <<"codes">>
    <2>1. Head(s) = "codes" /\ Tail(s) = << >>
      BY <1>b
    <2> QED BY <1>0, <2>1
  <1>c. CASE s = <<"tokens">>
    <2>1. Head(s) = "tokens" /\ Tail(s) = << >>
      BY <1>c
    <2> QED BY <1>0, <2>1
  <1>2. CASE s = <<"codes", "tokens">>
    <2>1. Head(s) = "codes" /\ Tail(s) = <<"tokens">>
      BY <1>2
    <2> QED BY <2>1 DEF Todos
  <1>3. CASE s = <<"codes", "clients">>
    <2>1. Head(s) = "codes" /\ Tail(s) = <<"clients">>
      BY <1>3
    <2> QED BY <2>1 DEF Todos
  <1>4. CASE s = <<"tokens", "clients">>
    <2>1. Head(s) = "tokens" /\ Tail(s) = <<"clients">>
      BY <1>4
    <2> QED BY <2>1 DEF Todos
  <1>5. CASE s = <<"tokens", "codes", "clients">>
    <2>1. Head(s) = "tokens" /\ Tail(s) = <<"codes", "clients">>
      BY <1>5
    <2> QED BY <2>1 DEF Todos
  <1> QED BY <1>a, <1>b, <1>c, <1>2, <1>3, <1>4, <1>5 DEF Todos

\* A save replaces one file by the copy of the lock holder.
LEMMA SaveEffect ==
  ASSUME TypeOK, NEW p \in Proc, Save(p)
  PROVE  /\ disk' \in Files
         /\ todo' \in [Proc -> Todos]
         /\ todo'[p] = Tail(todo[p])
         /\ \A q \in Proc \ {p} : todo'[q] = todo[q]
         /\ disk'.clients = IF Head(todo[p]) = "clients" THEN copy[p].clients ELSE disk.clients
         /\ disk'.codes = IF Head(todo[p]) = "codes" THEN copy[p].codes ELSE disk.codes
         /\ disk'.tokens = IF Head(todo[p]) = "tokens" THEN copy[p].tokens ELSE disk.tokens
  <1> USE DEF TypeOK
  <1>a. todo[p] \in Todos /\ todo[p] # << >>
    BY DEF Save
  <1>1. PICK file \in {"clients", "codes", "tokens"} : file = Head(todo[p])
    BY <1>a, TodoSteps
  <1>2. Tail(todo[p]) \in Todos
    BY <1>a, TodoSteps
  <1>3. disk' = [disk EXCEPT ![file] = copy[p][file]]
    BY <1>1 DEF Save
  <1>4. copy[p] \in Files
    OBVIOUS
  <1>5. CASE file = "clients"
    BY <1>1, <1>2, <1>3, <1>4, <1>5 DEF Save, Files
  <1>6. CASE file = "codes"
    BY <1>1, <1>2, <1>3, <1>4, <1>6 DEF Save, Files
  <1>7. CASE file = "tokens"
    BY <1>1, <1>2, <1>3, <1>4, <1>7 DEF Save, Files
  <1> QED BY <1>1, <1>5, <1>6, <1>7

-----------------------------------------------------------------------------
(* Type correctness.                                                       *)

\* What every operation leaves typed, given the copies it plans to save.
LEMMA OperationType ==
  ASSUME TypeOK, NEW p \in Proc, Acquires(p),
         NEW files \in Files, NEW order \in Todos,
         NEW kind \in {"none", "registered", "invalid", "coded", "consumed", "issued",
                       "replay", "rotated", "reuse", "revoked", "removed", "purged"},
         NEW subject \in Nat, Plan(p, files, order, kind, subject),
         UNCHANGED <<disk, now, born>>,
         minted' \in [client: 0..MaxClient, code: 0..MaxCode, pair: 0..MaxPair],
         mintedBy' \in [Family -> Code \cup {None}]
  PROVE  TypeOK'
  BY PlanType DEF TypeOK, Acquires

LEMMA TypeInit == Init => TypeOK
  <1> SUFFICES ASSUME Init PROVE TypeOK
    OBVIOUS
  <1>1. NoFiles \in Files
    BY DEF NoFiles, Files
  <1>2. << >> \in Todos /\ Silent \in Answers
    BY DEF Todos, Silent, Answers, None
  <1>3. minted \in [client: 0..MaxClient, code: 0..MaxCode, pair: 0..MaxPair]
    BY BoundsAssumption DEF Init
  <1> QED BY <1>1, <1>2, <1>3 DEF Init, TypeOK, None

LEMMA TypeStep == TypeOK /\ [Next]_vars => TypeOK'
  <1> SUFFICES ASSUME TypeOK, [Next]_vars PROVE TypeOK'
    OBVIOUS
  <1>a. << >> \in Todos /\ None \in Nat
    BY DEF Todos, None
  <1>b. disk \in Files /\ disk.clients \subseteq Client
        /\ disk.codes \in [Code -> CodeRecord \cup {Absent}]
        /\ disk.tokens \in [Token -> TokenRecord \cup {Absent}]
    BY DEF TypeOK, Files
  <1>c. now \in Nat
    BY DEF TypeOK
  <1>d. MaxClient \in Nat /\ MaxCode \in Nat /\ MaxPair \in Nat /\ CodeTTL \in Nat
    BY BoundsAssumption
  <1>1. ASSUME NEW p \in Proc, RegisterClient(p) PROVE TypeOK'
    <2> DEFINE c == minted.client + 1
    <2>1. c \in Client /\ c \in Nat
      BY <1>1, <1>d DEF RegisterClient, TypeOK, Client
    <2>2. minted' \in [client: 0..MaxClient, code: 0..MaxCode, pair: 0..MaxPair]
      BY <1>1, <2>1, <1>d DEF RegisterClient, TypeOK
    <2>3. [disk EXCEPT !.clients = @ \cup {c}] \in Files /\ <<"clients">> \in Todos
      BY <2>1, <1>b DEF Files, Todos
    <2>4. CASE Keep(p, "invalid", None)
      BY <1>1, <1>a, <1>b, <2>2, <2>4, OperationType DEF RegisterClient, Keep, TypeOK
    <2>5. CASE Plan(p, [disk EXCEPT !.clients = @ \cup {c}], <<"clients">>, "registered", c)
      BY <1>1, <2>1, <2>2, <2>3, <2>5, OperationType DEF RegisterClient, TypeOK
    <2> QED BY <1>1, <2>4, <2>5 DEF RegisterClient
  <1>2. ASSUME NEW p \in Proc, NEW c \in Client, IssueCode(p, c) PROVE TypeOK'
    <2> DEFINE k == minted.code + 1
               rec == [client |-> c, expires |-> now + CodeTTL,
                       used |-> FALSE, minted_family |-> None]
    <2>1. k \in Code /\ k \in Nat
      BY <1>2, <1>d DEF IssueCode, TypeOK, Code
    <2>2. minted' \in [client: 0..MaxClient, code: 0..MaxCode, pair: 0..MaxPair]
      BY <1>2, <2>1, <1>d DEF IssueCode, TypeOK
    <2>3. rec \in CodeRecord
      BY <1>c, <1>d DEF CodeRecord
    <2>4. [disk EXCEPT !.codes[k] = rec] \in Files /\ <<"codes">> \in Todos
      BY <2>1, <2>3, <1>b DEF Files, Todos
    <2> QED BY <1>2, <2>1, <2>2, <2>4, OperationType DEF IssueCode, TypeOK
  <1>3. ASSUME NEW p \in Proc, NEW k \in Code, ConsumeCode(p, k) PROVE TypeOK'
    <2>1. CASE Redeemable(k)
      <3>1. [disk EXCEPT !.codes[k].used = TRUE] \in Files
        BY <1>b, <2>1 DEF Redeemable, Files, CodeRecord
      <3>2. <<"codes">> \in Todos /\ k \in Nat
        BY DEF Todos, Code
      <3> QED BY <1>3, <2>1, <3>1, <3>2, OperationType DEF ConsumeCode, TypeOK
    <2>2. CASE ~Redeemable(k)
      BY <1>3, <2>2, <1>a, <1>b, OperationType DEF ConsumeCode, Keep, TypeOK
    <2> QED BY <2>1, <2>2
  <1>4. ASSUME NEW p \in Proc, NEW k \in Code, ExchangeSpent(p, k) PROVE TypeOK'
    <2> DEFINE f == disk.codes[k].minted_family
               burn == IF f = None THEN {} ELSE FamilyTokens(f)
               files == [disk EXCEPT !.tokens = Revoking(@, burn)]
    <2>1. f \in Nat
      BY <1>b, <1>4 DEF ExchangeSpent, CodeRecord, Family, Pair, None
    <2>2. files \in Files
      BY <1>b, RevokingType DEF Files
    <2>3. TokensIfChanged(burn) \in Todos
      BY OrderType
    <2>4. Plan(p, files, TokensIfChanged(burn), "replay", f)
      BY <1>4 DEF ExchangeSpent
    <2> HIDE DEF f, burn, files
    <2> QED BY <1>4, <2>1, <2>2, <2>3, <2>4, OperationType DEF ExchangeSpent, TypeOK
  <1>5. ASSUME NEW p \in Proc, NEW k \in Code, ExchangeStale(p, k) PROVE TypeOK'
    BY <1>5, <1>a, <1>b, OperationType DEF ExchangeStale, Keep, TypeOK
  <1>6. ASSUME NEW p \in Proc, NEW k \in Code, ExchangeRefused(p, k) PROVE TypeOK'
    <2>1. [disk EXCEPT !.codes[k].used = TRUE] \in Files
      BY <1>b, <1>6 DEF ExchangeRefused, Redeemable, Files, CodeRecord
    <2>2. <<"codes">> \in Todos
      BY DEF Todos
    <2> QED BY <1>6, <1>a, <2>1, <2>2, OperationType DEF ExchangeRefused, TypeOK
  <1>7. ASSUME NEW p \in Proc, NEW k \in Code, ExchangeMints(p, k) PROVE TypeOK'
    <2> DEFINE n == minted.pair + 1
               spent == [disk.codes[k] EXCEPT !.used = TRUE, !.minted_family = n]
               files == [disk EXCEPT !.codes[k] = spent,
                              !.tokens = WithPair(@, n, n, disk.codes[k].client)]
    <2>1. n \in Pair /\ n \in Family /\ n \in Nat
      BY <1>7, <1>d DEF ExchangeMints, TypeOK, Pair, Family
    <2>2. minted' \in [client: 0..MaxClient, code: 0..MaxCode, pair: 0..MaxPair]
      BY <1>7, <2>1, <1>d DEF ExchangeMints, TypeOK
    <2>3. disk.codes[k] \in CodeRecord
      BY <1>7, <1>b DEF ExchangeMints, Redeemable
    <2>4. spent \in CodeRecord /\ disk.codes[k].client \in Client
      BY <2>1, <2>3 DEF CodeRecord
    <2>5. WithPair(disk.tokens, n, n, disk.codes[k].client)
             \in [Token -> TokenRecord \cup {Absent}]
      BY <1>b, <1>c, <2>1, <2>4, WithPairType
    <2>6. files \in Files
      BY <1>b, <2>4, <2>5 DEF Files
    <2>7. mintedBy' \in [Family -> Code \cup {None}]
      BY <1>7, <2>1 DEF ExchangeMints, TypeOK
    <2>8. Acquires(p) /\ Plan(p, files, ExchangeOrder, "issued", n)
          /\ UNCHANGED <<disk, now, born>>
      BY <1>7 DEF ExchangeMints
    <2>9. ExchangeOrder \in Todos
      BY OrderType
    <2> HIDE DEF n, spent, files
    <2> QED BY <2>1, <2>2, <2>6, <2>7, <2>8, <2>9, OperationType
  <1>8. ASSUME NEW p \in Proc, NEW n \in Pair, RotateReused(p, n) PROVE TypeOK'
    <2> DEFINE f == disk.tokens[<<"refresh", n>>].family
               files == [disk EXCEPT !.tokens = Revoking(@, FamilyTokens(f))]
    <2>1. <<"refresh", n>> \in Token
      BY DEF Token, Kind
    <2>2. f \in Nat
      BY <1>b, <1>8, <2>1 DEF RotateReused, OnDisk, TokenRecord, Family, Pair
    <2>3. files \in Files
      BY <1>b, RevokingType DEF Files
    <2>4. Acquires(p) /\ Plan(p, files, <<"tokens">>, "reuse", f)
          /\ UNCHANGED <<disk, minted, now, mintedBy, born>>
      BY <1>8 DEF RotateReused
    <2>5. <<"tokens">> \in Todos
      BY DEF Todos
    <2> HIDE DEF f, files
    <2> QED BY <2>2, <2>3, <2>4, <2>5, OperationType DEF TypeOK
  <1>9. ASSUME NEW p \in Proc, NEW n \in Pair, NEW c \in Client \cup {None},
               RotateInvalid(p, n, c)
        PROVE  TypeOK'
    BY <1>9, <1>a, <1>b, OperationType DEF RotateInvalid, Keep, TypeOK
  <1>10. ASSUME NEW p \in Proc, NEW n \in Pair, NEW c \in Client \cup {None},
                RotateMints(p, n, c)
         PROVE  TypeOK'
    <2> DEFINE t == <<"refresh", n>>
               rec == disk.tokens[t]
               m == minted.pair + 1
               old == [disk.tokens EXCEPT ![t] = RotatedTo(rec, m)]
               files == [disk EXCEPT !.tokens = WithPair(old, m, rec.family, rec.client)]
    <2>1. m \in Pair /\ m \in Nat
      BY <1>10, <1>d DEF RotateMints, TypeOK, Pair
    <2>2. minted' \in [client: 0..MaxClient, code: 0..MaxCode, pair: 0..MaxPair]
      BY <1>10, <2>1, <1>d DEF RotateMints, TypeOK
    <2>3. t \in Token
      BY DEF Token, Kind
    <2>4. rec \in TokenRecord
      BY <1>10, <1>b, <2>3 DEF RotateMints, Rotatable, OnDisk
    <2>5. RotatedTo(rec, m) \in TokenRecord /\ rec.family \in Family /\ rec.client \in Client
      BY <2>1, <2>4 DEF RotatedTo, TokenRecord
    <2>6. old \in [Token -> TokenRecord \cup {Absent}]
      BY <1>b, <2>5
    <2>7. WithPair(old, m, rec.family, rec.client) \in [Token -> TokenRecord \cup {Absent}]
      BY <1>c, <2>1, <2>5, <2>6, WithPairType
    <2>8. files \in Files
      BY <1>b, <2>7 DEF Files
    <2>9. Acquires(p) /\ Plan(p, files, <<"tokens">>, "rotated", m)
          /\ UNCHANGED <<disk, now, mintedBy, born>>
      BY <1>10 DEF RotateMints
    <2>10. <<"tokens">> \in Todos
      BY DEF Todos
    <2> HIDE DEF t, rec, m, old, files
    <2> QED BY <2>1, <2>2, <2>8, <2>9, <2>10, OperationType DEF TypeOK
  <1>11. ASSUME NEW p \in Proc, NEW by, NEW x, RevokeTokens(p, by, x) PROVE TypeOK'
    <2> DEFINE ts == Selection(by, x)
               files == [disk EXCEPT !.tokens = Revoking(@, ts)]
    <2>1. files \in Files
      BY <1>b, RevokingType DEF Files
    <2>2. TokensIfChanged(ts) \in Todos
      BY OrderType
    <2>3. Acquires(p) /\ Plan(p, files, TokensIfChanged(ts), "revoked", None)
          /\ UNCHANGED <<disk, minted, now, mintedBy, born>>
      BY <1>11 DEF RevokeTokens
    <2> HIDE DEF ts, files
    <2> QED BY <1>a, <2>1, <2>2, <2>3, OperationType DEF TypeOK
  <1>12. ASSUME NEW p \in Proc, NEW c \in Client, RemoveClient(p, c) PROVE TypeOK'
    <2> DEFINE ts == ClientTokens(c)
               ks == {k \in Code : disk.codes[k] # Absent /\ disk.codes[k].client = c}
               files == [clients |-> disk.clients \ {c},
                  codes   |-> [k \in Code |-> IF k \in ks THEN Absent ELSE disk.codes[k]],
                  tokens  |-> Revoking(disk.tokens, ts)]
               order == RemovalOrder(\E t \in ts : Live(t), ks # {})
    <2>1. files \in Files
      BY <1>b, RevokingType DEF Files
    <2>2. order \in Todos
      BY OrderType
    <2>3. Acquires(p) /\ Plan(p, files, order, "removed", c)
          /\ UNCHANGED <<disk, minted, now, mintedBy, born>>
      BY <1>12 DEF RemoveClient
    <2>4. c \in Nat
      BY DEF Client
    <2> HIDE DEF ts, ks, files, order
    <2> QED BY <2>1, <2>2, <2>3, <2>4, OperationType DEF TypeOK
  <1>13. ASSUME NEW p \in Proc, PurgeExpired(p) PROVE TypeOK'
    <2> DEFINE ks == {k \in Code : disk.codes[k] # Absent /\ ~KeptCode(disk.codes[k])}
               ts == {t \in Token : OnDisk(t) /\ disk.tokens[t].expires <= now}
               files == [disk EXCEPT
                    !.codes  = [k \in Code |-> IF k \in ks THEN Absent ELSE @[k]],
                    !.tokens = [t \in Token |-> IF t \in ts THEN Absent ELSE @[t]]]
    <2>1. files \in Files
      BY <1>b DEF Files
    <2>2. PurgeOrder(ks # {}, ts # {}) \in Todos
      BY OrderType
    <2>3. Acquires(p) /\ Plan(p, files, PurgeOrder(ks # {}, ts # {}), "purged", None)
          /\ UNCHANGED <<disk, minted, now, mintedBy, born>>
      BY <1>13 DEF PurgeExpired
    <2> HIDE DEF ks, ts, files
    <2> QED BY <1>a, <2>1, <2>2, <2>3, OperationType DEF TypeOK
  <1>14. ASSUME NEW p \in Proc, Save(p) PROVE TypeOK'
    <2>1. born' \subseteq Family
      BY <1>14 DEF Save, TypeOK
    <2> QED BY <1>14, <2>1, SaveEffect DEF Save, TypeOK
  <1>15. ASSUME NEW p \in Proc, Return(p) \/ Abort(p) PROVE TypeOK'
    <2>1. NoFiles \in Files /\ Silent \in Answers
      BY DEF NoFiles, Files, Silent, Answers, None
    <2> QED BY <1>15, <1>a, <2>1 DEF Return, Abort, Released, TypeOK
  <1>16. CASE Tick
    BY <1>16, <1>c DEF Tick, TypeOK
  <1>17. CASE UNCHANGED vars
    BY <1>17 DEF vars, TypeOK
  <1> QED
    BY <1>1, <1>2, <1>3, <1>4, <1>5, <1>6, <1>7, <1>8, <1>9, <1>10, <1>11, <1>12, <1>13,
       <1>14, <1>15, <1>16, <1>17
    DEF Next, Operation, ExchangeCode, RotateRefreshForClient

\* The store's files, the copies in memory and the pending saves always have
\* the shape the code's types and write orders give them.
THEOREM TypeCorrect == Spec => []TypeOK
  BY TypeInit, TypeStep, PTL DEF Spec

-----------------------------------------------------------------------------
(* No unregistered client holds a live token.                              *)

\* Which files are still pending after the next save.
LEMMA PendingSteps ==
  ASSUME NEW s \in Todos, s # << >>
  PROVE  /\ Pending(s) = {Head(s)} \cup Pending(Tail(s))
         /\ Head(s) \notin Pending(Tail(s))
         /\ Head(s) = "clients" => Tail(s) = << >>
  <1>0. Pending(<< >>) = {}
    BY DEF Pending
  <1>1. CASE s = <<"clients">>
    <2>1. Head(s) = "clients" /\ Tail(s) = << >>
      BY <1>1
    <2>2. Pending(s) = {"clients"} /\ Pending(Tail(s)) = {}
      BY <1>1, <2>1 DEF Pending
    <2> QED BY <2>1, <2>2
  <1>2. CASE s = <<"codes">>
    <2>1. Head(s) = "codes" /\ Tail(s) = << >>
      BY <1>2
    <2>2. Pending(s) = {"codes"} /\ Pending(Tail(s)) = {}
      BY <1>2, <2>1 DEF Pending
    <2> QED BY <2>1, <2>2
  <1>3. CASE s = <<"tokens">>
    <2>1. Head(s) = "tokens" /\ Tail(s) = << >>
      BY <1>3
    <2>2. Pending(s) = {"tokens"} /\ Pending(Tail(s)) = {}
      BY <1>3, <2>1 DEF Pending
    <2> QED BY <2>1, <2>2
  <1>4. CASE s = <<"codes", "tokens">>
    <2>1. Head(s) = "codes" /\ Tail(s) = <<"tokens">>
      BY <1>4
    <2>2. Pending(s) = {"codes", "tokens"} /\ Pending(Tail(s)) = {"tokens"}
      BY <1>4, <2>1 DEF Pending
    <2> QED BY <2>1, <2>2
  <1>5. CASE s = <<"codes", "clients">>
    <2>1. Head(s) = "codes" /\ Tail(s) = <<"clients">>
      BY <1>5
    <2>2. Pending(s) = {"codes", "clients"} /\ Pending(Tail(s)) = {"clients"}
      BY <1>5, <2>1 DEF Pending
    <2> QED BY <2>1, <2>2
  <1>6. CASE s = <<"tokens", "clients">>
    <2>1. Head(s) = "tokens" /\ Tail(s) = <<"clients">>
      BY <1>6
    <2>2. Pending(s) = {"tokens", "clients"} /\ Pending(Tail(s)) = {"clients"}
      BY <1>6, <2>1 DEF Pending
    <2> QED BY <2>1, <2>2
  <1>7. CASE s = <<"tokens", "codes", "clients">>
    <2>1. Head(s) = "tokens" /\ Tail(s) = <<"codes", "clients">>
      BY <1>7
    <2>2. Pending(s) = {"tokens", "codes", "clients"} /\ Pending(Tail(s)) = {"codes", "clients"}
      BY <1>7, <2>1 DEF Pending
    <2> QED BY <2>1, <2>2
  <1> QED BY <1>1, <1>2, <1>3, <1>4, <1>5, <1>6, <1>7 DEF Todos

LEMMA PendingOrders ==
  /\ Pending(<< >>) = {}
  /\ Pending(<<"clients">>) = {"clients"}
  /\ Pending(<<"codes">>) = {"codes"}
  /\ Pending(<<"tokens">>) = {"tokens"}
  /\ Pending(<<"codes", "tokens">>) = {"codes", "tokens"}
  /\ Pending(<<"codes", "clients">>) = {"codes", "clients"}
  /\ Pending(<<"tokens", "clients">>) = {"tokens", "clients"}
  /\ Pending(<<"tokens", "codes", "clients">>) = {"tokens", "codes", "clients"}
  BY DEF Pending

LEMMA RevokingListed ==
  ASSUME TypeOK, NEW ts, NEW clients, Listed(disk.tokens, clients)
  PROVE  Listed(Revoking(disk.tokens, ts), clients)
  <1>1. disk.tokens \in [Token -> TokenRecord \cup {Absent}]
    BY DEF TypeOK, Files
  <1> QED BY <1>1 DEF Listed, Revoking, TokenRecord

LEMMA WithPairListed ==
  ASSUME NEW tokens \in [Token -> TokenRecord \cup {Absent}], NEW clients,
         NEW n \in Pair, NEW f \in Family, NEW c \in clients,
         Listed(tokens, clients)
  PROVE  Listed(WithPair(tokens, n, f, c), clients)
  <1>1. <<"access", n>> \in Token /\ <<"refresh", n>> \in Token
    BY DEF Token, Kind
  <1> QED BY <1>1 DEF Listed, WithPair

\* What an operation must plan for ClientInv to hold while it saves.
LEMMA OperationListed ==
  ASSUME TypeOK, ClientInv, NEW p \in Proc, Acquires(p),
         NEW files, NEW order, NEW kind, NEW subject,
         Plan(p, files, order, kind, subject), UNCHANGED disk,
         "tokens" \in Pending(order) => Listed(files.tokens, disk.clients),
         "clients" \in Pending(order) =>
           Listed(IF "tokens" \in Pending(order) THEN files.tokens ELSE disk.tokens,
                  files.clients)
  PROVE  ClientInv'
  <1>1. \A q \in Proc : todo[q] = << >>
    BY NoProcAssumption DEF ClientInv, Acquires
  <1>2. copy'[p] = files /\ todo'[p] = order
        /\ \A q \in Proc \ {p} : todo'[q] = << >>
    BY <1>1 DEF Plan, TypeOK
  <1>3. lock' = p
    BY DEF Acquires
  <1> QED BY <1>2, <1>3, PendingOrders DEF ClientInv

LEMMA ListedStep == TypeOK /\ ClientInv /\ [Next]_vars => ClientInv'
  <1> SUFFICES ASSUME TypeOK, ClientInv, [Next]_vars PROVE ClientInv'
    OBVIOUS
  <1>a. disk \in Files /\ disk.clients \subseteq Client
        /\ disk.codes \in [Code -> CodeRecord \cup {Absent}]
        /\ disk.tokens \in [Token -> TokenRecord \cup {Absent}]
    BY DEF TypeOK, Files
  <1>b. Listed(disk.tokens, disk.clients)
    BY DEF ClientInv
  <1>c. "tokens" \notin Pending(<< >>) /\ "clients" \notin Pending(<< >>)
        /\ "tokens" \notin Pending(<<"codes">>) /\ "clients" \notin Pending(<<"codes">>)
        /\ "clients" \notin Pending(<<"tokens">>)
        /\ "clients" \notin Pending(<<"codes", "tokens">>)
        /\ "tokens" \notin Pending(<<"clients">>)
    BY PendingOrders
  \* Operations that save nothing or codes.json only.
  <1>1. ASSUME NEW p \in Proc, NEW files, NEW kind, NEW subject, NEW order,
               order \in {<< >>, <<"codes">>},
               Acquires(p), Plan(p, files, order, kind, subject), UNCHANGED disk
        PROVE  ClientInv'
    BY <1>1, <1>c, OperationListed
  \* Operations that save tokens.json and leave clients.json alone.
  <1>2. ASSUME NEW p \in Proc, NEW files, NEW kind, NEW subject, NEW order,
               order \in {<< >>, <<"codes">>, <<"tokens">>, <<"codes", "tokens">>},
               Acquires(p), Plan(p, files, order, kind, subject), UNCHANGED disk,
               Listed(files.tokens, disk.clients)
        PROVE  ClientInv'
    BY <1>2, <1>c, OperationListed
  <1>3. ASSUME NEW p \in Proc, RegisterClient(p) PROVE ClientInv'
    <2> DEFINE c == minted.client + 1
               files == [disk EXCEPT !.clients = @ \cup {c}]
    <2>1. CASE Keep(p, "invalid", None)
      BY <1>1, <1>3, <2>1 DEF RegisterClient, Keep
    <2>2. CASE Plan(p, files, <<"clients">>, "registered", c)
      <3>1. Listed(disk.tokens, files.clients)
        BY <1>a, <1>b DEF Listed, Files
      <3> QED BY <1>3, <1>c, <2>2, <3>1, OperationListed DEF RegisterClient
    <2> QED BY <1>3, <2>1, <2>2 DEF RegisterClient
  <1>4. ASSUME NEW p \in Proc, NEW c \in Client, IssueCode(p, c) PROVE ClientInv'
    BY <1>1, <1>4 DEF IssueCode
  <1>5. ASSUME NEW p \in Proc, NEW k \in Code, ConsumeCode(p, k) PROVE ClientInv'
    BY <1>1, <1>5 DEF ConsumeCode, Keep
  <1>6. ASSUME NEW p \in Proc, NEW k \in Code, ExchangeSpent(p, k) PROVE ClientInv'
    <2> DEFINE f == disk.codes[k].minted_family
               burn == IF f = None THEN {} ELSE FamilyTokens(f)
               files == [disk EXCEPT !.tokens = Revoking(@, burn)]
    <2>1. Listed(files.tokens, disk.clients)
      BY <1>a, <1>b, RevokingListed DEF Files
    <2>2. TokensIfChanged(burn) \in {<< >>, <<"codes">>, <<"tokens">>, <<"codes", "tokens">>}
      BY DEF TokensIfChanged
    <2>3. Acquires(p) /\ Plan(p, files, TokensIfChanged(burn), "replay", f) /\ UNCHANGED disk
      BY <1>6 DEF ExchangeSpent
    <2> HIDE DEF f, burn, files
    <2> QED BY <1>2, <2>1, <2>2, <2>3
  <1>7. ASSUME NEW p \in Proc, NEW k \in Code, ExchangeStale(p, k) PROVE ClientInv'
    BY <1>1, <1>7 DEF ExchangeStale, Keep
  <1>8. ASSUME NEW p \in Proc, NEW k \in Code, ExchangeRefused(p, k) PROVE ClientInv'
    BY <1>1, <1>8 DEF ExchangeRefused
  <1>9. ASSUME NEW p \in Proc, NEW k \in Code, ExchangeMints(p, k) PROVE ClientInv'
    <2> DEFINE n == minted.pair + 1
               spent == [disk.codes[k] EXCEPT !.used = TRUE, !.minted_family = n]
               files == [disk EXCEPT !.codes[k] = spent,
                              !.tokens = WithPair(@, n, n, disk.codes[k].client)]
    <2>1. n \in Pair /\ n \in Family
      BY <1>9, BoundsAssumption DEF ExchangeMints, TypeOK, Pair, Family
    <2>2. disk.codes[k].client \in disk.clients
      BY <1>9 DEF ExchangeMints
    <2>3. Listed(WithPair(disk.tokens, n, n, disk.codes[k].client), disk.clients)
      BY <1>a, <1>b, <2>1, <2>2, WithPairListed
    <2>4. files.tokens = WithPair(disk.tokens, n, n, disk.codes[k].client)
      BY <1>a DEF Files
    <2>5. Acquires(p) /\ Plan(p, files, <<"codes", "tokens">>, "issued", n) /\ UNCHANGED disk
      BY <1>9 DEF ExchangeMints, ExchangeOrder
    <2> HIDE DEF n, spent, files
    <2> QED BY <1>2, <2>3, <2>4, <2>5
  <1>10. ASSUME NEW p \in Proc, NEW n \in Pair, RotateReused(p, n) PROVE ClientInv'
    <2> DEFINE f == disk.tokens[<<"refresh", n>>].family
               files == [disk EXCEPT !.tokens = Revoking(@, FamilyTokens(f))]
    <2>1. Listed(files.tokens, disk.clients)
      BY <1>a, <1>b, RevokingListed DEF Files
    <2>2. Acquires(p) /\ Plan(p, files, <<"tokens">>, "reuse", f) /\ UNCHANGED disk
      BY <1>10 DEF RotateReused
    <2> HIDE DEF f, files
    <2> QED BY <1>2, <2>1, <2>2
  <1>11. ASSUME NEW p \in Proc, NEW n \in Pair, NEW c \in Client \cup {None},
                RotateInvalid(p, n, c)
         PROVE  ClientInv'
    BY <1>1, <1>11 DEF RotateInvalid, Keep
  <1>12. ASSUME NEW p \in Proc, NEW n \in Pair, NEW c \in Client \cup {None},
                RotateMints(p, n, c)
         PROVE  ClientInv'
    <2> DEFINE t == <<"refresh", n>>
               rec == disk.tokens[t]
               m == minted.pair + 1
               old == [disk.tokens EXCEPT ![t] = RotatedTo(rec, m)]
               files == [disk EXCEPT !.tokens = WithPair(old, m, rec.family, rec.client)]
    <2>1. m \in Pair /\ t \in Token
      BY <1>12, BoundsAssumption DEF RotateMints, TypeOK, Pair, Token, Kind
    <2>2. rec \in TokenRecord /\ ~rec.revoked
      BY <1>12, <1>a, <2>1 DEF RotateMints, Rotatable, OnDisk
    <2>3. rec.client \in disk.clients
      BY <1>12, <1>b, <2>1 DEF RotateMints, Rotatable, OnDisk, Listed
    <2>4. RotatedTo(rec, m) \in TokenRecord /\ rec.family \in Family
          /\ RotatedTo(rec, m).revoked
      BY <2>1, <2>2 DEF RotatedTo, TokenRecord
    <2>5. old \in [Token -> TokenRecord \cup {Absent}] /\ Listed(old, disk.clients)
      BY <1>a, <1>b, <2>1, <2>4 DEF Listed
    <2>6. Listed(WithPair(old, m, rec.family, rec.client), disk.clients)
      BY <2>1, <2>3, <2>4, <2>5, WithPairListed
    <2>7. files.tokens = WithPair(old, m, rec.family, rec.client)
      BY <1>a DEF Files
    <2>8. Acquires(p) /\ Plan(p, files, <<"tokens">>, "rotated", m) /\ UNCHANGED disk
      BY <1>12 DEF RotateMints
    <2> HIDE DEF t, rec, m, old, files
    <2> QED BY <1>2, <2>6, <2>7, <2>8
  <1>13. ASSUME NEW p \in Proc, NEW by, NEW x, RevokeTokens(p, by, x) PROVE ClientInv'
    <2> DEFINE ts == Selection(by, x)
               files == [disk EXCEPT !.tokens = Revoking(@, ts)]
    <2>1. Listed(files.tokens, disk.clients)
      BY <1>a, <1>b, RevokingListed DEF Files
    <2>2. TokensIfChanged(ts) \in {<< >>, <<"codes">>, <<"tokens">>, <<"codes", "tokens">>}
      BY DEF TokensIfChanged
    <2>3. Acquires(p) /\ Plan(p, files, TokensIfChanged(ts), "revoked", None) /\ UNCHANGED disk
      BY <1>13 DEF RevokeTokens
    <2> HIDE DEF ts, files
    <2> QED BY <1>2, <2>1, <2>2, <2>3
  \* remove_client: with its tokens revoked, the rest belong to other clients.
  <1>14. ASSUME NEW p \in Proc, NEW c \in Client, RemoveClient(p, c) PROVE ClientInv'
    <2> DEFINE ts == ClientTokens(c)
               ks == {k \in Code : disk.codes[k] # Absent /\ disk.codes[k].client = c}
               files == [clients |-> disk.clients \ {c},
                  codes   |-> [k \in Code |-> IF k \in ks THEN Absent ELSE disk.codes[k]],
                  tokens  |-> Revoking(disk.tokens, ts)]
               order == RemovalOrder(\E t \in ts : Live(t), ks # {})
    <2>1. Listed(Revoking(disk.tokens, ts), disk.clients)
      BY <1>b, RevokingListed
    <2>2. Listed(Revoking(disk.tokens, ts), disk.clients \ {c})
      BY <1>a, <1>b DEF Listed, Revoking, ClientTokens, OnDisk, TokenRecord
    <2>3. ASSUME ~\E t \in ts : Live(t)
          PROVE  Listed(disk.tokens, disk.clients \ {c})
      BY <1>b, <2>3 DEF Listed, ClientTokens, Live, OnDisk
    <2>4. (\E t \in ts : Live(t)) <=> "tokens" \in Pending(order)
      BY PendingOrders DEF RemovalOrder
    <2>5. files.tokens = Revoking(disk.tokens, ts) /\ files.clients = disk.clients \ {c}
      OBVIOUS
    <2>6. Acquires(p) /\ Plan(p, files, order, "removed", c) /\ UNCHANGED disk
      BY <1>14 DEF RemoveClient
    <2> HIDE DEF ts, ks, files, order
    <2> QED BY <2>1, <2>2, <2>3, <2>4, <2>5, <2>6, OperationListed
  <1>15. ASSUME NEW p \in Proc, PurgeExpired(p) PROVE ClientInv'
    <2> DEFINE ks == {k \in Code : disk.codes[k] # Absent /\ ~KeptCode(disk.codes[k])}
               ts == {t \in Token : OnDisk(t) /\ disk.tokens[t].expires <= now}
               files == [disk EXCEPT
                    !.codes  = [k \in Code |-> IF k \in ks THEN Absent ELSE @[k]],
                    !.tokens = [t \in Token |-> IF t \in ts THEN Absent ELSE @[t]]]
    <2>1. Listed(files.tokens, disk.clients)
      BY <1>a, <1>b DEF Listed, Files
    <2>2. PurgeOrder(ks # {}, ts # {})
            \in {<< >>, <<"codes">>, <<"tokens">>, <<"codes", "tokens">>}
      BY DEF PurgeOrder
    <2>3. Acquires(p) /\ Plan(p, files, PurgeOrder(ks # {}, ts # {}), "purged", None)
          /\ UNCHANGED disk
      BY <1>15 DEF PurgeExpired
    <2> HIDE DEF ks, ts, files
    <2> QED BY <1>2, <2>1, <2>2, <2>3
  <1>16. ASSUME NEW p \in Proc, Save(p) PROVE ClientInv'
    <2> DEFINE s == todo[p]
               h == Head(s)
    <2>1. s \in Todos /\ s # << >>
      BY <1>16 DEF TypeOK, Save
    <2>2. lock = p /\ lock' = lock /\ copy' = copy
      BY <1>16, <2>1 DEF ClientInv, Save
    <2>3. todo'[p] = Tail(s)
      BY <1>16, SaveEffect
    <2>3b. \A q \in Proc \ {p} : todo'[q] = << >>
      BY <1>16, <2>2, SaveEffect DEF ClientInv
    <2>4. /\ Pending(s) = {h} \cup Pending(Tail(s))
          /\ h \notin Pending(Tail(s))
          /\ h = "clients" => Tail(s) = << >>
          /\ h \in {"clients", "codes", "tokens"}
      BY <2>1, PendingSteps, TodoSteps
    <2>5. /\ disk'.clients = IF h = "clients" THEN copy[p].clients ELSE disk.clients
          /\ disk'.tokens = IF h = "tokens" THEN copy[p].tokens ELSE disk.tokens
      BY <1>16, SaveEffect
    <2>6. /\ "tokens" \in Pending(s) => Listed(copy[p].tokens, disk.clients)
          /\ "clients" \in Pending(s) =>
               Listed(IF "tokens" \in Pending(s) THEN copy[p].tokens ELSE disk.tokens,
                      copy[p].clients)
      BY DEF ClientInv
    <2> HIDE DEF s, h
    <2>7. Listed(disk'.tokens, disk'.clients)
      BY <1>b, <1>c, <2>4, <2>5, <2>6
    <2>8. /\ "tokens" \in Pending(Tail(s)) => Listed(copy[p].tokens, disk'.clients)
          /\ "clients" \in Pending(Tail(s)) =>
               Listed(IF "tokens" \in Pending(Tail(s)) THEN copy[p].tokens ELSE disk'.tokens,
                      copy[p].clients)
      BY <1>c, <2>4, <2>5, <2>6
    <2> QED BY <1>c, <2>2, <2>3, <2>3b, <2>7, <2>8 DEF ClientInv
  <1>17. ASSUME NEW p \in Proc, Return(p) \/ Abort(p) PROVE ClientInv'
    <2>1. \A q \in Proc : todo'[q] = << >>
      BY <1>17 DEF Return, Abort, Released, ClientInv, TypeOK
    <2> QED BY <1>17, <1>b, <1>c, <2>1 DEF Return, Abort, ClientInv
  <1>18. CASE Tick
    BY <1>18 DEF Tick, ClientInv
  <1>19. CASE UNCHANGED vars
    BY <1>19 DEF vars, ClientInv
  <1> QED
    BY <1>3, <1>4, <1>5, <1>6, <1>7, <1>8, <1>9, <1>10, <1>11, <1>12, <1>13, <1>14, <1>15,
       <1>16, <1>17, <1>18, <1>19
    DEF Next, Operation, ExchangeCode, RotateRefreshForClient

\* A crash or a failed save of remove_client or exchange_code, at any point,
\* never leaves an unregistered client with an unrevoked token.
THEOREM LiveTokensHaveClients == Spec => []LiveTokenHasClient
  <1>1. Init => ClientInv
    BY PendingOrders DEF Init, NoFiles, ClientInv, Listed
  <1>2. ClientInv => LiveTokenHasClient
    BY DEF ClientInv, Listed, LiveTokenHasClient, Live, OnDisk
  <1> QED BY <1>1, <1>2, TypeCorrect, ListedStep, PTL DEF Spec

-----------------------------------------------------------------------------
(* Writes.  Nothing in Save asks for the lock: that an operation with saves *)
(* left still holds it is ClientInv's.                                      *)

LEMMA OperationTakesLock ==
  ASSUME NEW p \in Proc, Operation(p)
  PROVE  Acquires(p) /\ UNCHANGED disk
  <1> DEFINE Takes == Acquires(p) /\ UNCHANGED disk
  <1>1. CASE RegisterClient(p) \/ PurgeExpired(p)
    BY <1>1, Zenon DEF RegisterClient, PurgeExpired
  <1>2. ASSUME NEW c \in Client, IssueCode(p, c) \/ RemoveClient(p, c) PROVE Takes
    BY <1>2, Zenon DEF IssueCode, RemoveClient
  <1>3. ASSUME NEW by, NEW x, RevokeTokens(p, by, x) PROVE Takes
    BY <1>3, Zenon DEF RevokeTokens
  <1>4. ASSUME NEW k \in Code, ConsumeCode(p, k) \/ ExchangeCode(p, k) PROVE Takes
    BY <1>4, Zenon DEF ConsumeCode, ExchangeCode, ExchangeSpent, ExchangeStale, ExchangeRefused,
                       ExchangeMints
  <1>5. ASSUME NEW n \in Pair, NEW client, RotateRefreshForClient(p, n, client) PROVE Takes
    BY <1>5, Zenon DEF RotateRefreshForClient, RotateReused, RotateInvalid, RotateMints
  <1> QED BY <1>1, <1>2, <1>3, <1>4, <1>5, Zenon DEF Operation

\* The files change only while an operation has the lock, and one at a time
\* has it, crashed ones included.
THEOREM StoreWritesSerially == Spec => WritesAreSerial
  <1>1. Init => ClientInv
    BY PendingOrders DEF Init, NoFiles, ClientInv, Listed
  <1>2. Init => AsExclusion!Init
    BY NoProcAssumption DEF Init, AsExclusion!Init
  <1>3. ASSUME TypeOK, ClientInv, [Next]_vars
        PROVE  [AsExclusion!Next]_(AsExclusion!vars)
    <2>1. ASSUME NEW p \in Proc, Operation(p) PROVE AsExclusion!ComeIn(p)
      BY <2>1, OperationTakesLock, NoProcAssumption DEF Acquires, AsExclusion!ComeIn
    <2>2. ASSUME NEW p \in Proc, Save(p) PROVE AsExclusion!Write
      <3>1. todo[p] # << >> /\ lock' = lock
        BY <2>2 DEF Save
      <3>2. \A q \in Proc : todo[q] # << >> => lock = q
        BY <1>3, Zenon DEF ClientInv
      <3>3. lock = p
        BY <3>1, <3>2
      <3> QED BY <3>1, <3>3 DEF AsExclusion!Write
    <2>3. ASSUME NEW p \in Proc, Return(p) \/ Abort(p) PROVE AsExclusion!Leave
      BY <2>3, NoProcAssumption DEF Return, Abort, Released, AsExclusion!Leave
    <2>4. CASE Tick \/ UNCHANGED vars
      BY <2>4 DEF Tick, vars, AsExclusion!vars
    <2> QED BY <1>3, <2>1, <2>2, <2>3, <2>4 DEF Next, AsExclusion!Next
  <1> QED BY <1>1, <1>2, <1>3, TypeCorrect, ListedStep, PTL
      DEF Spec, WritesAreSerial, AsExclusion!Spec

-----------------------------------------------------------------------------
(* Sessions.  tokens.json changes in three ways only: tokens are revoked or *)
(* dropped, a new pair opens a session, or a new pair takes over from the   *)
(* refresh token it was rotated from.  What a save will do is settled when  *)
(* it is planned, so the invariant keeps it with the pending save.          *)

Families(tokens) == {f \in Family : \E t \in Token : tokens[t] # Absent /\ tokens[t].family = f}

LiveIn(tokens, t) == tokens[t] # Absent /\ ~tokens[t].revoked

OneLive(tokens) ==
  \A m, n \in Pair :
    LET a == <<"refresh", m>>
        b == <<"refresh", n>>
    IN  LiveIn(tokens, a) /\ LiveIn(tokens, b) /\ tokens[a].family = tokens[b].family => m = n

\* The codes that minted these families are spent and name them, or are gone
\* for good, since no later code gets their number.
Linked(codes, fs, by, top) ==
  \A f \in fs :
    /\ by[f] # None /\ by[f] <= top
    /\ codes[by[f]] # Absent => codes[by[f]].used /\ codes[by[f]].minted_family = f

Unshared(fs, by) == \A f, g \in fs : by[f] = by[g] => f = g

CutsTokens(new, old) ==
  \A t \in Token : new[t] # Absent =>
    /\ old[t] # Absent /\ new[t].family = old[t].family
    /\ old[t].revoked => new[t].revoked

\* The pair n joins family f, and the tokens in spent are revoked.
AddsPair(new, old, n, f, spent, known, top) ==
  /\ n \in Pair \ known /\ n <= top
  /\ \A t \in Token : old[t] # Absent => t[2] # n
  /\ \A t \in Token :
       /\ t[2] = n => LiveIn(new, t) /\ new[t].family = f
       /\ t[2] # n /\ t \in spent => new[t] # Absent /\ new[t].revoked /\ new[t].family = f
       /\ t[2] # n /\ t \notin spent => new[t] = old[t]

OpensSession(new, old, known, top) == \E n \in Pair : AddsPair(new, old, n, n, {}, known, top)

RotatesToken(new, old, known, top) ==
  \E m, n \in Pair :
    LET t == <<"refresh", m>>
    IN  LiveIn(old, t) /\ AddsPair(new, old, n, old[t].family, {t}, known, top)

Evolves(new, old, known, top) ==
  CutsTokens(new, old) \/ OpensSession(new, old, known, top) \/ RotatesToken(new, old, known, top)

\* The families that will have been born when p has saved its tokens.
Later(p) == born \cup Families(copy[p].tokens)

SessionInv ==
  /\ OneLive(disk.tokens)
  /\ \A t \in Token : OnDisk(t) => t[2] <= minted.pair /\ disk.tokens[t].family \in born
  /\ \A f \in born : f <= minted.pair
  /\ Linked(disk.codes, born, mintedBy, minted.code) /\ Unshared(born, mintedBy)
  /\ \A p \in Proc : todo[p] # << >> =>
       /\ lock = p
       /\ Linked(copy[p].codes, Later(p), mintedBy, minted.code)
       /\ Unshared(Later(p), mintedBy)
       /\ Head(todo[p]) = "tokens" => Linked(disk.codes, Later(p), mintedBy, minted.code)
       /\ "tokens" \in Pending(todo[p]) =>
            Evolves(copy[p].tokens, disk.tokens, born, minted.pair)

\* Of codes.json: an unspent code may become anything, a spent one may only go.
MovesCodes(codes) ==
  \A k \in Code : \/ codes[k] \in {Absent, disk.codes[k]}
                  \/ disk.codes[k] # Absent /\ ~disk.codes[k].used
                  \/ k > minted.code

LEMMA TokenShape ==
  /\ \A t \in Token : t[2] \in Pair /\ t[1] \in Kind /\ t = <<t[1], t[2]>>
  /\ \A n \in Pair, kind \in Kind : <<kind, n>> \in Token
  /\ \A n \in Pair : <<"access", n>> \in Token /\ <<"refresh", n>> \in Token
  BY DEF Token, Kind

LEMMA FilesShape ==
  ASSUME NEW files \in Files
  PROVE  /\ files.tokens \in [Token -> TokenRecord \cup {Absent}]
         /\ files.codes \in [Code -> CodeRecord \cup {Absent}]
         /\ files.clients \subseteq Client
         /\ \A t \in Token : files.tokens[t] # Absent =>
              files.tokens[t] \in TokenRecord /\ files.tokens[t].family \in Family
  BY DEF Files, TokenRecord

\* A pair that joins a family whose other live refresh tokens are spent is its
\* only live one.
LEMMA AddedIsOnly ==
  ASSUME NEW old, NEW new, NEW n \in Pair, NEW f, NEW spent, NEW known, NEW top,
         OneLive(old), AddsPair(new, old, n, f, spent, known, top),
         \A k \in Pair : LET b == <<"refresh", k>>
                         IN  LiveIn(old, b) /\ old[b].family = f => b \in spent
  PROVE  OneLive(new)
  <1> SUFFICES ASSUME NEW k \in Pair, NEW m \in Pair,
                      LiveIn(new, <<"refresh", k>>), LiveIn(new, <<"refresh", m>>),
                      new[<<"refresh", k>>].family = new[<<"refresh", m>>].family
               PROVE  k = m
    BY DEF OneLive
  <1>1. ASSUME NEW i \in Pair, LiveIn(new, <<"refresh", i>>), i # n
        PROVE  /\ LiveIn(old, <<"refresh", i>>) /\ <<"refresh", i>> \notin spent
               /\ new[<<"refresh", i>>].family = old[<<"refresh", i>>].family
    <2> DEFINE t == <<"refresh", i>>
    <2>1. t \in Token /\ t[2] # n
      BY <1>1, TokenShape
    <2>2. LiveIn(new, t)
      BY <1>1
    <2> HIDE DEF t
    <2>3. t \notin spent
      BY <2>1, <2>2 DEF AddsPair, LiveIn
    <2>4. new[t] = old[t]
      BY <2>1, <2>3 DEF AddsPair
    <2>5. LiveIn(old, t) /\ new[t].family = old[t].family
      BY <2>2, <2>4 DEF LiveIn
    <2> QED BY <2>3, <2>5 DEF t
  <1>2. new[<<"refresh", n>>].family = f
    BY TokenShape DEF AddsPair
  <1>3. CASE k # n /\ m # n
    BY <1>1, <1>3 DEF OneLive
  <1>4. CASE k = n /\ m # n
    BY <1>1, <1>2, <1>4
  <1>5. CASE m = n /\ k # n
    BY <1>1, <1>2, <1>5
  <1> QED BY <1>3, <1>4, <1>5

\* The numbers and families of what a new pair leaves in the file.
LEMMA AddedIsKnown ==
  ASSUME NEW old, NEW new, NEW n \in Pair, NEW f, NEW spent, NEW known, NEW top,
         AddsPair(new, old, n, f, spent, known, top),
         \A t \in spent : old[t] # Absent,
         \A t \in Token : old[t] # Absent => t[2] <= top /\ old[t].family \in known,
         NEW t \in Token, new[t] # Absent
  PROVE  t[2] <= top /\ new[t].family \in known \cup {f}
  <1>1. CASE t[2] = n
    BY <1>1 DEF AddsPair
  <1>2. CASE t[2] # n /\ t \in spent
    BY <1>2 DEF AddsPair
  <1>3. CASE t[2] # n /\ t \notin spent
    BY <1>3 DEF AddsPair
  <1> QED BY <1>1, <1>2, <1>3

\* What the three kinds of change keep.
LEMMA EvolvesKeeps ==
  ASSUME NEW old, NEW new, NEW known, NEW top,
         OneLive(old), Evolves(new, old, known, top),
         \A f \in known : f <= top,
         \A t \in Token : old[t] # Absent => t[2] <= top /\ old[t].family \in known
  PROVE  /\ OneLive(new)
         /\ \A t \in Token : new[t] # Absent =>
              t[2] <= top /\ new[t].family <= top
  <1>1. CASE CutsTokens(new, old)
    <2>1. \A t \in Token : new[t] # Absent => t[2] <= top /\ new[t].family <= top
      BY <1>1 DEF CutsTokens
    <2>2. OneLive(new)
      BY <1>1, TokenShape DEF CutsTokens, OneLive, LiveIn
    <2> QED BY <2>1, <2>2
  <1>2. ASSUME NEW n \in Pair, AddsPair(new, old, n, n, {}, known, top)
        PROVE  /\ OneLive(new)
               /\ \A t \in Token : new[t] # Absent => t[2] <= top /\ new[t].family <= top
    <2>1. n \notin known /\ n <= top
      BY <1>2 DEF AddsPair
    <2>2. \A k \in Pair : LET b == <<"refresh", k>>
                          IN  LiveIn(old, b) /\ old[b].family = n => b \in {}
      BY <2>1, TokenShape DEF LiveIn
    <2>3. \A t \in Token : new[t] # Absent => t[2] <= top /\ new[t].family \in known \cup {n}
      BY <1>2, AddedIsKnown
    <2> QED BY <1>2, <2>1, <2>2, <2>3, AddedIsOnly
  <1>3. ASSUME NEW m \in Pair, NEW n \in Pair, LiveIn(old, <<"refresh", m>>),
               AddsPair(new, old, n, old[<<"refresh", m>>].family, {<<"refresh", m>>}, known, top)
        PROVE  /\ OneLive(new)
               /\ \A t \in Token : new[t] # Absent => t[2] <= top /\ new[t].family <= top
    <2> DEFINE s == <<"refresh", m>>
               f == old[s].family
    <2>1. s \in Token /\ old[s] # Absent /\ f \in known
      BY <1>3, TokenShape DEF LiveIn
    <2>2. \A k \in Pair : LET b == <<"refresh", k>>
                          IN  LiveIn(old, b) /\ old[b].family = f => b \in {s}
      BY <1>3 DEF OneLive
    <2>3. \A t \in {s} : old[t] # Absent
      BY <2>1
    <2>4. AddsPair(new, old, n, f, {s}, known, top)
      BY <1>3
    <2> HIDE DEF s, f
    <2>5. \A t \in Token : new[t] # Absent => t[2] <= top /\ new[t].family \in known \cup {f}
      BY <2>3, <2>4, AddedIsKnown
    <2> QED BY <2>1, <2>2, <2>4, <2>5, AddedIsOnly
  <1> QED BY <1>1, <1>2, <1>3 DEF Evolves, OpensSession, RotatesToken

\* Spent codes stay spent, so they stay linked.
LEMMA LinkedMoves ==
  ASSUME NEW codes, NEW fs \in SUBSET Family, MovesCodes(codes), TypeOK,
         Linked(disk.codes, fs, mintedBy, minted.code), NEW top, top >= minted.code, top \in Nat
  PROVE  Linked(codes, fs, mintedBy, top)
  <1> SUFFICES ASSUME NEW f \in fs
               PROVE  /\ mintedBy[f] # None /\ mintedBy[f] <= top
                      /\ codes[mintedBy[f]] # Absent =>
                           codes[mintedBy[f]].used /\ codes[mintedBy[f]].minted_family = f
    BY DEF Linked
  <1> DEFINE k == mintedBy[f]
  <1>1. minted.code \in Nat
    BY BoundsAssumption DEF TypeOK
  <1>2. k # None /\ k <= minted.code /\ (disk.codes[k] # Absent =>
          disk.codes[k].used /\ disk.codes[k].minted_family = f)
    BY DEF Linked
  <1>3. k \in Code /\ k \in Nat
    BY <1>2 DEF TypeOK, Code
  <1> HIDE DEF k
  <1>4. codes[k] = Absent \/ codes[k] = disk.codes[k]
    BY <1>1, <1>2, <1>3 DEF MovesCodes
  <1>5. k <= top
    BY <1>1, <1>2, <1>3
  <1> QED BY <1>2, <1>4, <1>5 DEF k

\* What an operation must plan for SessionInv to hold while it saves.
LEMMA PlannedSound ==
  ASSUME TypeOK, TypeOK', SessionInv, NEW p \in Proc, Acquires(p),
         NEW files, NEW order, NEW kind, NEW subject,
         Plan(p, files, order, kind, subject), UNCHANGED <<disk, born>>,
         minted.pair <= minted'.pair,
         Linked(disk.codes, born, mintedBy', minted'.code), Unshared(born, mintedBy'),
         order # << >> =>
           /\ Linked(files.codes, born \cup Families(files.tokens), mintedBy', minted'.code)
           /\ Unshared(born \cup Families(files.tokens), mintedBy')
           /\ Head(order) = "tokens" =>
                Linked(disk.codes, born \cup Families(files.tokens), mintedBy', minted'.code)
           /\ "tokens" \in Pending(order) =>
                Evolves(files.tokens, disk.tokens, born, minted'.pair)
  PROVE  SessionInv'
  <1>1. \A q \in Proc : todo[q] = << >>
    BY NoProcAssumption DEF SessionInv, Acquires
  <1>2. /\ copy'[p] = files /\ todo'[p] = order
        /\ \A q \in Proc \ {p} : todo'[q] = << >>
    BY <1>1 DEF Plan, TypeOK
  <1>3. lock' = p
    BY DEF Acquires
  <1>4. minted.pair \in Nat /\ minted'.pair \in Nat
    BY BoundsAssumption DEF TypeOK
  <1>5. \A t \in Token : OnDisk(t)' => t[2] <= minted'.pair /\ disk'.tokens[t].family \in born'
    <2>1. \A t \in Token : t[2] \in Nat
      BY TokenShape DEF Pair
    <2> QED BY <1>4, <2>1 DEF SessionInv, OnDisk
  <1>6. \A f \in born' : f <= minted'.pair
    <2>1. \A f \in born : f \in Nat
      BY DEF TypeOK, Family, Pair
    <2> QED BY <1>4, <2>1 DEF SessionInv
  <1>7. OneLive(disk'.tokens)
    BY DEF SessionInv
  <1>8. Linked(disk'.codes, born', mintedBy', minted'.code) /\ Unshared(born', mintedBy')
    OBVIOUS
  <1>9. ASSUME NEW q \in Proc, todo'[q] # << >>
        PROVE  /\ lock' = q
               /\ Linked(copy'[q].codes, Later(q)', mintedBy', minted'.code)
               /\ Unshared(Later(q)', mintedBy')
               /\ Head(todo'[q]) = "tokens" =>
                    Linked(disk'.codes, Later(q)', mintedBy', minted'.code)
               /\ "tokens" \in Pending(todo'[q]) =>
                    Evolves(copy'[q].tokens, disk'.tokens, born', minted'.pair)
    <2>1. q = p
      BY <1>2, <1>9
    <2>2. Later(q)' = born \cup Families(files.tokens)
      BY <1>2, <2>1 DEF Later, Families
    <2> QED BY <1>2, <1>3, <1>9, <2>1, <2>2
  <1> QED BY <1>5, <1>6, <1>7, <1>8, <1>9 DEF SessionInv

\* An operation that mints no pair.
LEMMA SettledSound ==
  ASSUME TypeOK, TypeOK', SessionInv, NEW p \in Proc, Acquires(p),
         NEW files, NEW order, NEW kind, NEW subject,
         Plan(p, files, order, kind, subject), UNCHANGED <<disk, born, mintedBy>>,
         minted'.pair = minted.pair, minted.code <= minted'.code,
         CutsTokens(files.tokens, disk.tokens), MovesCodes(files.codes)
  PROVE  SessionInv'
  <1>1. born \subseteq Family /\ minted'.code \in Nat /\ minted'.pair \in Nat
    BY BoundsAssumption DEF TypeOK
  <1>2. Families(files.tokens) \subseteq born
    BY DEF Families, CutsTokens, SessionInv, OnDisk
  <1>3. born \cup Families(files.tokens) = born
    BY <1>2
  <1>4. MovesCodes(disk.codes)
    BY DEF MovesCodes
  <1>5. Linked(disk.codes, born, mintedBy, minted.code) /\ Unshared(born, mintedBy)
    BY DEF SessionInv
  <1>6. /\ Linked(disk.codes, born, mintedBy, minted'.code)
        /\ Linked(files.codes, born, mintedBy, minted'.code)
    BY <1>1, <1>4, <1>5, LinkedMoves
  <1>7. Evolves(files.tokens, disk.tokens, born, minted'.pair)
    BY DEF Evolves
  <1> QED BY <1>1, <1>3, <1>5, <1>6, <1>7, PlannedSound

LEMMA RevokingCuts ==
  ASSUME TypeOK, NEW ts
  PROVE  CutsTokens(Revoking(disk.tokens, ts), disk.tokens)
  <1>1. disk.tokens \in [Token -> TokenRecord \cup {Absent}]
    BY DEF TypeOK, Files
  <1> QED BY <1>1 DEF CutsTokens, Revoking, TokenRecord

LEMMA NothingMoves ==
  CutsTokens(disk.tokens, disk.tokens) /\ MovesCodes(disk.codes)
  BY DEF CutsTokens, MovesCodes

\* The tokens file with a new pair, whose owner and number are new.
LEMMA WithPairAdds ==
  ASSUME NEW old, NEW tokens \in [Token -> TokenRecord \cup {Absent}],
         NEW n \in Pair \ born, NEW f \in Family, NEW c \in Client, NEW spent,
         n <= minted'.pair, now \in Nat,
         \A t \in Token : old[t] # Absent => t[2] # n,
         \A t \in spent : t \in Token /\ LiveIn(old, t),
         \A t \in Token : t \in spent =>
           tokens[t] # Absent /\ tokens[t].revoked /\ tokens[t].family = f,
         \A t \in Token : t \notin spent => tokens[t] = old[t]
  PROVE  AddsPair(WithPair(tokens, n, f, c), old, n, f, spent, born, minted'.pair)
  <1> DEFINE new == WithPair(tokens, n, f, c)
             fresh(ttl) == [family |-> f, client |-> c, expires |-> now + ttl,
                            revoked |-> FALSE, rotated_to |-> None]
  <1>1. \A ttl \in Nat : fresh(ttl) \in TokenRecord
    BY DEF TokenRecord
  <1>2. \A ttl \in Nat : fresh(ttl) # Absent
    BY <1>1, AbsentAssumption
  <1>3. /\ new[<<"access", n>>] = fresh(AccessTTL)
        /\ new[<<"refresh", n>>] = fresh(RefreshTTL)
        /\ \A t \in Token : t \notin {<<"access", n>>, <<"refresh", n>>} => new[t] = tokens[t]
    BY TokenShape DEF WithPair
  <1>4. AccessTTL \in Nat /\ RefreshTTL \in Nat
    BY BoundsAssumption
  <1>5. \A t \in Token : t[2] = n <=> t \in {<<"access", n>>, <<"refresh", n>>}
    BY DEF Token, Kind
  <1>6. \A ttl \in Nat : fresh(ttl).family = f /\ ~fresh(ttl).revoked
    OBVIOUS
  <1> HIDE DEF new, fresh
  <1>7. ASSUME NEW t \in Token, t[2] = n
        PROVE  LiveIn(new, t) /\ new[t].family = f
    BY <1>2, <1>3, <1>4, <1>5, <1>6, <1>7 DEF LiveIn
  <1>8. ASSUME NEW t \in Token, t[2] # n
        PROVE  new[t] = tokens[t]
    BY <1>3, <1>5, <1>8
  <1> QED BY <1>7, <1>8 DEF AddsPair, new

LEMMA SessionStep ==
  ASSUME TypeOK, TypeOK', SessionInv, NEW p \in Proc, Operation(p)
  PROVE  SessionInv'
  <1>a. disk \in Files /\ disk.clients \subseteq Client
        /\ disk.codes \in [Code -> CodeRecord \cup {Absent}]
        /\ disk.tokens \in [Token -> TokenRecord \cup {Absent}]
    BY DEF TypeOK, Files
  <1>b. minted.pair \in Nat /\ minted.code \in Nat /\ minted.client \in Nat
        /\ minted'.pair \in Nat /\ minted'.code \in Nat
    BY BoundsAssumption DEF TypeOK
  <1>c. now \in Nat /\ born \subseteq Family
    BY DEF TypeOK
  <1>d. \A s \in Token : disk.tokens[s] # Absent => s[2] <= minted.pair /\ s[2] \in Nat
    BY TokenShape DEF SessionInv, OnDisk, Pair
  <1>e. \A f \in born : f <= minted.pair /\ f \in Nat
    <2>1. \A f \in born : f <= minted.pair
      BY DEF SessionInv
    <2>2. \A f \in Family : f \in Nat
      BY DEF Family, Pair
    <2> QED BY <1>c, <2>1, <2>2
  \* Operations that leave the tokens alone.
  <1>1. ASSUME NEW files, NEW order, NEW kind, NEW subject,
               Acquires(p), Plan(p, files, order, kind, subject), UNCHANGED <<disk, born, mintedBy>>,
               minted'.pair = minted.pair, minted.code <= minted'.code,
               files.tokens = disk.tokens, MovesCodes(files.codes)
        PROVE  SessionInv'
    BY <1>1, NothingMoves, SettledSound
  \* Operations that leave everything alone.
  <1>2. ASSUME NEW kind, NEW subject, Acquires(p), Keep(p, kind, subject),
               UNCHANGED <<disk, born, mintedBy>>, minted'.pair = minted.pair,
               minted'.code = minted.code
        PROVE  SessionInv'
    BY <1>1, <1>2, <1>b, NothingMoves DEF Keep
  \* Operations that revoke.
  <1>3. ASSUME NEW files, NEW ts, NEW order, NEW kind, NEW subject,
               Acquires(p), Plan(p, files, order, kind, subject),
               UNCHANGED <<disk, born, minted, mintedBy>>,
               files.tokens = Revoking(disk.tokens, ts), files.codes = disk.codes
        PROVE  SessionInv'
    BY <1>3, <1>b, NothingMoves, RevokingCuts, SettledSound
  <1>4. CASE RegisterClient(p)
    <2> DEFINE c == minted.client + 1
               files == [disk EXCEPT !.clients = @ \cup {c}]
    <2>1. minted'.pair = minted.pair /\ minted'.code = minted.code
      BY <1>4 DEF RegisterClient, TypeOK
    <2>2. files.tokens = disk.tokens /\ files.codes = disk.codes
      BY <1>a DEF Files
    <2>3. CASE Keep(p, "invalid", None)
      BY <1>2, <1>4, <2>1, <2>3 DEF RegisterClient
    <2>4. CASE Plan(p, files, <<"clients">>, "registered", c)
      <3> HIDE DEF files, c
      <3> QED BY <1>1, <1>4, <1>b, <2>1, <2>2, <2>4, NothingMoves DEF RegisterClient
    <2> QED BY <1>4, <2>3, <2>4 DEF RegisterClient
  <1>5. ASSUME NEW c \in Client, IssueCode(p, c) PROVE SessionInv'
    <2> DEFINE k == minted.code + 1
               rec == [client |-> c, expires |-> now + CodeTTL,
                       used |-> FALSE, minted_family |-> None]
               files == [disk EXCEPT !.codes[k] = rec]
    <2>1. minted'.pair = minted.pair /\ minted'.code = k
      BY <1>5 DEF IssueCode, TypeOK
    <2>2. files.tokens = disk.tokens
          /\ \A j \in Code : j # k => files.codes[j] = disk.codes[j]
      BY <1>a DEF Files
    <2>3. Acquires(p) /\ Plan(p, files, <<"codes">>, "coded", k) /\ UNCHANGED <<disk, born, mintedBy>>
      BY <1>5 DEF IssueCode
    <2>4. k > minted.code
      BY <1>b
    <2> HIDE DEF files, k
    <2>5. MovesCodes(files.codes)
      BY <2>2, <2>4 DEF MovesCodes
    <2> QED BY <1>1, <1>b, <2>1, <2>2, <2>3, <2>4, <2>5
  \* A code that is spent by its presentation.
  <1>6. ASSUME NEW k \in Code, Redeemable(k)
        PROVE  LET files == [disk EXCEPT !.codes[k].used = TRUE]
               IN  files.tokens = disk.tokens /\ MovesCodes(files.codes)
    BY <1>a, <1>6 DEF Files, MovesCodes, Redeemable
  <1>7. ASSUME NEW k \in Code, ConsumeCode(p, k) PROVE SessionInv'
    <2> DEFINE files == [disk EXCEPT !.codes[k].used = TRUE]
    <2>1. Acquires(p) /\ UNCHANGED <<disk, born, minted, mintedBy>>
      BY <1>7 DEF ConsumeCode
    <2>2. CASE Redeemable(k)
      <3>1. files.tokens = disk.tokens /\ MovesCodes(files.codes)
        BY <1>6, <2>2
      <3>2. Plan(p, files, <<"codes">>, "consumed", k)
        BY <1>7, <2>2 DEF ConsumeCode
      <3> HIDE DEF files
      <3> QED BY <1>1, <1>b, <2>1, <3>1, <3>2
    <2>3. CASE ~Redeemable(k)
      BY <1>2, <1>7, <2>1, <2>3 DEF ConsumeCode
    <2> QED BY <2>2, <2>3
  <1>8. ASSUME NEW k \in Code, ExchangeSpent(p, k) PROVE SessionInv'
    <2> DEFINE f == disk.codes[k].minted_family
               burn == IF f = None THEN {} ELSE FamilyTokens(f)
               files == [disk EXCEPT !.tokens = Revoking(@, burn)]
    <2>1. files.tokens = Revoking(disk.tokens, burn) /\ files.codes = disk.codes
      BY <1>a DEF Files
    <2>2. Acquires(p) /\ Plan(p, files, TokensIfChanged(burn), "replay", f)
          /\ UNCHANGED <<disk, born, minted, mintedBy>>
      BY <1>8 DEF ExchangeSpent
    <2> HIDE DEF f, burn, files
    <2> QED BY <1>3, <2>1, <2>2
  <1>9. ASSUME NEW k \in Code, ExchangeStale(p, k) PROVE SessionInv'
    BY <1>2, <1>9 DEF ExchangeStale
  <1>10. ASSUME NEW k \in Code, ExchangeRefused(p, k) PROVE SessionInv'
    <2> DEFINE files == [disk EXCEPT !.codes[k].used = TRUE]
    <2>1. Acquires(p) /\ UNCHANGED <<disk, born, minted, mintedBy>>
          /\ Plan(p, files, <<"codes">>, "invalid", None)
      BY <1>10 DEF ExchangeRefused
    <2>2. files.tokens = disk.tokens /\ MovesCodes(files.codes)
      BY <1>6, <1>10 DEF ExchangeRefused
    <2> HIDE DEF files
    <2> QED BY <1>1, <1>b, <2>1, <2>2
  \* exchange_code that mints: its code was unspent, so no family has it yet.
  <1>11. ASSUME NEW k \in Code, ExchangeMints(p, k) PROVE SessionInv'
    <2> DEFINE n == minted.pair + 1
               c == disk.codes[k].client
               spent == [disk.codes[k] EXCEPT !.used = TRUE, !.minted_family = n]
               files == [disk EXCEPT !.codes[k] = spent, !.tokens = WithPair(@, n, n, c)]
               fs == born \cup Families(files.tokens)
    <2>1. /\ Acquires(p) /\ Plan(p, files, <<"codes", "tokens">>, "issued", n)
          /\ UNCHANGED <<disk, now, born>>
          /\ mintedBy' = [mintedBy EXCEPT ![n] = k]
          /\ minted'.pair = n /\ minted'.code = minted.code /\ k <= minted.code
          /\ n \in Pair /\ n \in Family
      BY <1>11, <1>b DEF ExchangeMints, ExchangeOrder, TypeOK, Pair, Family
    <2>2. /\ disk.codes[k] # Absent /\ ~disk.codes[k].used /\ disk.codes[k] \in CodeRecord
          /\ c \in Client /\ k # None
      <3>1. disk.codes[k] # Absent /\ ~disk.codes[k].used
        BY <1>11 DEF ExchangeMints, Redeemable
      <3>2. disk.codes[k] \in CodeRecord
        BY <1>a, <3>1
      <3>3. disk.codes[k].client \in Client
        BY <3>2 DEF CodeRecord
      <3>4. k # None
        BY DEF Code, None
      <3> QED BY <3>1, <3>2, <3>3, <3>4
    <2>3. /\ files.tokens = WithPair(disk.tokens, n, n, c)
          /\ files.codes = [disk.codes EXCEPT ![k] = spent]
      BY <1>a DEF Files
    <2>4. spent.used /\ spent.minted_family = n /\ spent \in CodeRecord /\ spent # Absent
      BY <2>1, <2>2, AbsentAssumption DEF CodeRecord
    <2>5. n \notin born /\ \A t \in Token : disk.tokens[t] # Absent => t[2] # n
      BY <1>b, <1>d, <1>e
    <2> HIDE DEF n, c, spent, files
    <2>6. AddsPair(files.tokens, disk.tokens, n, n, {}, born, minted'.pair)
      BY <1>a, <1>b, <1>c, <2>1, <2>2, <2>3, <2>5, WithPairAdds
    <2>7. fs = born \cup {n}
      <3>1. \A t \in Token : files.tokens[t] # Absent => files.tokens[t].family \in born \cup {n}
        <4>1. \A t \in Token : disk.tokens[t] # Absent => t[2] <= minted'.pair /\ disk.tokens[t].family \in born
          <5>1. \A t \in Token : t[2] \in Nat
            BY TokenShape DEF Pair
          <5> QED BY <1>b, <2>1, <5>1 DEF SessionInv, OnDisk, n
        <4> QED BY <2>1, <2>6, <4>1, AddedIsKnown
      <3>2. n \in Families(files.tokens)
        BY <2>1, <2>6, TokenShape DEF AddsPair, Families, LiveIn
      <3> QED BY <3>1, <3>2 DEF Families
    <2>8. mintedBy'[n] = k /\ \A g \in born : mintedBy'[g] = mintedBy[g] /\ mintedBy[g] # k
      <3>1. mintedBy \in [Family -> Code \cup {None}]
        BY DEF TypeOK
      <3>2. \A g \in born : mintedBy[g] # k
        BY <2>2 DEF SessionInv, Linked
      <3> QED BY <1>c, <2>1, <2>5, <3>1, <3>2
    <2>9. Linked(disk.codes, born, mintedBy', minted'.code)
      BY <2>1, <2>8 DEF SessionInv, Linked
    <2>10. Linked(files.codes, fs, mintedBy', minted'.code)
      BY <1>a, <2>1, <2>2, <2>3, <2>4, <2>7, <2>8, <2>9 DEF Linked
    <2>11. Unshared(born, mintedBy') /\ Unshared(fs, mintedBy')
      BY <2>7, <2>8 DEF SessionInv, Unshared
    <2>12. Evolves(files.tokens, disk.tokens, born, minted'.pair)
      BY <2>1, <2>6 DEF Evolves, OpensSession
    <2>13. minted.pair <= minted'.pair
      BY <1>b, <2>1 DEF n
    <2>14. Head(<<"codes", "tokens">>) # "tokens"
      OBVIOUS
    <2> QED BY <2>1, <2>9, <2>10, <2>11, <2>12, <2>13, <2>14, PlannedSound
  <1>12. ASSUME NEW n \in Pair, RotateReused(p, n) PROVE SessionInv'
    <2> DEFINE f == disk.tokens[<<"refresh", n>>].family
               files == [disk EXCEPT !.tokens = Revoking(@, FamilyTokens(f))]
    <2>1. files.tokens = Revoking(disk.tokens, FamilyTokens(f)) /\ files.codes = disk.codes
      BY <1>a DEF Files
    <2>2. Acquires(p) /\ Plan(p, files, <<"tokens">>, "reuse", f)
          /\ UNCHANGED <<disk, born, minted, mintedBy>>
      BY <1>12 DEF RotateReused
    <2> HIDE DEF f, files
    <2> QED BY <1>3, <2>1, <2>2
  <1>13. ASSUME NEW n \in Pair, NEW c \in Client \cup {None}, RotateInvalid(p, n, c)
         PROVE  SessionInv'
    BY <1>2, <1>13 DEF RotateInvalid
  \* rotate_refresh_for_client that mints: the token it spends was the only one.
  <1>14. ASSUME NEW n \in Pair, NEW c \in Client \cup {None}, RotateMints(p, n, c)
         PROVE  SessionInv'
    <2> DEFINE t == <<"refresh", n>>
               rec == disk.tokens[t]
               m == minted.pair + 1
               old == [disk.tokens EXCEPT ![t] = RotatedTo(rec, m)]
               files == [disk EXCEPT !.tokens = WithPair(old, m, rec.family, rec.client)]
    <2>1. m \in Pair /\ t \in Token /\ minted'.pair = m /\ minted'.code = minted.code
      <3>1. m <= MaxPair /\ minted' = [minted EXCEPT !.pair = m]
        BY <1>14 DEF RotateMints
      <3>2. m \in Pair
        BY <1>b, <3>1, BoundsAssumption DEF Pair
      <3>3. minted'.pair = m /\ minted'.code = minted.code
        BY <3>1 DEF TypeOK
      <3> QED BY <3>2, <3>3, TokenShape
    <2>2. rec \in TokenRecord /\ LiveIn(disk.tokens, t) /\ rec.family \in born
      BY <1>14, <1>a, <2>1 DEF RotateMints, Rotatable, OnDisk, LiveIn, SessionInv
    <2>3. RotatedTo(rec, m) \in TokenRecord /\ RotatedTo(rec, m).revoked
          /\ RotatedTo(rec, m).family = rec.family /\ rec.family \in Family /\ rec.client \in Client
      BY <2>1, <2>2 DEF RotatedTo, TokenRecord
    <2>4. /\ old \in [Token -> TokenRecord \cup {Absent}] /\ old[t] = RotatedTo(rec, m)
          /\ \A s \in Token : s # t => old[s] = disk.tokens[s]
      BY <1>a, <2>1, <2>3
    <2>5. files.tokens = WithPair(old, m, rec.family, rec.client) /\ files.codes = disk.codes
      BY <1>a DEF Files
    <2>6. Acquires(p) /\ Plan(p, files, <<"tokens">>, "rotated", m)
          /\ UNCHANGED <<disk, now, born, mintedBy>>
      BY <1>14 DEF RotateMints
    <2>7. m \notin born /\ \A s \in Token : disk.tokens[s] # Absent => s[2] # m
      BY <1>b, <1>d, <1>e
    <2>8. RotatedTo(rec, m) # Absent
      BY <2>3, AbsentAssumption
    <2>9. minted.pair <= minted'.pair /\ m <= minted'.pair
      BY <1>b, <2>1
    <2>t. t = <<"refresh", n>>
      OBVIOUS
    <2>rec. rec = disk.tokens[t]
      OBVIOUS
    <2> HIDE DEF t, rec, m, old, files
    <2>10. AddsPair(files.tokens, disk.tokens, m, rec.family, {t}, born, minted'.pair)
      BY <1>c, <2>1, <2>2, <2>3, <2>4, <2>5, <2>7, <2>8, <2>9, WithPairAdds
    <2>11. Evolves(files.tokens, disk.tokens, born, minted'.pair)
      BY <2>1, <2>2, <2>10, <2>t, <2>rec DEF Evolves, RotatesToken
    <2>12. born \cup Families(files.tokens) = born
      <3>1. \A s \in Token : disk.tokens[s] # Absent => s[2] <= minted'.pair /\ disk.tokens[s].family \in born
        <4>1. \A s \in Token : s[2] \in Nat
          BY TokenShape DEF Pair
        <4> QED BY <1>b, <2>1, <2>9, <4>1 DEF SessionInv, OnDisk
      <3>2. \A s \in {t} : disk.tokens[s] # Absent
        BY <2>2 DEF LiveIn
      <3>3. \A s \in Token : files.tokens[s] # Absent =>
              s[2] <= minted'.pair /\ files.tokens[s].family \in born \cup {rec.family}
        BY <2>1, <2>10, <3>1, <3>2, AddedIsKnown
      <3> QED BY <2>2, <3>3 DEF Families
    <2>13. Linked(disk.codes, born, mintedBy, minted.code) /\ Unshared(born, mintedBy)
      BY DEF SessionInv
    <2> QED BY <2>1, <2>5, <2>6, <2>9, <2>11, <2>12, <2>13, PlannedSound
  <1>15. ASSUME NEW by, NEW x, RevokeTokens(p, by, x) PROVE SessionInv'
    <2> DEFINE ts == Selection(by, x)
               files == [disk EXCEPT !.tokens = Revoking(@, ts)]
    <2>1. files.tokens = Revoking(disk.tokens, ts) /\ files.codes = disk.codes
      BY <1>a DEF Files
    <2>2. Acquires(p) /\ Plan(p, files, TokensIfChanged(ts), "revoked", None)
          /\ UNCHANGED <<disk, born, minted, mintedBy>>
      BY <1>15 DEF RevokeTokens
    <2> HIDE DEF ts, files
    <2> QED BY <1>3, <2>1, <2>2
  <1>16. ASSUME NEW c \in Client, RemoveClient(p, c) PROVE SessionInv'
    <2> DEFINE ts == ClientTokens(c)
               ks == {k \in Code : disk.codes[k] # Absent /\ disk.codes[k].client = c}
               files == [clients |-> disk.clients \ {c},
                  codes   |-> [k \in Code |-> IF k \in ks THEN Absent ELSE disk.codes[k]],
                  tokens  |-> Revoking(disk.tokens, ts)]
               order == RemovalOrder(\E t \in ts : Live(t), ks # {})
    <2>1. files.tokens = Revoking(disk.tokens, ts) /\ MovesCodes(files.codes)
      BY DEF MovesCodes
    <2>2. Acquires(p) /\ Plan(p, files, order, "removed", c)
          /\ UNCHANGED <<disk, born, minted, mintedBy>>
      BY <1>16 DEF RemoveClient
    <2> HIDE DEF ts, ks, files, order
    <2> QED BY <1>b, <2>1, <2>2, RevokingCuts, SettledSound
  <1>17. CASE PurgeExpired(p)
    <2> DEFINE ks == {k \in Code : disk.codes[k] # Absent /\ ~KeptCode(disk.codes[k])}
               ts == {t \in Token : OnDisk(t) /\ disk.tokens[t].expires <= now}
               files == [disk EXCEPT
                    !.codes  = [k \in Code |-> IF k \in ks THEN Absent ELSE @[k]],
                    !.tokens = [t \in Token |-> IF t \in ts THEN Absent ELSE @[t]]]
               order == PurgeOrder(ks # {}, ts # {})
    <2>1. /\ files.tokens = [t \in Token |-> IF t \in ts THEN Absent ELSE disk.tokens[t]]
          /\ files.codes = [k \in Code |-> IF k \in ks THEN Absent ELSE disk.codes[k]]
      BY <1>a DEF Files
    <2>2. Acquires(p) /\ Plan(p, files, order, "purged", None)
          /\ UNCHANGED <<disk, born, minted, mintedBy>>
      BY <1>17 DEF PurgeExpired
    <2> HIDE DEF ts, ks, files, order
    <2>3. CutsTokens(files.tokens, disk.tokens) /\ MovesCodes(files.codes)
      BY <2>1 DEF CutsTokens, MovesCodes
    <2> QED BY <1>b, <2>2, <2>3, SettledSound
  <1> QED
    BY <1>4, <1>5, <1>7, <1>8, <1>9, <1>10, <1>11, <1>12, <1>13, <1>14, <1>15, <1>16, <1>17
    DEF Operation, ExchangeCode, RotateRefreshForClient

LEMMA SessionSave ==
  ASSUME TypeOK, TypeOK', SessionInv, NEW p \in Proc, Save(p)
  PROVE  SessionInv'
  <1> DEFINE s == todo[p]
             h == Head(s)
  <1>1. s \in Todos /\ s # << >> /\ lock = p
    BY DEF TypeOK, Save, SessionInv
  <1>2. lock' = lock /\ copy' = copy /\ UNCHANGED <<minted, mintedBy>>
    BY DEF Save
  <1>3. todo'[p] = Tail(s) /\ \A q \in Proc \ {p} : todo'[q] = << >>
    BY <1>1, SaveEffect DEF SessionInv
  <1>4. /\ Pending(s) = {h} \cup Pending(Tail(s)) /\ h \notin Pending(Tail(s))
        /\ h \in {"clients", "codes", "tokens"}
    BY <1>1, PendingSteps, TodoSteps
  <1>5. /\ disk'.codes = IF h = "codes" THEN copy[p].codes ELSE disk.codes
        /\ disk'.tokens = IF h = "tokens" THEN copy[p].tokens ELSE disk.tokens
    BY SaveEffect
  <1>6. born' = IF h = "tokens" THEN Later(p) ELSE born
    BY DEF Save, Later, Families
  <1>7. /\ Linked(copy[p].codes, Later(p), mintedBy, minted.code) /\ Unshared(Later(p), mintedBy)
        /\ h = "tokens" => Linked(disk.codes, Later(p), mintedBy, minted.code)
        /\ "tokens" \in Pending(s) => Evolves(copy[p].tokens, disk.tokens, born, minted.pair)
    BY <1>1 DEF SessionInv
  <1>8. born' \subseteq Later(p) /\ Later(p)' = Later(p)
    BY <1>2, <1>6 DEF Later, Families
  <1>9. /\ \A t \in Token : disk.tokens[t] # Absent => t[2] <= minted.pair /\ disk.tokens[t].family \in born
        /\ \A f \in born : f <= minted.pair
        /\ OneLive(disk.tokens)
        /\ Linked(disk.codes, born, mintedBy, minted.code) /\ Unshared(born, mintedBy)
    BY DEF SessionInv, OnDisk
  <1>10. copy[p] \in Files
    BY DEF TypeOK
  <1>11. CASE h = "tokens"
    <2>1. /\ OneLive(copy[p].tokens)
          /\ \A t \in Token : copy[p].tokens[t] # Absent =>
               t[2] <= minted.pair /\ copy[p].tokens[t].family <= minted.pair
      BY <1>4, <1>7, <1>9, <1>11, EvolvesKeeps
    <2>2. \A t \in Token : copy[p].tokens[t] # Absent => copy[p].tokens[t].family \in Later(p)
      BY <1>10, FilesShape DEF Later, Families
    <2>3. \A f \in Later(p) : f <= minted.pair
      BY <1>9, <2>1 DEF Later, Families
    <2>4. /\ OneLive(disk'.tokens)
          /\ \A t \in Token : OnDisk(t)' => t[2] <= minted'.pair /\ disk'.tokens[t].family \in born'
          /\ \A f \in born' : f <= minted'.pair
          /\ Linked(disk'.codes, born', mintedBy', minted'.code) /\ Unshared(born', mintedBy')
      <3> HIDE DEF h, s
      <3> QED BY <1>2, <1>5, <1>6, <1>7, <1>11, <2>1, <2>2, <2>3 DEF OnDisk
    <2>5. "tokens" \notin Pending(Tail(s)) /\ (Tail(s) # << >> => Head(Tail(s)) # "tokens")
      <3>1. "tokens" \notin Pending(Tail(s))
        BY <1>4, <1>11
      <3>2. Tail(s) \in Todos
        BY <1>1, TodoSteps
      <3>3. Tail(s) # << >> => Head(Tail(s)) \in Pending(Tail(s))
        BY <3>2, PendingSteps
      <3> QED BY <3>1, <3>3
    <2> HIDE DEF h, s
    <2> QED BY <1>1, <1>2, <1>3, <1>7, <1>8, <2>4, <2>5 DEF SessionInv
  <1>12. CASE h # "tokens"
    <2>1. disk'.tokens = disk.tokens /\ born' = born
      BY <1>5, <1>6, <1>12
    <2>2. Linked(disk'.codes, born, mintedBy, minted.code)
      BY <1>5, <1>7, <1>9 DEF Linked, Later
    <2>3. /\ OneLive(disk'.tokens)
          /\ \A t \in Token : OnDisk(t)' => t[2] <= minted'.pair /\ disk'.tokens[t].family \in born'
          /\ \A f \in born' : f <= minted'.pair
          /\ Linked(disk'.codes, born', mintedBy', minted'.code) /\ Unshared(born', mintedBy')
      BY <1>2, <1>9, <2>1, <2>2 DEF OnDisk
    <2>4. Tail(s) # << >> /\ Head(Tail(s)) = "tokens" => h = "codes"
      <3>1. Head(<<"codes", "tokens">>) = "codes" /\ Tail(<<"codes", "tokens">>) = <<"tokens">>
        OBVIOUS
      <3>2. ASSUME Tail(s) # << >>, Head(Tail(s)) = "tokens" PROVE h = "codes"
        <4>1. \/ s = <<"codes", "tokens">> \/ s = <<"codes", "clients">>
              \/ s = <<"tokens", "clients">> \/ s = <<"tokens", "codes", "clients">>
              \/ s = <<"clients">> \/ s = <<"codes">> \/ s = <<"tokens">>
          BY <1>1 DEF Todos
        <4> QED BY <3>2, <4>1
      <3> QED BY <3>2
    <2>5. Tail(s) # << >> /\ Head(Tail(s)) = "tokens" =>
            Linked(disk'.codes, Later(p), mintedBy, minted.code)
      BY <1>5, <1>7, <2>4
    <2>6. "tokens" \in Pending(Tail(s)) => Evolves(copy[p].tokens, disk.tokens, born, minted.pair)
      BY <1>4, <1>7
    <2> HIDE DEF h, s
    <2> QED BY <1>1, <1>2, <1>3, <1>7, <1>8, <2>1, <2>3, <2>5, <2>6 DEF SessionInv
  <1> QED BY <1>11, <1>12

LEMMA SessionInvariance == Spec => [](TypeOK /\ SessionInv)
  <1>1. Init => SessionInv
    <2> SUFFICES ASSUME Init PROVE SessionInv
      OBVIOUS
    <2>1. /\ \A t \in Token : disk.tokens[t] = Absent
          /\ \A p \in Proc : todo[p] = << >>
          /\ born = {}
      BY DEF Init, NoFiles
    <2>2. OneLive(disk.tokens)
      BY <2>1, TokenShape DEF OneLive, LiveIn
    <2> QED BY <2>1, <2>2 DEF SessionInv, Linked, Unshared, OnDisk
  <1>2. TypeOK /\ SessionInv /\ [Next]_vars => TypeOK' /\ SessionInv'
    <2> SUFFICES ASSUME TypeOK, SessionInv, [Next]_vars PROVE TypeOK' /\ SessionInv'
      OBVIOUS
    <2>1. TypeOK'
      BY TypeStep
    <2>2. ASSUME NEW p \in Proc, Return(p) \/ Abort(p) PROVE SessionInv'
      <3>1. /\ \A q \in Proc : todo'[q] = << >>
            /\ UNCHANGED <<disk, minted, mintedBy, born>>
        BY <2>2 DEF Return, Abort, Released, SessionInv, TypeOK
      <3> QED BY <3>1 DEF SessionInv, OnDisk
    <2>3. CASE Tick \/ UNCHANGED vars
      <3>1. UNCHANGED <<disk, minted, mintedBy, born, todo, lock, copy>>
        BY <2>3 DEF Tick, vars
      <3>2. \A q \in Proc : Later(q)' = Later(q)
        BY <3>1 DEF Later, Families
      <3>3. \A t \in Token : OnDisk(t)' <=> OnDisk(t)
        BY <3>1 DEF OnDisk
      <3>4. SessionInv'
        BY <3>1, <3>2, <3>3 DEF SessionInv
      <3> QED BY <2>1, <3>4
    <2> QED BY <2>1, <2>2, <2>3, SessionStep, SessionSave DEF Next
  <1> QED BY <1>1, <1>2, TypeInit, PTL DEF Spec

\* Whatever was rotated, revoked or lost in a crash, no family has two refresh
\* tokens that could both be rotated.
THEOREM RefreshIsSingleUse == Spec => []SingleUseRefresh
  <1>1. SessionInv => SingleUseRefresh
    BY DEF SessionInv, OneLive, LiveIn, SingleUseRefresh, Live, OnDisk
  <1> QED BY <1>1, SessionInvariance, PTL

\* A token on disk comes from a code that is spent and names its family, and
\* that no other family came from.
THEOREM CodesAreSpentAndLinked == Spec => []CodeSpentAndLinked
  <1>1. TypeOK /\ SessionInv => CodeSpentAndLinked
    BY DEF SessionInv, Linked, Unshared, CodeSpentAndLinked, OnDisk
  <1> QED BY <1>1, SessionInvariance, PTL

-----------------------------------------------------------------------------
(* What a save of tokens.json cannot do, and what it is of TokenSessions.   *)

CurrentIn(tokens, f) ==
  {n \in Pair : LiveIn(tokens, <<"refresh", n>>) /\ tokens[<<"refresh", n>>].family = f}

\* No change brings a dead token back, or a new refresh token into a family
\* that is dead.
LEMMA EvolvesResurrectsNone ==
  ASSUME NEW old, NEW new, NEW known, NEW top, Evolves(new, old, known, top)
  PROVE  /\ \A t \in Token : old[t] # Absent /\ ~LiveIn(old, t) => ~LiveIn(new, t)
         /\ \A f \in known : CurrentIn(old, f) = {} => CurrentIn(new, f) = {}
  <1>1. CASE CutsTokens(new, old)
    <2>1. \A t \in Token : LiveIn(new, t) => LiveIn(old, t) /\ new[t].family = old[t].family
      BY <1>1 DEF CutsTokens, LiveIn
    <2>2. \A n \in Pair : <<"refresh", n>> \in Token
      BY TokenShape
    <2> QED BY <2>1, <2>2 DEF CurrentIn
  <1>2. ASSUME NEW n \in Pair, NEW f, NEW spent, AddsPair(new, old, n, f, spent, known, top),
               f \in known => CurrentIn(old, f) # {}
        PROVE  /\ \A t \in Token : old[t] # Absent /\ ~LiveIn(old, t) => ~LiveIn(new, t)
               /\ \A g \in known : CurrentIn(old, g) = {} => CurrentIn(new, g) = {}
    <2>1. \A t \in Token : old[t] # Absent /\ ~LiveIn(old, t) => ~LiveIn(new, t)
      BY <1>2 DEF AddsPair, LiveIn
    <2>2. ASSUME NEW g \in known, CurrentIn(old, g) = {}, NEW k \in CurrentIn(new, g)
          PROVE  FALSE
      <3> DEFINE t == <<"refresh", k>>
      <3>1. g # f
        BY <1>2, <2>2
      <3>2. k \in Pair /\ t \in Token /\ LiveIn(new, t) /\ new[t].family = g
        BY <2>2, TokenShape DEF CurrentIn
      <3>3. ~(LiveIn(old, t) /\ old[t].family = g)
        BY <2>2, <3>2 DEF CurrentIn
      <3> HIDE DEF t
      <3>4. t[2] # n
        BY <1>2, <3>1, <3>2 DEF AddsPair
      <3>5. t \notin spent
        BY <1>2, <3>2, <3>4 DEF AddsPair, LiveIn
      <3>6. new[t] = old[t]
        BY <1>2, <3>2, <3>4, <3>5 DEF AddsPair
      <3> QED BY <3>2, <3>3, <3>6 DEF LiveIn
    <2> QED BY <2>1, <2>2
  <1>3. CASE OpensSession(new, old, known, top)
    <2>1. PICK n \in Pair : AddsPair(new, old, n, n, {}, known, top)
      BY <1>3 DEF OpensSession
    <2>2. n \notin known
      BY <2>1 DEF AddsPair
    <2> QED BY <1>2, <2>1, <2>2
  <1>4. CASE RotatesToken(new, old, known, top)
    <2>1. PICK m \in Pair, n \in Pair :
            LET t == <<"refresh", m>>
            IN  LiveIn(old, t) /\ AddsPair(new, old, n, old[t].family, {t}, known, top)
      BY <1>4 DEF RotatesToken
    <2>2. m \in CurrentIn(old, old[<<"refresh", m>>].family)
      BY <2>1 DEF CurrentIn
    <2> QED BY <1>2, <2>1, <2>2
  <1> QED BY <1>1, <1>3, <1>4 DEF Evolves

\* Only a save of tokens.json changes the tokens, and no step forgets which
\* code opened a session.
LEMMA SessionsChangeAtSaves ==
  ASSUME TypeOK, SessionInv, [Next]_vars
  PROVE  \/ /\ UNCHANGED <<disk.tokens, born>>
            /\ \A f \in born : mintedBy'[f] = mintedBy[f]
         \/ \E p \in Proc :
              /\ Evolves(disk'.tokens, disk.tokens, born, minted.pair)
              /\ born' = Later(p) /\ disk'.tokens = copy[p].tokens
              /\ mintedBy' = mintedBy /\ Unshared(Later(p), mintedBy)
              /\ \A f \in Later(p) : mintedBy[f] # None
  <1>1. ASSUME NEW p \in Proc, Operation(p)
        PROVE  UNCHANGED <<disk, born>> /\ \A f \in born : mintedBy'[f] = mintedBy[f]
    <2>1. ASSUME NEW k \in Code, ExchangeMints(p, k)
          PROVE  UNCHANGED <<disk, born>> /\ \A f \in born : mintedBy'[f] = mintedBy[f]
      <3> DEFINE n == minted.pair + 1
      <3>1. UNCHANGED <<disk, born>> /\ mintedBy' = [mintedBy EXCEPT ![n] = k]
        BY <2>1 DEF ExchangeMints
      <3>2. minted.pair \in Nat
        BY BoundsAssumption DEF TypeOK
      <3>3. n \notin born
        <4>1. \A f \in born : f <= minted.pair
          BY DEF SessionInv
        <4> QED BY <3>2, <4>1
      <3>4. mintedBy \in [Family -> Code \cup {None}] /\ born \subseteq Family
        BY DEF TypeOK
      <3> HIDE DEF n
      <3> QED BY <3>1, <3>3, <3>4
    <2>2. CASE \E k \in Code : ExchangeMints(p, k)
      BY <2>1, <2>2
    <2>3. CASE ~\E k \in Code : ExchangeMints(p, k)
      <3>1. UNCHANGED <<disk, born, mintedBy>>
        BY <1>1, <2>3 DEF Operation, ExchangeCode, RotateRefreshForClient, RegisterClient,
           IssueCode, RemoveClient, RevokeTokens, ConsumeCode, ExchangeSpent, ExchangeStale,
           ExchangeRefused, RotateReused, RotateInvalid, RotateMints, PurgeExpired
      <3> QED BY <3>1
    <2> QED BY <2>2, <2>3
  <1>2. ASSUME NEW p \in Proc, Save(p)
        PROVE  \/ UNCHANGED <<disk.tokens, born, mintedBy>>
               \/ /\ Evolves(disk'.tokens, disk.tokens, born, minted.pair)
                  /\ born' = Later(p) /\ disk'.tokens = copy[p].tokens
                  /\ mintedBy' = mintedBy /\ Unshared(Later(p), mintedBy)
                  /\ \A f \in Later(p) : mintedBy[f] # None
    <2> DEFINE h == Head(todo[p])
    <2>1. /\ disk'.tokens = IF h = "tokens" THEN copy[p].tokens ELSE disk.tokens
          /\ born' = IF h = "tokens" THEN Later(p) ELSE born
          /\ mintedBy' = mintedBy
      BY <1>2, SaveEffect DEF Save, Later, Families
    <2>2. todo[p] \in Todos /\ todo[p] # << >>
      BY <1>2 DEF TypeOK, Save
    <2>3. h \in Pending(todo[p])
      BY <2>2, PendingSteps
    <2> HIDE DEF h
    <2>4. /\ "tokens" \in Pending(todo[p]) => Evolves(copy[p].tokens, disk.tokens, born, minted.pair)
          /\ Unshared(Later(p), mintedBy) /\ \A f \in Later(p) : mintedBy[f] # None
      BY <2>2 DEF SessionInv, Linked
    <2> QED BY <2>1, <2>3, <2>4
  <1>3. CASE \E p \in Proc : Return(p) \/ Abort(p)
    BY <1>3 DEF Return, Abort
  <1>4. CASE Tick \/ UNCHANGED vars
    BY <1>4 DEF Tick, vars
  <1> QED BY <1>1, <1>2, <1>3, <1>4 DEF Next

\* Revocation is final, whatever an operation had loaded before it.
THEOREM RevocationIsFinal == Spec => NoResurrection
  <1> DEFINE Final ==
        /\ \A t \in Token : OnDisk(t) /\ ~Live(t) => ~Live(t)'
        /\ \A f \in born :
             (\A t \in FamilyTokens(f) : t[1] = "refresh" => ~Live(t))
               => (\A t \in FamilyTokens(f)' : t[1] = "refresh" => ~Live(t)')
  <1>1. ASSUME TypeOK, SessionInv, [Next]_vars PROVE Final
    <2>1. CASE UNCHANGED <<disk.tokens, born>>
      BY <2>1 DEF OnDisk, Live, FamilyTokens
    <2>2. CASE Evolves(disk'.tokens, disk.tokens, born, minted.pair)
      <3>1. /\ \A t \in Token : disk.tokens[t] # Absent /\ ~LiveIn(disk.tokens, t)
                  => ~LiveIn(disk'.tokens, t)
            /\ \A f \in born : CurrentIn(disk.tokens, f) = {} => CurrentIn(disk'.tokens, f) = {}
        BY <2>2, EvolvesResurrectsNone
      <3>2. \A t \in Token : /\ Live(t) <=> LiveIn(disk.tokens, t)
                             /\ Live(t)' <=> LiveIn(disk'.tokens, t)
                             /\ OnDisk(t) <=> disk.tokens[t] # Absent
        BY DEF Live, OnDisk, LiveIn
      <3>3. ASSUME NEW f \in born, \A t \in FamilyTokens(f) : t[1] = "refresh" => ~Live(t)
            PROVE  CurrentIn(disk.tokens, f) = {}
        <4>1. ASSUME NEW n \in CurrentIn(disk.tokens, f) PROVE FALSE
          <5>1. n \in Pair /\ LiveIn(disk.tokens, <<"refresh", n>>)
                /\ disk.tokens[<<"refresh", n>>].family = f
            BY <4>1 DEF CurrentIn
          <5>2. <<"refresh", n>> \in FamilyTokens(f)
            BY <3>2, <5>1, TokenShape DEF FamilyTokens, LiveIn
          <5> QED BY <3>2, <3>3, <5>1, <5>2, TokenShape
        <4> QED BY <4>1
      <3>4. ASSUME NEW f \in born, CurrentIn(disk'.tokens, f) = {},
                   NEW t \in FamilyTokens(f)', t[1] = "refresh"
            PROVE  ~Live(t)'
        <4>1. t \in Token /\ disk'.tokens[t].family = f /\ t = <<"refresh", t[2]>> /\ t[2] \in Pair
          BY <3>4, TokenShape DEF FamilyTokens
        <4> QED BY <3>2, <3>4, <4>1 DEF CurrentIn
      <3> QED BY <3>1, <3>2, <3>3, <3>4
    <2> QED BY <1>1, <2>1, <2>2, SessionsChangeAtSaves
  <1>2. Spec => [][Final]_vars
    BY <1>1, SessionInvariance, PTL DEF Spec
  <1> QED BY <1>2 DEF NoResurrection

-----------------------------------------------------------------------------
(* Every step of the store is a step of TokenSessions, or none.             *)

\* When every session but s stands as it did.
LEMMA OpeningIsAStep ==
  ASSUME NEW s \in Pair, NEW k \in Code, PhaseOf(s) = "unborn",
         \A r \in Pair : OpenerOf(r) # k /\ CurrentOf(r) # s,
         \A r \in Pair : /\ PhaseOf(r)' = IF r = s THEN "live" ELSE PhaseOf(r)
                         /\ CurrentOf(r)' = IF r = s THEN s ELSE CurrentOf(r)
                         /\ OpenerOf(r)' = IF r = s THEN k ELSE OpenerOf(r)
  PROVE  Sessions!Next
  <1>1. Sessions!Open(s, k)
    BY DEF Sessions!Open, Family
  <1> QED BY <1>1 DEF Sessions!Next

LEMMA RotatingIsAStep ==
  ASSUME NEW s \in Pair, NEW t \in Pair, PhaseOf(s) = "live", PhaseOf(t) = "unborn",
         \A r \in Pair : CurrentOf(r) # t,
         \A r \in Pair : /\ PhaseOf(r)' = PhaseOf(r) /\ OpenerOf(r)' = OpenerOf(r)
                         /\ CurrentOf(r)' = IF r = s THEN t ELSE CurrentOf(r)
  PROVE  Sessions!Next
  <1>1. Sessions!Rotate(s, t)
    BY DEF Sessions!Rotate, Family
  <1> QED BY <1>1 DEF Sessions!Next

LEMMA ClosingIsAStep ==
  ASSUME NEW S \in SUBSET Pair, \A s \in S : PhaseOf(s) = "live",
         \A r \in Pair : /\ PhaseOf(r)' = IF r \in S THEN "closed" ELSE PhaseOf(r)
                         /\ CurrentOf(r)' = IF r \in S THEN 0 ELSE CurrentOf(r)
                         /\ OpenerOf(r)' = OpenerOf(r)
  PROVE  Sessions!Next
  <1>1. Sessions!Close(S)
    BY DEF Sessions!Close, Family
  <1> QED BY <1>1 DEF Sessions!Next

LEMMA StandingIsAStutter ==
  ASSUME \A r \in Pair : /\ PhaseOf(r)' = PhaseOf(r) /\ CurrentOf(r)' = CurrentOf(r)
                         /\ OpenerOf(r)' = OpenerOf(r)
  PROVE  UNCHANGED Sessions!vars
  BY DEF Sessions!vars, Family

\* A session with the same refresh tokens has the same current one.
LEMMA SameCurrent ==
  ASSUME NEW f, CurrentRefresh(f)' = CurrentRefresh(f)
  PROVE  CurrentOf(f)' = CurrentOf(f)
  <1> DEFINE Pick(S) == IF S = {} THEN None ELSE CHOOSE n \in S : TRUE
  <1>1. CurrentOf(f) = Pick(CurrentRefresh(f)) /\ CurrentOf(f)' = Pick(CurrentRefresh(f)')
    BY DEF CurrentOf
  <1> HIDE DEF Pick
  <1> QED BY <1>1

LEMMA CurrentIsOne ==
  ASSUME NEW f, OneLive(disk.tokens)
  PROVE  /\ \A m, n \in CurrentRefresh(f) : m = n
         /\ \A n \in CurrentRefresh(f) : CurrentOf(f) = n
         /\ CurrentRefresh(f) = {} => CurrentOf(f) = None
         /\ CurrentOf(f) \in CurrentRefresh(f) \cup {None}
  <1>1. \A m, n \in CurrentRefresh(f) : m = n
    BY DEF OneLive, CurrentRefresh, Live, OnDisk, LiveIn
  <1>2. CurrentRefresh(f) # {} => CurrentOf(f) \in CurrentRefresh(f)
    BY DEF CurrentOf
  <1>3. CurrentRefresh(f) = {} => CurrentOf(f) = None
    BY DEF CurrentOf
  <1> QED BY <1>1, <1>2, <1>3

\* Which refresh tokens each family is left with.
LEMMA CutsLeaveCurrent ==
  ASSUME NEW old, NEW new, CutsTokens(new, old), NEW f
  PROVE  CurrentIn(new, f) \subseteq CurrentIn(old, f)
  BY TokenShape DEF CutsTokens, CurrentIn, LiveIn

LEMMA AddingIsNew ==
  ASSUME NEW old, NEW new, NEW n \in Pair, NEW f, NEW spent, NEW known, NEW top,
         AddsPair(new, old, n, f, spent, known, top), NEW g
  PROVE  n \notin CurrentIn(old, g)
  <1>1. <<"refresh", n>> \in Token /\ <<"refresh", n>>[2] = n
    BY TokenShape
  <1>2. old[<<"refresh", n>>] = Absent
    BY <1>1 DEF AddsPair
  <1> QED BY <1>2 DEF CurrentIn, LiveIn

\* What AddsPair says of one refresh token that is not the new one.
LEMMA AddingElsewhere ==
  ASSUME NEW old, NEW new, NEW n \in Pair, NEW f, NEW spent, NEW known, NEW top,
         AddsPair(new, old, n, f, spent, known, top), NEW k \in Pair, k # n
  PROVE  LET t == <<"refresh", k>>
         IN  /\ t \in spent => ~LiveIn(new, t)
             /\ t \notin spent => new[t] = old[t]
  <1>1. <<"refresh", k>> \in Token /\ <<"refresh", k>>[2] = k
    BY TokenShape
  <1> QED BY <1>1 DEF AddsPair, LiveIn

LEMMA AddingTakesOver ==
  ASSUME NEW old, NEW new, NEW n \in Pair, NEW f, NEW spent, NEW known, NEW top,
         AddsPair(new, old, n, f, spent, known, top),
         \A k \in CurrentIn(old, f) : <<"refresh", k>> \in spent
  PROVE  CurrentIn(new, f) = {n}
  <1>1. LiveIn(new, <<"refresh", n>>) /\ new[<<"refresh", n>>].family = f
    BY TokenShape DEF AddsPair
  <1>2. n \in CurrentIn(new, f) /\ CurrentIn(new, f) \subseteq Pair
    BY <1>1 DEF CurrentIn
  <1>3. ASSUME NEW k \in CurrentIn(new, f), k # n PROVE FALSE
    <2> DEFINE t == <<"refresh", k>>
    <2>1. k \in Pair /\ LiveIn(new, t) /\ new[t].family = f
      BY <1>3 DEF CurrentIn
    <2>2. t \notin spent /\ new[t] = old[t]
      BY <1>3, <2>1, AddingElsewhere
    <2>3. k \in CurrentIn(old, f)
      BY <2>1, <2>2 DEF CurrentIn, LiveIn
    <2> QED BY <2>2, <2>3
  <1> QED BY <1>2, <1>3

LEMMA AddingLeavesOthers ==
  ASSUME NEW old, NEW new, NEW n \in Pair, NEW f, NEW spent, NEW known, NEW top,
         AddsPair(new, old, n, f, spent, known, top),
         \A t \in spent : old[t].family = f,
         NEW g, g # f
  PROVE  CurrentIn(new, g) = CurrentIn(old, g)
  <1>1. new[<<"refresh", n>>].family = f
    BY TokenShape DEF AddsPair
  <1>2. n \notin CurrentIn(new, g) /\ n \notin CurrentIn(old, g)
    BY <1>1, AddingIsNew DEF CurrentIn
  <1>3. ASSUME NEW k \in Pair, k # n
        PROVE  k \in CurrentIn(new, g) <=> k \in CurrentIn(old, g)
    <2> DEFINE t == <<"refresh", k>>
    <2>1. CASE t \in spent
      <3>1. ~LiveIn(new, t) /\ old[t].family # g
        BY <1>3, <2>1, AddingElsewhere
      <3> QED BY <3>1 DEF CurrentIn
    <2>2. CASE t \notin spent
      <3>1. new[t] = old[t]
        BY <1>3, <2>2, AddingElsewhere
      <3> QED BY <3>1 DEF CurrentIn, LiveIn
    <2> QED BY <2>1, <2>2
  <1>4. CurrentIn(new, g) \subseteq Pair /\ CurrentIn(old, g) \subseteq Pair
    BY DEF CurrentIn
  <1> QED BY <1>2, <1>3, <1>4

\* A session that begins, is handed on or ends, by the kinds of Evolves.
LEMMA EvolvesIsAStep ==
  ASSUME TypeOK, TypeOK', SessionInv, SessionInv', NEW p \in Proc, mintedBy' = mintedBy,
         Evolves(disk'.tokens, disk.tokens, born, minted.pair),
         born' = Later(p), disk'.tokens = copy[p].tokens,
         Unshared(Later(p), mintedBy), \A f \in Later(p) : mintedBy[f] # None
  PROVE  [Sessions!Next]_(Sessions!vars)
  <1> DEFINE old == disk.tokens
             new == disk'.tokens
  <1>1. \A f \in Family : CurrentRefresh(f) = CurrentIn(old, f) /\ CurrentRefresh(f)' = CurrentIn(new, f)
    BY DEF CurrentRefresh, CurrentIn, Live, OnDisk, LiveIn
  <1>2. OneLive(old) /\ OneLive(new)
    BY DEF SessionInv
  <1>3. \A t \in Token : old[t] # Absent => old[t].family \in born
    BY DEF SessionInv, OnDisk
  <1>4. \A f \in Family : CurrentRefresh(f) # {} => f \in born
    <2>1. ASSUME NEW f \in Family, NEW n \in CurrentRefresh(f) PROVE f \in born
      <3>1. /\ <<"refresh", n>> \in Token /\ old[<<"refresh", n>>] # Absent
            /\ old[<<"refresh", n>>].family = f
        BY <2>1, TokenShape DEF CurrentRefresh, Live, OnDisk
      <3> QED BY <1>3, <3>1
    <2> QED BY <2>1
  <1>5. born' = born \cup Families(new) /\ born \subseteq Family
    BY DEF Later, TypeOK
  <1>6. Pair = Family /\ None \notin Family
    BY DEF Family, Pair, None
  <1>7. \A r \in Pair : r \in born => OpenerOf(r) = mintedBy[r] /\ OpenerOf(r)' = mintedBy[r]
    BY <1>5 DEF OpenerOf
  <1>8. \A r \in Pair : r \notin born => OpenerOf(r) = None
    BY DEF OpenerOf
  <1>9. \A r \in Pair : r \notin born' => OpenerOf(r)' = None
    BY DEF OpenerOf
  <1>10. \A r \in Pair : /\ CurrentRefresh(r) = {} => CurrentOf(r) = None
                         /\ \A n \in CurrentRefresh(r) : CurrentOf(r) = n
                         /\ CurrentRefresh(r)' = {} => CurrentOf(r)' = None
                         /\ \A n \in CurrentRefresh(r)' : CurrentOf(r)' = n
                         /\ CurrentRefresh(r)' = CurrentRefresh(r) => CurrentOf(r)' = CurrentOf(r)
    <2>1. OneLive(disk.tokens)'
      BY <1>2 DEF OneLive, LiveIn
    <2>2. \A r \in Pair : /\ CurrentRefresh(r) = {} => CurrentOf(r) = None
                          /\ \A n \in CurrentRefresh(r) : CurrentOf(r) = n
      BY <1>2, CurrentIsOne
    <2>3. \A r \in Pair : /\ CurrentRefresh(r)' = {} => CurrentOf(r)' = None
                          /\ CurrentRefresh(r)' # {} => CurrentOf(r)' \in CurrentRefresh(r)'
      BY DEF CurrentOf
    <2>4. ASSUME NEW r \in Pair, NEW m \in CurrentRefresh(r)', NEW n \in CurrentRefresh(r)'
          PROVE  m = n
      <3>1. m \in CurrentIn(new, r) /\ n \in CurrentIn(new, r)
        BY <1>1, <1>6, <2>4
      <3> HIDE DEF new
      <3> QED BY <1>2, <3>1 DEF CurrentIn, OneLive
    <2> QED BY <2>2, <2>3, <2>4, SameCurrent
  <1> HIDE DEF old, new
  <1>11. CASE CutsTokens(new, old)
    <2> DEFINE S == {f \in Pair : CurrentRefresh(f) # {} /\ CurrentRefresh(f)' = {}}
    <2>1. \A f \in Pair : CurrentRefresh(f)' \subseteq CurrentRefresh(f)
      BY <1>1, <1>6, <1>11, CutsLeaveCurrent
    <2>2. \A f \in Pair : \A m, n \in CurrentRefresh(f) : m = n
      BY <1>2, CurrentIsOne DEF old
    <2>3. \A f \in Pair \ S : CurrentRefresh(f)' = CurrentRefresh(f)
      BY <2>1, <2>2
    <2>4. born' = born
      <3>1. Families(new) \subseteq born
        BY <1>3, <1>11 DEF CutsTokens, Families
      <3> QED BY <1>5, <3>1
    <2>5. S \in SUBSET Pair /\ \A s \in S : PhaseOf(s) = "live"
      BY DEF PhaseOf
    <2>6. ASSUME NEW r \in Pair
          PROVE  /\ PhaseOf(r)' = IF r \in S THEN "closed" ELSE PhaseOf(r)
                 /\ CurrentOf(r)' = IF r \in S THEN 0 ELSE CurrentOf(r)
                 /\ OpenerOf(r)' = OpenerOf(r)
      <3>1. OpenerOf(r)' = OpenerOf(r)
        BY <2>4 DEF OpenerOf
      <3>2. CASE r \in S
        <4>1. r \in born' /\ CurrentRefresh(r)' = {}
          BY <1>4, <1>6, <2>4, <3>2
        <4>2. PhaseOf(r)' = "closed"
          BY <4>1 DEF PhaseOf
        <4>3. CurrentOf(r)' = 0
          BY <1>10, <4>1 DEF None
        <4> QED BY <3>1, <3>2, <4>2, <4>3
      <3>3. CASE r \notin S
        <4>1. CurrentRefresh(r)' = CurrentRefresh(r)
          BY <2>3, <3>3
        <4>2. PhaseOf(r)' = PhaseOf(r)
          BY <2>4, <4>1 DEF PhaseOf
        <4>3. CurrentOf(r)' = CurrentOf(r)
          BY <4>1, SameCurrent
        <4> QED BY <3>1, <3>3, <4>2, <4>3
      <3> QED BY <3>2, <3>3
    <2> HIDE DEF S
    <2> QED BY <2>5, <2>6, ClosingIsAStep
  <1>12. CASE OpensSession(new, old, born, minted.pair)
    <2>1. PICK n \in Pair : AddsPair(new, old, n, n, {}, born, minted.pair)
      BY <1>12 DEF OpensSession
    <2>2. n \notin born
      BY <2>1 DEF AddsPair
    <2>3. CurrentRefresh(n) = {}
      BY <1>4, <1>6, <2>2
    <2>4. \A k \in CurrentIn(old, n) : <<"refresh", k>> \in {}
      BY <1>1, <1>6, <2>3
    <2>s. \A t \in {} : old[t].family = n
      OBVIOUS
    <2>5. CurrentIn(new, n) = {n}
      BY <2>1, <2>4, AddingTakesOver
    <2>t. ASSUME NEW g \in Pair
          PROVE  /\ n \notin CurrentIn(old, g)
                 /\ g # n => CurrentIn(new, g) = CurrentIn(old, g)
      BY <2>1, <2>s, AddingIsNew, AddingLeavesOthers
    <2>6. /\ CurrentRefresh(n)' = {n}
          /\ \A r \in Pair \ {n} : CurrentRefresh(r)' = CurrentRefresh(r)
          /\ \A r \in Pair : n \notin CurrentRefresh(r)
      <3>1. CurrentRefresh(n)' = {n}
        BY <1>1, <1>6, <2>5, <2>t
      <3>2. ASSUME NEW r \in Pair \ {n} PROVE CurrentRefresh(r)' = CurrentRefresh(r)
        BY <1>1, <1>6, <2>5, <2>t
      <3>3. ASSUME NEW r \in Pair PROVE n \notin CurrentRefresh(r)
        BY <1>1, <1>6, <2>5, <2>t
      <3> QED BY <3>1, <3>2, <3>3
    <2>7. born' = born \cup {n}
      <3>1. \A t \in Token : new[t] # Absent => new[t].family \in born \cup {n}
        BY <1>3, <2>1 DEF AddsPair
      <3>2. new[<<"refresh", n>>] # Absent /\ new[<<"refresh", n>>].family = n
        BY <2>5 DEF CurrentIn, LiveIn
      <3>3. Families(new) \subseteq born \cup {n} /\ n \in Families(new)
        BY <1>6, <3>1, <3>2, TokenShape DEF Families
      <3> QED BY <1>5, <3>3
    <2> DEFINE k == mintedBy[n]
    <2>8. k \in Code /\ n \in Later(p)
      BY <1>6, <2>7 DEF TypeOK
    <2>9. PhaseOf(n) = "unborn"
      BY <2>2, <2>3 DEF PhaseOf
    <2>10. ASSUME NEW r \in Pair PROVE OpenerOf(r) # k /\ CurrentOf(r) # n
      <3>1. OpenerOf(r) # k
        <4>1. CASE r \in born
          <5>1. r \in Later(p) /\ r # n
            BY <2>2, <2>7, <4>1
          <5>2. mintedBy[r] # k
            BY <2>8, <5>1 DEF Unshared
          <5> QED BY <1>7, <4>1, <5>2
        <4>2. CASE r \notin born
          BY <1>8, <2>8, <4>2 DEF Code, None
        <4> QED BY <4>1, <4>2
      <3>2. CurrentOf(r) \in CurrentRefresh(r) \cup {None}
        BY <1>2, CurrentIsOne DEF old
      <3> QED BY <1>6, <2>6, <3>1, <3>2
    <2>11. ASSUME NEW r \in Pair
           PROVE  /\ PhaseOf(r)' = IF r = n THEN "live" ELSE PhaseOf(r)
                  /\ CurrentOf(r)' = IF r = n THEN n ELSE CurrentOf(r)
                  /\ OpenerOf(r)' = IF r = n THEN k ELSE OpenerOf(r)
      <3>1. CASE r = n
        <4>1. PhaseOf(n)' = "live"
          BY <2>6 DEF PhaseOf
        <4>2. CurrentOf(n)' = n
          BY <1>10, <2>6
        <4>3. OpenerOf(n)' = k
          BY <2>7 DEF OpenerOf
        <4> QED BY <3>1, <4>1, <4>2, <4>3
      <3>2. CASE r # n
        <4>1. CurrentRefresh(r)' = CurrentRefresh(r) /\ (r \in born' <=> r \in born)
          BY <2>6, <2>7, <3>2
        <4>2. PhaseOf(r)' = PhaseOf(r) /\ OpenerOf(r)' = OpenerOf(r)
          BY <4>1 DEF PhaseOf, OpenerOf
        <4> QED BY <3>2, <4>1, <4>2, SameCurrent
      <3> QED BY <3>1, <3>2
    <2> HIDE DEF k
    <2> QED BY <2>8, <2>9, <2>10, <2>11, OpeningIsAStep
  <1>13. CASE RotatesToken(new, old, born, minted.pair)
    <2>1. PICK m \in Pair, n \in Pair :
            LET t == <<"refresh", m>>
            IN  LiveIn(old, t) /\ AddsPair(new, old, n, old[t].family, {t}, born, minted.pair)
      BY <1>13 DEF RotatesToken
    <2> DEFINE t == <<"refresh", m>>
    <2>a. old[t].family \in born
      BY <1>3, <2>1, TokenShape DEF LiveIn
    <2>b. PICK f \in born : f = old[t].family
      BY <2>a
    <2>2. t \in Token /\ LiveIn(old, t) /\ AddsPair(new, old, n, f, {t}, born, minted.pair)
      BY <2>1, <2>b, TokenShape
    <2>3. f \in born /\ f \in Pair /\ n \notin born
      BY <1>5, <1>6, <2>2 DEF AddsPair
    <2>4. m \in CurrentIn(old, f)
      BY <2>1, <2>b DEF CurrentIn
    <2>5. \A k \in CurrentIn(old, f) : <<"refresh", k>> \in {t}
      BY <1>2, <2>4 DEF CurrentIn, OneLive
    <2>6. \A s \in {t} : old[s].family = f
      BY <2>b
    <2> HIDE DEF t
    <2>7. CurrentIn(new, f) = {n}
      BY <2>2, <2>5, AddingTakesOver
    <2>t. ASSUME NEW g \in Pair
          PROVE  /\ n \notin CurrentIn(old, g)
                 /\ g # f => CurrentIn(new, g) = CurrentIn(old, g)
      BY <2>2, <2>6, AddingIsNew, AddingLeavesOthers
    <2>8. /\ CurrentRefresh(f) # {} /\ CurrentRefresh(f)' = {n} /\ CurrentRefresh(n) = {}
          /\ \A r \in Pair \ {f} : CurrentRefresh(r)' = CurrentRefresh(r)
          /\ \A r \in Pair : n \notin CurrentRefresh(r)
      <3>1. CurrentRefresh(f) # {} /\ CurrentRefresh(f)' = {n}
        BY <1>1, <1>6, <2>3, <2>4, <2>7
      <3>2. CurrentRefresh(n) = {}
        BY <1>4, <1>6, <2>3
      <3>3. ASSUME NEW r \in Pair \ {f} PROVE CurrentRefresh(r)' = CurrentRefresh(r)
        BY <1>1, <1>6, <2>t
      <3>4. ASSUME NEW r \in Pair PROVE n \notin CurrentRefresh(r)
        BY <1>1, <1>6, <2>t
      <3> QED BY <3>1, <3>2, <3>3, <3>4
    <2>9. born' = born
      <3>1. \A s \in Token : new[s] # Absent => new[s].family \in born
        BY <1>3, <2>2, <2>3 DEF AddsPair
      <3> QED BY <1>5, <3>1 DEF Families
    <2>10. PhaseOf(f) = "live" /\ PhaseOf(n) = "unborn"
      BY <2>3, <2>8 DEF PhaseOf
    <2>11. ASSUME NEW r \in Pair PROVE CurrentOf(r) # n
      <3>1. CurrentOf(r) \in CurrentRefresh(r) \cup {None}
        BY <1>2, CurrentIsOne DEF old
      <3> QED BY <1>6, <2>8, <3>1
    <2>12. ASSUME NEW r \in Pair
           PROVE  /\ PhaseOf(r)' = PhaseOf(r) /\ OpenerOf(r)' = OpenerOf(r)
                  /\ CurrentOf(r)' = IF r = f THEN n ELSE CurrentOf(r)
      <3>1. OpenerOf(r)' = OpenerOf(r)
        BY <2>9 DEF OpenerOf
      <3>2. CASE r = f
        <4>1. PhaseOf(f)' = PhaseOf(f)
          BY <2>8 DEF PhaseOf
        <4>2. CurrentOf(f)' = n
          BY <1>10, <2>3, <2>8
        <4> QED BY <3>1, <3>2, <4>1, <4>2
      <3>3. CASE r # f
        <4>1. CurrentRefresh(r)' = CurrentRefresh(r)
          BY <2>8, <3>3
        <4>2. PhaseOf(r)' = PhaseOf(r)
          BY <2>9, <4>1 DEF PhaseOf
        <4> QED BY <3>1, <3>3, <4>1, <4>2, SameCurrent
      <3> QED BY <3>2, <3>3
    <2> QED BY <2>3, <2>10, <2>11, <2>12, RotatingIsAStep
  <1>14. CutsTokens(new, old) \/ OpensSession(new, old, born, minted.pair)
         \/ RotatesToken(new, old, born, minted.pair)
    BY DEF Evolves, old, new
  <1> QED BY <1>11, <1>12, <1>13, <1>14

\* The store implements TokenSessions: a code opens at most one session, a
\* session has one refresh token at a time, and a closed one stays closed.
THEOREM StoreImplementsSessions == Spec => ImplementsSessions
  <1>1. Init => Sessions!Init
    <2> SUFFICES ASSUME Init PROVE Sessions!Init
      OBVIOUS
    <2>1. /\ \A t \in Token : disk.tokens[t] = Absent
          /\ born = {}
      BY DEF Init, NoFiles
    <2>2. \A f \in Pair : CurrentRefresh(f) = {}
      BY <2>1, TokenShape DEF CurrentRefresh, Live, OnDisk
    <2>3. \A f \in Pair : PhaseOf(f) = "unborn" /\ CurrentOf(f) = 0 /\ OpenerOf(f) = 0
      BY <2>1, <2>2 DEF PhaseOf, CurrentOf, OpenerOf, None
    <2> QED BY <2>3 DEF Sessions!Init, Family
  <1>2. ASSUME TypeOK, SessionInv, TypeOK', SessionInv', [Next]_vars
        PROVE  [Sessions!Next]_(Sessions!vars)
    <2>1. CASE UNCHANGED <<disk.tokens, born>> /\ \A f \in born : mintedBy'[f] = mintedBy[f]
      <3>1. \A r \in Pair : CurrentRefresh(r)' = CurrentRefresh(r)
        BY <2>1 DEF CurrentRefresh, Live, OnDisk
      <3>2. \A r \in Pair : /\ PhaseOf(r)' = PhaseOf(r) /\ CurrentOf(r)' = CurrentOf(r)
                            /\ OpenerOf(r)' = OpenerOf(r)
        BY <2>1, <3>1, SameCurrent DEF PhaseOf, OpenerOf
      <3> QED BY <3>2, StandingIsAStutter
    <2> QED BY <1>2, <2>1, SessionsChangeAtSaves, EvolvesIsAStep
  <1> QED BY <1>1, <1>2, SessionInvariance, PTL DEF Spec, ImplementsSessions, Sessions!Spec

-----------------------------------------------------------------------------
(* What an operation answers is what its saves will have made of the files. *)

FilesAfter(files, before, later) ==
  [clients |-> IF "clients" \in later THEN files.clients ELSE before.clients,
   codes   |-> IF "codes" \in later THEN files.codes ELSE before.codes,
   tokens  |-> IF "tokens" \in later THEN files.tokens ELSE before.tokens]

BearsOut(files, kind, x) ==
  /\ kind \in {"replay", "reuse"} =>
       \A t \in Token : files.tokens[t] # Absent /\ files.tokens[t].family = x
                          => files.tokens[t].revoked
  /\ kind = "removed" =>
       /\ x \notin files.clients
       /\ \A t \in Token : files.tokens[t] # Absent /\ files.tokens[t].client = x
                             => files.tokens[t].revoked
       /\ \A c \in Code : files.codes[c] # Absent => files.codes[c].client # x
  /\ kind \in {"issued", "rotated"} =>
       \A n \in Kind : LiveIn(files.tokens, <<n, x>>)

AnswerInv ==
  /\ \A p \in Proc : todo[p] # << >> => lock = p
  /\ \A p \in Proc : lock = p =>
       BearsOut(FilesAfter(copy[p], disk, Pending(todo[p])), answer[p].kind, answer[p].subject)

LEMMA AnswerPlanned ==
  ASSUME TypeOK, AnswerInv, NEW p \in Proc, Acquires(p), UNCHANGED disk,
         NEW files, NEW order, NEW kind, NEW subject, Plan(p, files, order, kind, subject),
         BearsOut(FilesAfter(files, disk, Pending(order)), kind, subject)
  PROVE  AnswerInv'
  <1>1. \A q \in Proc : todo[q] = << >>
    BY NoProcAssumption DEF AnswerInv, Acquires
  <1>2. /\ copy'[p] = files /\ todo'[p] = order
        /\ answer'[p].kind = kind /\ answer'[p].subject = subject
        /\ \A q \in Proc \ {p} : todo'[q] = << >>
    BY <1>1 DEF Plan, TypeOK
  <1>3. lock' = p
    BY DEF Acquires
  <1>4. Pending(todo[p])' = Pending(order)
    BY <1>2 DEF Pending
  <1>5. ASSUME NEW q \in Proc, lock' = q
        PROVE  BearsOut(FilesAfter(copy[q], disk, Pending(todo[q])), answer[q].kind, answer[q].subject)'
    <2>1. q = p
      BY <1>3, <1>5
    <2> QED BY <1>2, <1>4, <2>1
  <1> QED BY <1>2, <1>3, <1>5 DEF AnswerInv

\* A revocation that saves nothing had nothing to revoke.
LEMMA RevokedAll ==
  ASSUME TypeOK, NEW ts \in SUBSET Token, NEW files, files.tokens = Revoking(disk.tokens, ts),
         NEW later, \/ "tokens" \in later
                    \/ \A t \in ts : ~Live(t)
  PROVE  LET after == FilesAfter(files, disk, later).tokens
         IN  \A t \in Token : /\ after[t] # Absent /\ t \in ts => after[t].revoked
                              /\ after[t] # Absent => disk.tokens[t] # Absent
                              /\ after[t] # Absent => after[t].family = disk.tokens[t].family
                                                      /\ after[t].client = disk.tokens[t].client
  <1>1. disk.tokens \in [Token -> TokenRecord \cup {Absent}]
    BY DEF TypeOK, Files
  <1>2. CASE "tokens" \in later
    <2>1. FilesAfter(files, disk, later).tokens = Revoking(disk.tokens, ts)
      BY <1>2 DEF FilesAfter
    <2> QED BY <1>1, <2>1 DEF Revoking, TokenRecord
  <1>3. CASE "tokens" \notin later
    <2>1. FilesAfter(files, disk, later).tokens = disk.tokens
      BY <1>3 DEF FilesAfter
    <2> QED BY <1>3, <2>1 DEF Live, OnDisk
  <1> QED BY <1>2, <1>3

LEMMA PairIsLive ==
  ASSUME NEW tokens \in [Token -> TokenRecord \cup {Absent}], NEW n \in Pair,
         NEW f \in Family, NEW c \in Client, now \in Nat
  PROVE  \A i \in Kind : LiveIn(WithPair(tokens, n, f, c), <<i, n>>)
  <1> DEFINE new == WithPair(tokens, n, f, c)
             fresh(ttl) == [family |-> f, client |-> c, expires |-> now + ttl,
                            revoked |-> FALSE, rotated_to |-> None]
  <1>1. \A ttl \in Nat : fresh(ttl) \in TokenRecord
    BY DEF TokenRecord
  <1>2. \A ttl \in Nat : fresh(ttl) # Absent
    BY <1>1, AbsentAssumption
  <1>3. new[<<"access", n>>] = fresh(AccessTTL) /\ new[<<"refresh", n>>] = fresh(RefreshTTL)
    BY TokenShape DEF WithPair
  <1>4. AccessTTL \in Nat /\ RefreshTTL \in Nat
    BY BoundsAssumption
  <1>5. \A ttl \in Nat : ~fresh(ttl).revoked
    OBVIOUS
  <1> HIDE DEF new, fresh
  <1>6. LiveIn(new, <<"access", n>>) /\ LiveIn(new, <<"refresh", n>>)
    BY <1>2, <1>3, <1>4, <1>5 DEF LiveIn
  <1> QED BY <1>6 DEF Kind, new

LEMMA AnswerStep ==
  ASSUME TypeOK, AnswerInv, NEW p \in Proc, Operation(p)
  PROVE  AnswerInv'
  <1>a. disk \in Files /\ disk.tokens \in [Token -> TokenRecord \cup {Absent}]
    BY DEF TypeOK, Files
  <1>b. minted.pair \in Nat /\ now \in Nat
    BY BoundsAssumption DEF TypeOK
  <1>c. Pending(<<"tokens">>) = {"tokens"} /\ Pending(<<"codes", "tokens">>) = {"codes", "tokens"}
    BY DEF Pending
  \* Answers that promise nothing of the files.
  <1>1. ASSUME NEW files, NEW order, NEW kind, NEW subject, UNCHANGED disk,
               Acquires(p), Plan(p, files, order, kind, subject),
               kind \notin {"replay", "reuse", "removed", "issued", "rotated"}
        PROVE  AnswerInv'
    <2>1. BearsOut(FilesAfter(files, disk, Pending(order)), kind, subject)
      BY <1>1 DEF BearsOut
    <2> QED BY <1>1, <2>1, AnswerPlanned
  <1>2. CASE RegisterClient(p)
    <2> DEFINE c == minted.client + 1
               files == [disk EXCEPT !.clients = @ \cup {c}]
    <2>1. /\ Acquires(p) /\ UNCHANGED disk
          /\ Plan(p, disk, << >>, "invalid", None) \/ Plan(p, files, <<"clients">>, "registered", c)
      BY <1>2 DEF RegisterClient, Keep
    <2> HIDE DEF c, files
    <2> QED BY <1>1, <2>1
  <1>3. ASSUME NEW c \in Client, IssueCode(p, c) PROVE AnswerInv'
    <2> DEFINE k == minted.code + 1
               files == [disk EXCEPT !.codes[k] = [client |-> c, expires |-> now + CodeTTL,
                                                   used |-> FALSE, minted_family |-> None]]
    <2>1. Acquires(p) /\ UNCHANGED disk /\ Plan(p, files, <<"codes">>, "coded", k)
      BY <1>3 DEF IssueCode
    <2> HIDE DEF k, files
    <2> QED BY <1>1, <2>1
  <1>4. ASSUME NEW k \in Code, ConsumeCode(p, k) \/ ExchangeStale(p, k) \/ ExchangeRefused(p, k)
        PROVE  AnswerInv'
    <2> DEFINE files == [disk EXCEPT !.codes[k].used = TRUE]
    <2>1. /\ Acquires(p) /\ UNCHANGED disk
          /\ \/ Plan(p, disk, << >>, "invalid", None) \/ Plan(p, files, <<"codes">>, "consumed", k)
             \/ Plan(p, files, <<"codes">>, "invalid", None)
      BY <1>4 DEF ConsumeCode, ExchangeStale, ExchangeRefused, Keep
    <2> HIDE DEF files
    <2> QED BY <1>1, <2>1
  <1>5. ASSUME NEW n \in Pair, NEW c \in Client \cup {None}, RotateInvalid(p, n, c)
        PROVE  AnswerInv'
    BY <1>1, <1>5 DEF RotateInvalid, Keep
  <1>6. ASSUME NEW by, NEW x, RevokeTokens(p, by, x) PROVE AnswerInv'
    <2> DEFINE ts == Selection(by, x)
               files == [disk EXCEPT !.tokens = Revoking(@, ts)]
    <2>1. Acquires(p) /\ UNCHANGED disk /\ Plan(p, files, TokensIfChanged(ts), "revoked", None)
      BY <1>6 DEF RevokeTokens
    <2> HIDE DEF ts, files
    <2> QED BY <1>1, <2>1
  <1>7. CASE PurgeExpired(p)
    <2> DEFINE ks == {k \in Code : disk.codes[k] # Absent /\ ~KeptCode(disk.codes[k])}
               ts == {t \in Token : OnDisk(t) /\ disk.tokens[t].expires <= now}
               files == [disk EXCEPT
                    !.codes  = [k \in Code |-> IF k \in ks THEN Absent ELSE @[k]],
                    !.tokens = [t \in Token |-> IF t \in ts THEN Absent ELSE @[t]]]
               order == PurgeOrder(ks # {}, ts # {})
    <2>1. Acquires(p) /\ UNCHANGED disk /\ Plan(p, files, order, "purged", None)
      BY <1>7 DEF PurgeExpired
    <2> HIDE DEF ks, ts, files, order
    <2> QED BY <1>1, <2>1
  \* A replay or a reuse leaves its family dead, saved or not.
  <1>8. ASSUME NEW f, NEW ts \in SUBSET Token, NEW files, NEW order,
               NEW kind \in {"replay", "reuse"}, UNCHANGED disk,
               Acquires(p), Plan(p, files, order, kind, f),
               files.tokens = Revoking(disk.tokens, ts),
               \A t \in Token : disk.tokens[t] # Absent /\ disk.tokens[t].family = f => t \in ts,
               "tokens" \in Pending(order) \/ \A t \in ts : ~Live(t)
        PROVE  AnswerInv'
    <2> DEFINE after == FilesAfter(files, disk, Pending(order))
    <2>1. \A t \in Token : /\ after.tokens[t] # Absent /\ t \in ts => after.tokens[t].revoked
                           /\ after.tokens[t] # Absent => disk.tokens[t] # Absent
                           /\ after.tokens[t] # Absent =>
                                after.tokens[t].family = disk.tokens[t].family
      BY <1>8, RevokedAll
    <2> HIDE DEF after
    <2>2. BearsOut(after, kind, f)
      BY <1>8, <2>1 DEF BearsOut
    <2> QED BY <1>8, <2>2, AnswerPlanned DEF after
  <1>9. ASSUME NEW k \in Code, ExchangeSpent(p, k) PROVE AnswerInv'
    <2> DEFINE f == disk.codes[k].minted_family
               burn == IF f = None THEN {} ELSE FamilyTokens(f)
               files == [disk EXCEPT !.tokens = Revoking(@, burn)]
    <2>1. files.tokens = Revoking(disk.tokens, burn) /\ burn \in SUBSET Token
      BY <1>a DEF Files, FamilyTokens
    <2>2. /\ Acquires(p) /\ UNCHANGED disk
          /\ Plan(p, files, TokensIfChanged(burn), "replay", f)
      BY <1>9 DEF ExchangeSpent
    <2>3. \A t \in Token : disk.tokens[t] # Absent /\ disk.tokens[t].family = f => t \in burn
      <3>1. \A t \in Token : disk.tokens[t] # Absent => disk.tokens[t].family # None
        BY <1>a DEF TokenRecord, Family, Pair, None
      <3> QED BY <3>1 DEF FamilyTokens, OnDisk
    <2> HIDE DEF f, burn, files
    <2>4. "tokens" \in Pending(TokensIfChanged(burn)) \/ \A t \in burn : ~Live(t)
      BY <1>c DEF TokensIfChanged
    <2> QED BY <1>8, <2>1, <2>2, <2>3, <2>4
  <1>10. ASSUME NEW n \in Pair, RotateReused(p, n) PROVE AnswerInv'
    <2> DEFINE f == disk.tokens[<<"refresh", n>>].family
               files == [disk EXCEPT !.tokens = Revoking(@, FamilyTokens(f))]
    <2>1. files.tokens = Revoking(disk.tokens, FamilyTokens(f)) /\ FamilyTokens(f) \in SUBSET Token
      BY <1>a DEF Files, FamilyTokens
    <2>2. Acquires(p) /\ UNCHANGED disk /\ Plan(p, files, <<"tokens">>, "reuse", f)
      BY <1>10 DEF RotateReused
    <2>3. \A t \in Token : disk.tokens[t] # Absent /\ disk.tokens[t].family = f => t \in FamilyTokens(f)
      BY DEF FamilyTokens, OnDisk
    <2> HIDE DEF f, files
    <2> QED BY <1>8, <1>c, <2>1, <2>2, <2>3
  \* The pair handed out is in the file that is about to be saved.
  <1>11. ASSUME NEW n \in Pair, NEW f \in Family, NEW c \in Client, NEW order, NEW files,
                NEW old \in [Token -> TokenRecord \cup {Absent}], UNCHANGED disk,
                NEW kind \in {"issued", "rotated"}, Acquires(p), Plan(p, files, order, kind, n),
                files.tokens = WithPair(old, n, f, c), "tokens" \in Pending(order)
         PROVE  AnswerInv'
    <2>1. FilesAfter(files, disk, Pending(order)).tokens = WithPair(old, n, f, c)
      BY <1>11 DEF FilesAfter
    <2>2. \A i \in Kind : LiveIn(FilesAfter(files, disk, Pending(order)).tokens, <<i, n>>)
      BY <1>b, <2>1, PairIsLive
    <2>3. BearsOut(FilesAfter(files, disk, Pending(order)), kind, n)
      BY <1>11, <2>2 DEF BearsOut
    <2> QED BY <1>11, <2>3, AnswerPlanned
  <1>12. ASSUME NEW k \in Code, ExchangeMints(p, k) PROVE AnswerInv'
    <2> DEFINE n == minted.pair + 1
               c == disk.codes[k].client
               spent == [disk.codes[k] EXCEPT !.used = TRUE, !.minted_family = n]
               files == [disk EXCEPT !.codes[k] = spent, !.tokens = WithPair(@, n, n, c)]
    <2>1. Acquires(p) /\ UNCHANGED disk /\ Plan(p, files, <<"codes", "tokens">>, "issued", n)
      BY <1>12 DEF ExchangeMints, ExchangeOrder
    <2>2. n \in Pair /\ n \in Family /\ c \in Client
      BY <1>12, <1>a, <1>b, BoundsAssumption DEF ExchangeMints, Files, Pair, Family
    <2>3. files.tokens = WithPair(disk.tokens, n, n, c)
      BY <1>a DEF Files
    <2> HIDE DEF n, c, spent, files
    <2> QED BY <1>11, <1>a, <1>c, <2>1, <2>2, <2>3
  <1>13. ASSUME NEW n \in Pair, NEW c \in Client \cup {None}, RotateMints(p, n, c)
         PROVE  AnswerInv'
    <2> DEFINE t == <<"refresh", n>>
               rec == disk.tokens[t]
               m == minted.pair + 1
               old == [disk.tokens EXCEPT ![t] = RotatedTo(rec, m)]
               files == [disk EXCEPT !.tokens = WithPair(old, m, rec.family, rec.client)]
    <2>1. Acquires(p) /\ UNCHANGED disk /\ Plan(p, files, <<"tokens">>, "rotated", m)
      BY <1>13 DEF RotateMints
    <2>2. m \in Pair
      <3>1. m <= MaxPair
        BY <1>13 DEF RotateMints
      <3> QED BY <1>b, <3>1, BoundsAssumption DEF Pair
    <2>3. t \in Token /\ rec \in TokenRecord
      BY <1>13, <1>a, TokenShape DEF RotateMints, Rotatable, OnDisk
    <2>4. rec.family \in Family /\ rec.client \in Client /\ RotatedTo(rec, m) \in TokenRecord
      BY <2>2, <2>3 DEF RotatedTo, TokenRecord
    <2>5. old \in [Token -> TokenRecord \cup {Absent}]
      BY <1>a, <2>3, <2>4
    <2>6. files.tokens = WithPair(old, m, rec.family, rec.client)
      BY <1>a DEF Files
    <2> HIDE DEF t, rec, m, old, files
    <2> QED BY <1>11, <1>c, <2>1, <2>2, <2>4, <2>5, <2>6
  <1>14. ASSUME NEW c \in Client, RemoveClient(p, c) PROVE AnswerInv'
    <2> DEFINE ts == ClientTokens(c)
               ks == {k \in Code : disk.codes[k] # Absent /\ disk.codes[k].client = c}
               files == [clients |-> disk.clients \ {c},
                  codes   |-> [k \in Code |-> IF k \in ks THEN Absent ELSE disk.codes[k]],
                  tokens  |-> Revoking(disk.tokens, ts)]
               order == RemovalOrder(\E t \in ts : Live(t), ks # {})
               after == FilesAfter(files, disk, Pending(order))
    <2>1. Acquires(p) /\ UNCHANGED disk /\ Plan(p, files, order, "removed", c)
      BY <1>14 DEF RemoveClient
    <2>2. /\ files.clients = disk.clients \ {c} /\ files.tokens = Revoking(disk.tokens, ts)
          /\ files.codes = [k \in Code |-> IF k \in ks THEN Absent ELSE disk.codes[k]]
      OBVIOUS
    <2>3. ts \in SUBSET Token
          /\ \A t \in Token : disk.tokens[t] # Absent /\ disk.tokens[t].client = c => t \in ts
      BY DEF ClientTokens, OnDisk
    <2>4. \A k \in Code : k \in ks <=> disk.codes[k] # Absent /\ disk.codes[k].client = c
      OBVIOUS
    <2> HIDE DEF ts, ks, files
    <2>5. /\ "clients" \in Pending(order)
          /\ "tokens" \in Pending(order) \/ \A t \in ts : ~Live(t)
          /\ "codes" \in Pending(order) \/ ks = {}
      <3>1. CASE (\E t \in ts : Live(t)) /\ ks # {}
        BY <3>1, PendingOrders DEF RemovalOrder
      <3>2. CASE (\E t \in ts : Live(t)) /\ ks = {}
        BY <3>2, PendingOrders DEF RemovalOrder
      <3>3. CASE ~(\E t \in ts : Live(t)) /\ ks # {}
        BY <3>3, PendingOrders DEF RemovalOrder
      <3>4. CASE ~(\E t \in ts : Live(t)) /\ ks = {}
        BY <3>4, PendingOrders DEF RemovalOrder
      <3> QED BY <3>1, <3>2, <3>3, <3>4
    <2> HIDE DEF order
    <2>6. \A t \in Token : after.tokens[t] # Absent /\ after.tokens[t].client = c
                             => after.tokens[t].revoked
      <3>1. \A t \in Token : /\ after.tokens[t] # Absent /\ t \in ts => after.tokens[t].revoked
                             /\ after.tokens[t] # Absent => disk.tokens[t] # Absent
                             /\ after.tokens[t] # Absent =>
                                  after.tokens[t].client = disk.tokens[t].client
        BY <2>2, <2>3, <2>5, RevokedAll
      <3> HIDE DEF after
      <3> QED BY <2>3, <3>1
    <2>7. c \notin after.clients
      BY <2>2, <2>5 DEF FilesAfter
    <2>8. \A k \in Code : after.codes[k] # Absent => after.codes[k].client # c
      <3>1. CASE "codes" \in Pending(order)
        <4>1. after.codes = files.codes
          BY <3>1 DEF FilesAfter
        <4> HIDE DEF after
        <4> QED BY <2>2, <2>4, <4>1
      <3>2. CASE "codes" \notin Pending(order)
        <4>1. after.codes = disk.codes
          BY <3>2 DEF FilesAfter
        <4> HIDE DEF after
        <4> QED BY <2>4, <2>5, <3>2, <4>1
      <3> QED BY <3>1, <3>2
    <2>9. BearsOut(after, "removed", c)
      <3> HIDE DEF after
      <3> QED BY <2>6, <2>7, <2>8 DEF BearsOut
    <2> QED BY <2>1, <2>9, AnswerPlanned
  <1> QED
    BY <1>2, <1>3, <1>4, <1>5, <1>6, <1>7, <1>9, <1>10, <1>12, <1>13, <1>14
    DEF Operation, ExchangeCode, RotateRefreshForClient

LEMMA AnswerSave ==
  ASSUME TypeOK, AnswerInv, NEW p \in Proc, Save(p)
  PROVE  AnswerInv'
  <1> DEFINE s == todo[p]
             h == Head(s)
  <1>1. s \in Todos /\ s # << >> /\ lock = p
    BY DEF TypeOK, Save, AnswerInv
  <1>2. lock' = lock /\ copy' = copy /\ answer' = answer
    BY DEF Save
  <1>3. todo'[p] = Tail(s) /\ \A q \in Proc \ {p} : todo'[q] = << >>
    BY <1>1, SaveEffect DEF AnswerInv
  <1>4. /\ Pending(s) = {h} \cup Pending(Tail(s)) /\ h \notin Pending(Tail(s))
        /\ Pending(todo'[p]) = Pending(Tail(s))
    BY <1>1, <1>3, PendingSteps
  <1>5. /\ disk'.clients = IF h = "clients" THEN copy[p].clients ELSE disk.clients
        /\ disk'.codes = IF h = "codes" THEN copy[p].codes ELSE disk.codes
        /\ disk'.tokens = IF h = "tokens" THEN copy[p].tokens ELSE disk.tokens
    BY SaveEffect
  <1>6. FilesAfter(copy[p], disk', Pending(Tail(s))) = FilesAfter(copy[p], disk, Pending(s))
    <2> HIDE DEF s, h
    <2> QED BY <1>4, <1>5 DEF FilesAfter
  <1>7. BearsOut(FilesAfter(copy[p], disk, Pending(s)), answer[p].kind, answer[p].subject)
    BY <1>1 DEF AnswerInv
  <1>8. ASSUME NEW q \in Proc, lock' = q
        PROVE  BearsOut(FilesAfter(copy[q], disk, Pending(todo[q])), answer[q].kind, answer[q].subject)'
    <2>1. q = p
      BY <1>1, <1>2, <1>8
    <2>2. Pending(todo[p])' = Pending(Tail(s))
      BY <1>4 DEF Pending
    <2> HIDE DEF s, h
    <2> QED BY <1>2, <1>6, <1>7, <2>1, <2>2
  <1> HIDE DEF s, h
  <1> QED BY <1>1, <1>2, <1>3, <1>8 DEF AnswerInv

\* What an operation returns is true of the files: a replayed or reused family
\* is dead, a removed client holds nothing, a pair handed out is saved.
THEOREM AnswersAreTrue == Spec => []AnswersMatchDisk
  <1>1. Init => AnswerInv
    BY NoProcAssumption DEF Init, AnswerInv
  <1>2. TypeOK /\ AnswerInv /\ [Next]_vars => AnswerInv'
    <2> SUFFICES ASSUME TypeOK, AnswerInv, [Next]_vars PROVE AnswerInv'
      OBVIOUS
    <2>1. ASSUME NEW p \in Proc, Return(p) \/ Abort(p) PROVE AnswerInv'
      <3>1. lock' = NoProc /\ \A q \in Proc : todo'[q] = << >>
        BY <2>1 DEF Return, Abort, Released, AnswerInv, TypeOK
      <3> QED BY <3>1, NoProcAssumption DEF AnswerInv
    <2>2. CASE Tick \/ UNCHANGED vars
      <3>1. UNCHANGED <<disk, todo, lock, copy, answer>>
        BY <2>2 DEF Tick, vars
      <3> QED BY <3>1 DEF AnswerInv, Pending
    <2> QED BY <2>1, <2>2, AnswerStep, AnswerSave DEF Next
  <1>3. AnswerInv => AnswersMatchDisk
    <2> SUFFICES ASSUME AnswerInv, NEW p \in Proc, lock = p, todo[p] = << >>
                 PROVE  LET x == answer[p].subject
                            k == answer[p].kind
                        IN  /\ k \in {"replay", "reuse"} => \A t \in FamilyTokens(x) : ~Live(t)
                            /\ k = "removed" =>
                                 /\ x \notin disk.clients
                                 /\ \A t \in ClientTokens(x) : ~Live(t)
                                 /\ \A c \in Code : disk.codes[c] # Absent => disk.codes[c].client # x
                            /\ k \in {"issued", "rotated"} => \A kind \in Kind : Live(<<kind, x>>)
      BY DEF AnswersMatchDisk
    <2> DEFINE after == FilesAfter(copy[p], disk, Pending(todo[p]))
    <2>1. BearsOut(after, answer[p].kind, answer[p].subject)
      BY DEF AnswerInv
    <2>2. after.clients = disk.clients /\ after.codes = disk.codes /\ after.tokens = disk.tokens
      BY PendingOrders DEF FilesAfter
    <2> HIDE DEF after
    <2> QED BY <2>1, <2>2 DEF BearsOut, FamilyTokens, ClientTokens, Live, LiveIn, OnDisk
  <1> QED BY <1>1, <1>2, <1>3, TypeInit, TypeStep, PTL DEF Spec

-----------------------------------------------------------------------------
(* POST /authorize: a code that was handed out goes with its client.        *)

\* An edit of codes.json changes no code's owner.
KeepsOwners(codes) ==
  \A k \in Code : k <= minted.code /\ codes[k] # Absent =>
    disk.codes[k] # Absent /\ codes[k].client = disk.codes[k].client

\* By the time clients.json is saved, the clients it drops have no codes.
DropsBare(files, order) ==
  "clients" \in Pending(order) =>
    \A k \in Code :
      LET rec == FilesAfter(files, disk, Pending(order)).codes[k]
      IN  rec # Absent /\ rec.client \in disk.clients => rec.client \in files.clients

\* The codes a redirect carried, or may carry next.
Promised == handed \cup {stage[h].code : h \in {g \in Handler : At(g, "issued")}}

IssuedOwn(h) ==
  LET rec == disk.codes[stage[h].code]
  IN  rec # Absent => rec.client = stage[h].client

IssuingOwn(h) ==
  LET k   == stage[h].code
      rec == FilesAfter(copy[h], disk, Pending(todo[h])).codes[k]
  IN  /\ k \in Code /\ k <= minted.code
      /\ rec # Absent => rec.client = stage[h].client

SavesOwners(p) ==
  /\ "codes" \in Pending(todo[p]) =>
       \A k \in Promised : copy[p].codes[k] # Absent =>
         disk.codes[k] # Absent /\ copy[p].codes[k].client = disk.codes[k].client
  /\ DropsBare(copy[p], todo[p])

OwnersInv ==
  /\ \A p \in Proc : todo[p] # << >> => lock = p
  /\ \A k \in Promised : k \in Code /\ k <= minted.code
  /\ NoCodeOutlivesItsClient
  /\ \A h \in Handler : At(h, "issued") => IssuedOwn(h)
  /\ \A h \in Handler : At(h, "issuing") => IssuingOwn(h)
  /\ \A p \in Proc : todo[p] # << >> => SavesOwners(p)

\* What every operation plans.
Planned(p) ==
  /\ Acquires(p) /\ disk' = disk /\ minted.code <= minted'.code
  /\ KeepsOwners(copy'[p].codes)
  /\ "clients" \in Pending(todo'[p]) =>
       \A k \in Code :
         LET rec == FilesAfter(copy'[p], disk, Pending(todo'[p])).codes[k]
         IN  rec # Absent /\ rec.client \in disk.clients => rec.client \in copy'[p].clients
  /\ \A q \in Proc \ {p} : todo'[q] = todo[q]

LEMMA OperationPlans ==
  ASSUME TypeOK, NEW p \in Proc, Operation(p)
  PROVE  Planned(p)
  <1>a. disk \in Files /\ disk.clients \subseteq Client
        /\ disk.codes \in [Code -> CodeRecord \cup {Absent}]
    BY DEF TypeOK, Files
  <1>b. minted.code \in Nat /\ minted.pair \in Nat /\ minted.client \in Nat
    BY BoundsAssumption DEF TypeOK
  <1>0. ASSUME NEW files, NEW order, NEW kind, NEW subject, UNCHANGED disk,
               Acquires(p), Plan(p, files, order, kind, subject),
               minted.code <= minted'.code, KeepsOwners(files.codes), DropsBare(files, order)
        PROVE  Planned(p)
    <2>1. copy'[p] = files /\ todo'[p] = order /\ \A q \in Proc \ {p} : todo'[q] = todo[q]
      BY <1>0 DEF Plan, TypeOK
    <2> QED BY <1>0, <2>1 DEF Planned, DropsBare
  <1>1. ASSUME NEW files, NEW kind, NEW subject, UNCHANGED disk, Acquires(p),
               NEW order \in {<< >>, <<"codes">>, <<"tokens">>, <<"codes", "tokens">>},
               Plan(p, files, order, kind, subject),
               minted.code <= minted'.code, KeepsOwners(files.codes)
        PROVE  Planned(p)
    <2>1. "clients" \notin Pending(order)
      BY <1>1, PendingOrders
    <2>2. DropsBare(files, order)
      BY <2>1 DEF DropsBare
    <2> QED BY <1>0, <1>1, <2>2
  <1>2. KeepsOwners(disk.codes)
    BY DEF KeepsOwners
  <1>3. \A ts : TokensIfChanged(ts) \in {<< >>, <<"tokens">>}
    BY DEF TokensIfChanged
  <1>4. CASE RegisterClient(p)
    <2> DEFINE c == minted.client + 1
               files == [disk EXCEPT !.clients = @ \cup {c}]
    <2>1. /\ Acquires(p) /\ UNCHANGED disk /\ minted' = [minted EXCEPT !.client = c]
          /\ \/ Plan(p, disk, << >>, "invalid", None)
             \/ Plan(p, files, <<"clients">>, "registered", c)
      BY <1>4 DEF RegisterClient, Keep
    <2>2. files.clients = disk.clients \cup {c} /\ files.codes = disk.codes
      BY <1>a DEF Files
    <2>3. minted.code <= minted'.code
      BY <1>b, <2>1 DEF TypeOK
    <2> HIDE DEF c, files
    <2>4. DropsBare(files, <<"clients">>)
      BY <2>2 DEF DropsBare
    <2> QED BY <1>0, <1>1, <1>2, <2>1, <2>2, <2>3, <2>4
  <1>5. ASSUME NEW c \in Client, IssueCode(p, c) PROVE Planned(p)
    <2> DEFINE k == minted.code + 1
               files == [disk EXCEPT !.codes[k] = [client |-> c, expires |-> now + CodeTTL,
                                                   used |-> FALSE, minted_family |-> None]]
    <2>1. /\ Acquires(p) /\ UNCHANGED disk /\ Plan(p, files, <<"codes">>, "coded", k)
          /\ minted' = [minted EXCEPT !.code = k]
      BY <1>5 DEF IssueCode
    <2>2. \A j \in Code : j # k => files.codes[j] = disk.codes[j]
      BY <1>a DEF Files
    <2>3. minted.code <= minted'.code /\ ~(k <= minted.code)
      BY <1>b, <2>1 DEF TypeOK
    <2> HIDE DEF k, files
    <2>4. KeepsOwners(files.codes)
      BY <2>2, <2>3 DEF KeepsOwners
    <2> QED BY <1>1, <2>1, <2>3, <2>4
  <1>6. ASSUME NEW k \in Code, disk.codes[k] # Absent
        PROVE  KeepsOwners([disk EXCEPT !.codes[k].used = TRUE].codes)
    <2>1. disk.codes[k] \in CodeRecord
      BY <1>a, <1>6
    <2>2. [disk EXCEPT !.codes[k].used = TRUE].codes
            = [disk.codes EXCEPT ![k] = [disk.codes[k] EXCEPT !.used = TRUE]]
      BY <1>a DEF Files
    <2>3. [disk.codes[k] EXCEPT !.used = TRUE].client = disk.codes[k].client
      BY <2>1 DEF CodeRecord
    <2> QED BY <1>a, <1>6, <2>2, <2>3 DEF KeepsOwners
  <1>7. ASSUME NEW k \in Code, ConsumeCode(p, k) \/ ExchangeStale(p, k) \/ ExchangeRefused(p, k)
        PROVE  Planned(p)
    <2> DEFINE files == [disk EXCEPT !.codes[k].used = TRUE]
    <2>1. /\ Acquires(p) /\ UNCHANGED <<disk, minted>>
          /\ \/ Plan(p, disk, << >>, "invalid", None)
             \/ Redeemable(k) /\ \E kind, subject : Plan(p, files, <<"codes">>, kind, subject)
      <3>1. CASE ConsumeCode(p, k)
        BY <3>1 DEF ConsumeCode, Keep
      <3>2. CASE ExchangeStale(p, k)
        BY <3>2 DEF ExchangeStale, Keep
      <3>3. CASE ExchangeRefused(p, k)
        BY <3>3 DEF ExchangeRefused
      <3> QED BY <1>7, <3>1, <3>2, <3>3
    <2>2. minted.code <= minted'.code
      BY <1>b, <2>1
    <2>3. Redeemable(k) => KeepsOwners(files.codes)
      BY <1>6 DEF Redeemable
    <2> HIDE DEF files
    <2> QED BY <1>1, <1>2, <2>1, <2>2, <2>3
  \* Operations that edit only tokens.json.
  <1>8. ASSUME NEW files, NEW kind, NEW subject, NEW order \in {<< >>, <<"tokens">>},
               Acquires(p), UNCHANGED disk, Plan(p, files, order, kind, subject),
               minted'.code = minted.code, files.codes = disk.codes
        PROVE  Planned(p)
    BY <1>1, <1>2, <1>8, <1>b
  <1>9. ASSUME NEW k \in Code, ExchangeSpent(p, k) PROVE Planned(p)
    <2> DEFINE f == disk.codes[k].minted_family
               burn == IF f = None THEN {} ELSE FamilyTokens(f)
               files == [disk EXCEPT !.tokens = Revoking(@, burn)]
    <2>1. /\ Acquires(p) /\ UNCHANGED <<disk, minted>>
          /\ Plan(p, files, TokensIfChanged(burn), "replay", f)
      BY <1>9 DEF ExchangeSpent
    <2>2. files.codes = disk.codes
      BY <1>a DEF Files
    <2> HIDE DEF f, burn, files
    <2> QED BY <1>3, <1>8, <2>1, <2>2
  <1>10. ASSUME NEW k \in Code, ExchangeMints(p, k) PROVE Planned(p)
    <2> DEFINE n == minted.pair + 1
               rec == disk.codes[k]
               spent == [disk.codes[k] EXCEPT !.used = TRUE, !.minted_family = n]
               files == [disk EXCEPT !.codes[k] = spent, !.tokens = WithPair(@, n, n, disk.codes[k].client)]
    <2>1. /\ Acquires(p) /\ UNCHANGED disk /\ Plan(p, files, <<"codes", "tokens">>, "issued", n)
          /\ minted' = [minted EXCEPT !.pair = n] /\ disk.codes[k] # Absent
      BY <1>10 DEF ExchangeMints, ExchangeOrder, Redeemable
    <2>2. files.codes = [disk.codes EXCEPT ![k] = spent]
      BY <1>a DEF Files
    <2>3. spent.client = disk.codes[k].client
      <3>1. disk.codes[k] \in CodeRecord
        BY <1>a, <2>1
      <3> QED BY <3>1 DEF CodeRecord
    <2>4. minted.code <= minted'.code
      BY <1>b, <2>1 DEF TypeOK
    <2> HIDE DEF n, spent, files
    <2>5. KeepsOwners(files.codes)
      BY <1>a, <2>1, <2>2, <2>3 DEF KeepsOwners
    <2> QED BY <1>1, <2>1, <2>4, <2>5
  <1>11. ASSUME NEW n \in Pair, RotateReused(p, n) PROVE Planned(p)
    <2> DEFINE f == disk.tokens[<<"refresh", n>>].family
               files == [disk EXCEPT !.tokens = Revoking(@, FamilyTokens(f))]
    <2>1. Acquires(p) /\ UNCHANGED <<disk, minted>> /\ Plan(p, files, <<"tokens">>, "reuse", f)
      BY <1>11 DEF RotateReused
    <2>2. files.codes = disk.codes
      BY <1>a DEF Files
    <2> HIDE DEF f, files
    <2> QED BY <1>8, <2>1, <2>2
  <1>12. ASSUME NEW n \in Pair, NEW c \in Client \cup {None}, RotateInvalid(p, n, c)
         PROVE  Planned(p)
    BY <1>8, <1>12 DEF RotateInvalid, Keep
  <1>13. ASSUME NEW n \in Pair, NEW c \in Client \cup {None}, RotateMints(p, n, c)
         PROVE  Planned(p)
    <2> DEFINE rec == disk.tokens[<<"refresh", n>>]
               m == minted.pair + 1
               old == [disk.tokens EXCEPT ![<<"refresh", n>>] = RotatedTo(rec, m)]
               files == [disk EXCEPT !.tokens = WithPair(old, m, rec.family, rec.client)]
    <2>1. /\ Acquires(p) /\ UNCHANGED disk /\ Plan(p, files, <<"tokens">>, "rotated", m)
          /\ minted' = [minted EXCEPT !.pair = m]
      BY <1>13 DEF RotateMints
    <2>2. files.codes = disk.codes
      BY <1>a DEF Files
    <2>3. minted'.code = minted.code
      BY <2>1 DEF TypeOK
    <2> HIDE DEF rec, m, old, files
    <2> QED BY <1>8, <2>1, <2>2, <2>3
  <1>14. ASSUME NEW by, NEW x, RevokeTokens(p, by, x) PROVE Planned(p)
    <2> DEFINE ts == Selection(by, x)
               files == [disk EXCEPT !.tokens = Revoking(@, ts)]
    <2>1. Acquires(p) /\ UNCHANGED <<disk, minted>>
          /\ Plan(p, files, TokensIfChanged(ts), "revoked", None)
      BY <1>14 DEF RevokeTokens
    <2>2. files.codes = disk.codes
      BY <1>a DEF Files
    <2> HIDE DEF ts, files
    <2> QED BY <1>3, <1>8, <2>1, <2>2
  <1>15. ASSUME NEW c \in Client, RemoveClient(p, c) PROVE Planned(p)
    <2> DEFINE ts == ClientTokens(c)
               ks == {k \in Code : disk.codes[k] # Absent /\ disk.codes[k].client = c}
               files == [clients |-> disk.clients \ {c},
                  codes   |-> [k \in Code |-> IF k \in ks THEN Absent ELSE disk.codes[k]],
                  tokens  |-> Revoking(disk.tokens, ts)]
               order == RemovalOrder(\E t \in ts : Live(t), ks # {})
    <2>1. Acquires(p) /\ UNCHANGED <<disk, minted>> /\ Plan(p, files, order, "removed", c)
      BY <1>15 DEF RemoveClient
    <2>2. /\ files.clients = disk.clients \ {c}
          /\ files.codes = [k \in Code |-> IF k \in ks THEN Absent ELSE disk.codes[k]]
      OBVIOUS
    <2>3. \A k \in Code : k \in ks <=> disk.codes[k] # Absent /\ disk.codes[k].client = c
      OBVIOUS
    <2>4. "codes" \in Pending(order) \/ ks = {}
      <3>1. CASE \E t \in ts : Live(t)
        BY <3>1, PendingOrders DEF RemovalOrder
      <3>2. CASE ~\E t \in ts : Live(t)
        BY <3>2, PendingOrders DEF RemovalOrder
      <3> QED BY <3>1, <3>2
    <2> HIDE DEF ts, ks, files, order
    <2>5. \A k \in Code : LET rec == FilesAfter(files, disk, Pending(order)).codes[k]
                          IN  rec # Absent => rec.client # c
      <3>1. CASE "codes" \in Pending(order)
        <4>1. FilesAfter(files, disk, Pending(order)).codes = files.codes
          BY <3>1 DEF FilesAfter
        <4> QED BY <2>2, <2>3, <4>1
      <3>2. CASE "codes" \notin Pending(order)
        <4>1. FilesAfter(files, disk, Pending(order)).codes = disk.codes
          BY <3>2 DEF FilesAfter
        <4> QED BY <2>3, <2>4, <3>2, <4>1
      <3> QED BY <3>1, <3>2
    <2>6. DropsBare(files, order) /\ KeepsOwners(files.codes)
      BY <2>2, <2>5 DEF DropsBare, KeepsOwners
    <2> QED BY <1>0, <1>b, <2>1, <2>6
  <1>16. CASE PurgeExpired(p)
    <2> DEFINE ks == {k \in Code : disk.codes[k] # Absent /\ ~KeptCode(disk.codes[k])}
               ts == {t \in Token : OnDisk(t) /\ disk.tokens[t].expires <= now}
               files == [disk EXCEPT
                    !.codes  = [k \in Code |-> IF k \in ks THEN Absent ELSE @[k]],
                    !.tokens = [t \in Token |-> IF t \in ts THEN Absent ELSE @[t]]]
               order == PurgeOrder(ks # {}, ts # {})
    <2>1. Acquires(p) /\ UNCHANGED <<disk, minted>> /\ Plan(p, files, order, "purged", None)
      BY <1>16 DEF PurgeExpired
    <2>2. files.codes = [k \in Code |-> IF k \in ks THEN Absent ELSE disk.codes[k]]
      BY <1>a DEF Files
    <2>3. order \in {<< >>, <<"codes">>, <<"tokens">>, <<"codes", "tokens">>}
      BY DEF PurgeOrder
    <2> HIDE DEF ks, ts, files, order
    <2>4. KeepsOwners(files.codes)
      BY <2>2 DEF KeepsOwners
    <2> QED BY <1>1, <1>b, <2>1, <2>3, <2>4
  <1> QED
    BY <1>4, <1>5, <1>7, <1>9, <1>10, <1>11, <1>12, <1>13, <1>14, <1>15, <1>16
    DEF Operation, ExchangeCode, RotateRefreshForClient

\* A request under way has a client, and a code once it is minted.
StageInv ==
  \A h \in Handler :
    /\ ~At(h, "idle") => stage[h].client \in Client
    /\ stage[h].at \in {"issuing", "issued", "removed", "burning"} => stage[h].code \in Code

\* A step of the handlers is a step of the store, or none.
LEMMA AuthorizeStepsStore ==
  ASSUME AuthorizeTypeOK, StageInv, [AuthorizeNext]_allVars
  PROVE  [Next]_vars
  <1>1. CASE Others
    BY <1>1 DEF Others, Next
  <1>2. ASSUME NEW h \in Handler, Handle(h) PROVE [Next]_vars
    <2>1. h \in Proc
      BY HandlerAssumption
    <2>2. CASE Issue(h)
      <3>1. IssueCode(h, stage[h].client)
        BY <2>2 DEF Issue
      <3>2. stage[h].client \in Client
        BY <2>2 DEF Issue, StageInv, At
      <3>3. \E c \in Client : IssueCode(h, c)
        BY <3>1, <3>2
      <3> QED BY <2>1, <3>3 DEF Next, Operation
    <2>3. CASE Burn(h)
      <3>1. ConsumeCode(h, stage[h].code)
        BY <2>3 DEF Burn
      <3>2. stage[h].code \in Code
        BY <2>3 DEF Burn, StageInv, At
      <3>3. \E k \in Code : ConsumeCode(h, k)
        BY <3>1, <3>2
      <3> QED BY <2>1, <3>3 DEF Next, Operation
    <2> QED BY <1>2, <2>1, <2>2, <2>3 DEF Handle, Validate, Refuse, Answered, Failed,
         HandOut, Withhold, LeaveUnburnt, Next
  <1>3. CASE UNCHANGED allVars
    BY <1>3 DEF allVars, vars
  <1> QED BY <1>1, <1>2, <1>3 DEF AuthorizeNext

StageRecord == [at: Stages, client: Client \cup {None}, code: Code \cup {None}]

\* Where one request goes, the others stay.
LEMMA GotoEffect ==
  ASSUME stage \in [Handler -> StageRecord], NEW h \in Handler, NEW s \in StageRecord, Goto(h, s)
  PROVE  /\ stage' \in [Handler -> StageRecord] /\ stage'[h] = s
         /\ \A g \in Handler \ {h} : stage'[g] = stage[g]
  BY DEF Goto

LEMMA AuthorizeTypeStep ==
  ASSUME AuthorizeTypeOK, StageInv, [AuthorizeNext]_allVars,
         \A p \in Proc : todo[p] # << >> => lock = p
  PROVE  AuthorizeTypeOK' /\ StageInv'
  <1>a. TypeOK' /\ TypeOK
    BY AuthorizeStepsStore, TypeStep DEF AuthorizeTypeOK
  <1>b. stage \in [Handler -> StageRecord] /\ handed \subseteq Code
        /\ \A h \in Handler : stage[h].at \in {"issuing", "burning"} <=> lock = h
    BY DEF AuthorizeTypeOK, StageRecord
  <1>c. NoProc \notin Handler /\ Handler \subseteq Proc
    BY HandlerAssumption, NoProcAssumption
  <1>d. Idle \in StageRecord
    BY DEF Idle, StageRecord, Stages
  <1>e. \A h \in Handler : stage[h] \in StageRecord
    BY <1>b
  \* A handler that moves to s.
  <1>1. ASSUME NEW h \in Handler, NEW s \in StageRecord, Goto(h, s), handed' \subseteq Code,
               s.at # "idle" => s.client \in Client,
               s.at \in {"issuing", "issued", "removed", "burning"} => s.code \in Code,
               s.at \in {"issuing", "burning"} <=> lock' = h,
               \A g \in Handler \ {h} : lock' = g <=> lock = g
        PROVE  AuthorizeTypeOK' /\ StageInv'
    <2>1. /\ stage' \in [Handler -> StageRecord] /\ stage'[h] = s
          /\ \A g \in Handler \ {h} : stage'[g] = stage[g]
      BY <1>1, <1>b, GotoEffect
    <2>2. \A g \in Handler : stage'[g].at \in {"issuing", "burning"} <=> lock' = g
      BY <1>1, <1>b, <2>1
    <2>3. StageInv'
      BY <1>1, <2>1 DEF StageInv, At
    <2> QED BY <1>a, <1>1, <2>1, <2>2, <2>3 DEF AuthorizeTypeOK, StageRecord
  \* A step that no handler takes.
  <1>2. ASSUME UNCHANGED authVars, \A g \in Handler : lock' = g <=> lock = g
        PROVE  AuthorizeTypeOK' /\ StageInv'
    BY <1>a, <1>b, <1>2 DEF AuthorizeTypeOK, StageInv, At, authVars, StageRecord
  <1>3. CASE Others
    <2>1. UNCHANGED authVars
      BY <1>3 DEF Others
    <2>2. CASE Tick
      BY <1>2, <2>1, <2>2 DEF Tick
    <2>3. ASSUME NEW p \in Proc \ Handler, Operation(p) \/ Save(p) \/ Return(p) \/ Abort(p)
          PROVE  \A g \in Handler : lock' = g <=> lock = g
      <3>1. CASE Operation(p)
        <4>1. Acquires(p)
          BY <1>a, <3>1, OperationPlans DEF Planned
        <4> QED BY <1>c, <4>1 DEF Acquires
      <3>2. CASE Save(p)
        BY <3>2 DEF Save
      <3>3. CASE Return(p) \/ Abort(p)
        BY <1>c, <3>3 DEF Return, Abort, Released
      <3> QED BY <2>3, <3>1, <3>2, <3>3
    <2> QED BY <1>2, <1>3, <2>1, <2>2, <2>3 DEF Others
  <1>4. ASSUME NEW h \in Handler, Handle(h) PROVE AuthorizeTypeOK' /\ StageInv'
    <2>a. h \in Proc /\ stage[h] \in StageRecord /\ stage[h].at \in Stages
          /\ stage[h].client \in Client \cup {None} /\ stage[h].code \in Code \cup {None}
      BY <1>c, <1>e DEF StageRecord
    <2>1. ASSUME NEW c \in Client, Validate(h, c) PROVE AuthorizeTypeOK' /\ StageInv'
      <3> DEFINE s == [at |-> "validated", client |-> c, code |-> None]
      <3>1. s \in StageRecord /\ s.at = "validated" /\ s.client = c
        BY DEF StageRecord, Stages
      <3>2. Goto(h, s) /\ handed' = handed /\ lock' = lock /\ stage[h].at = "idle"
        BY <2>1 DEF Validate, vars, At
      <3> HIDE DEF s
      <3> QED BY <1>1, <1>b, <3>1, <3>2
    <2>2. CASE Refuse(h) \/ LeaveUnburnt(h)
      <3>1. Goto(h, Idle) /\ handed' = handed /\ lock' = lock
            /\ stage[h].at \in {"validated", "removed"} /\ Idle.at = "idle"
        BY <2>2 DEF Refuse, LeaveUnburnt, vars, At, Idle
      <3> QED BY <1>1, <1>b, <1>d, <3>1
    <2>3. CASE HandOut(h)
      <3>1. /\ Goto(h, Idle) /\ handed' = handed \cup {stage[h].code} /\ lock' = lock
            /\ stage[h].at = "issued" /\ Idle.at = "idle"
        BY <2>3 DEF HandOut, vars, At, Idle
      <3>2. stage[h].code \in Code
        BY <3>1 DEF StageInv
      <3> QED BY <1>1, <1>b, <1>d, <3>1, <3>2
    <2>4. CASE Withhold(h)
      <3> DEFINE s == [stage[h] EXCEPT !.at = "removed"]
      <3>1. Goto(h, s) /\ handed' = handed /\ lock' = lock /\ stage[h].at = "issued"
        BY <2>4 DEF Withhold, vars, At
      <3>2. s \in StageRecord /\ s.at = "removed" /\ s.client = stage[h].client /\ s.code = stage[h].code
        BY <2>a DEF StageRecord, Stages
      <3>3. stage[h].client \in Client /\ stage[h].code \in Code
        BY <3>1 DEF StageInv, At
      <3> HIDE DEF s
      <3> QED BY <1>1, <1>b, <3>1, <3>2, <3>3
    <2>5. CASE Issue(h)
      <3> DEFINE k == minted.code + 1
                 s == [stage[h] EXCEPT !.at = "issuing", !.code = k]
      <3>1. Goto(h, s) /\ handed' = handed /\ Acquires(h) /\ stage[h].at = "validated" /\ k <= MaxCode
        BY <2>5 DEF Issue, IssueCode, At
      <3>2. k \in Code
        BY <1>a, <3>1, BoundsAssumption DEF TypeOK, Code
      <3> HIDE DEF k
      <3>3. s \in StageRecord /\ s.at = "issuing" /\ s.client = stage[h].client /\ s.code = k
        BY <2>a, <3>2 DEF StageRecord, Stages
      <3>4. stage[h].client \in Client
        BY <3>1 DEF StageInv, At
      <3>5. lock' = h /\ \A g \in Handler \ {h} : lock' = g <=> lock = g
        BY <1>c, <3>1 DEF Acquires
      <3> HIDE DEF s
      <3> QED BY <1>1, <1>b, <3>1, <3>2, <3>3, <3>4, <3>5
    <2>6. CASE Burn(h)
      <3> DEFINE s == [stage[h] EXCEPT !.at = "burning"]
      <3>1. Goto(h, s) /\ handed' = handed /\ Acquires(h) /\ stage[h].at = "removed"
        BY <2>6 DEF Burn, ConsumeCode, At
      <3>2. s \in StageRecord /\ s.at = "burning" /\ s.client = stage[h].client /\ s.code = stage[h].code
        BY <2>a DEF StageRecord, Stages
      <3>3. stage[h].client \in Client /\ stage[h].code \in Code
        BY <3>1 DEF StageInv, At
      <3>4. lock' = h /\ \A g \in Handler \ {h} : lock' = g <=> lock = g
        BY <1>c, <3>1 DEF Acquires
      <3> HIDE DEF s
      <3> QED BY <1>1, <1>b, <3>1, <3>2, <3>3, <3>4
    <2>7. CASE Answered(h)
      <3> DEFINE s == AfterOk(h)
      <3>1. Goto(h, s) /\ handed' = handed /\ lock = h /\ lock' = NoProc
        BY <2>7 DEF Answered, Return, Released
      <3>2. stage[h].client \in Client /\ stage[h].code \in Code
        BY <1>b, <3>1 DEF StageInv, At
      <3>3. /\ s \in StageRecord /\ s.at \in {"issued", "idle"}
            /\ s.at = "issued" => s.client = stage[h].client /\ s.code = stage[h].code
        <4>1. CASE At(h, "issuing")
          <5>1. s = [stage[h] EXCEPT !.at = "issued"]
            BY <4>1 DEF AfterOk
          <5> QED BY <2>a, <5>1 DEF StageRecord, Stages
        <4>2. CASE ~At(h, "issuing")
          <5>1. s = Idle
            BY <4>2 DEF AfterOk
          <5> QED BY <1>d, <5>1 DEF Idle
        <4> QED BY <4>1, <4>2
      <3>4. lock' # h /\ \A g \in Handler \ {h} : lock' = g <=> lock = g
        BY <1>c, <3>1
      <3> HIDE DEF s
      <3>5. /\ s.at # "idle" => s.client \in Client
            /\ s.at \in {"issuing", "issued", "removed", "burning"} => s.code \in Code
        BY <3>2, <3>3
      <3>6. s.at \notin {"issuing", "burning"}
        BY <3>3
      <3> QED BY <1>1, <1>b, <3>1, <3>3, <3>4, <3>5, <3>6
    <2>8. CASE Failed(h)
      <3>1. Goto(h, Idle) /\ handed' = handed /\ lock = h /\ lock' = NoProc /\ Idle.at = "idle"
        BY <2>8 DEF Failed, Abort, Released, Idle
      <3>2. lock' # h /\ \A g \in Handler \ {h} : lock' = g <=> lock = g
        BY <1>c, <3>1
      <3> QED BY <1>1, <1>b, <1>d, <3>1, <3>2
    <2>9. CASE Save(h) /\ UNCHANGED authVars
      BY <1>2, <2>9 DEF Save
    <2> QED BY <1>4, <2>1, <2>2, <2>3, <2>4, <2>5, <2>6, <2>7, <2>8, <2>9 DEF Handle
  <1>5. CASE UNCHANGED allVars
    BY <1>2, <1>5 DEF allVars, vars, authVars
  <1> QED BY <1>3, <1>4, <1>5 DEF AuthorizeNext

\* A locked step: the operation of a handler or of anyone else.
LEMMA OwnersPlan ==
  ASSUME TypeOK, TypeOK', OwnersInv, NEW p \in Proc, Planned(p),
         \A h \in Handler : stage[h].at \in {"issuing", "burning"} => lock = h,
         handed' = handed,
         \A h \in Handler : At(h, "issued")' => At(h, "issued") /\ stage'[h] = stage[h],
         \A h \in Handler : At(h, "issuing")' => IssuingOwn(h)' \/ (At(h, "issuing") /\ stage'[h] = stage[h])
  PROVE  OwnersInv'
  <1>1. /\ \A q \in Proc : todo[q] = << >>
        /\ \A h \in Handler : ~At(h, "issuing")
    BY NoProcAssumption, HandlerAssumption DEF Planned, Acquires, OwnersInv, At
  <1>2. disk' = disk /\ lock' = p /\ \A q \in Proc \ {p} : todo'[q] = << >>
    BY <1>1 DEF Planned, Acquires
  <1>3. minted.code \in Nat /\ minted'.code \in Nat /\ minted.code <= minted'.code
    BY BoundsAssumption DEF TypeOK, Planned
  <1>4. Promised' \subseteq Promised
    BY DEF Promised
  <1>5. \A k \in Promised' : k \in Code /\ k <= minted'.code
    <2>1. \A k \in Code : k \in Nat
      BY DEF Code
    <2> QED BY <1>3, <1>4, <2>1 DEF OwnersInv
  <1>6. NoCodeOutlivesItsClient'
    BY <1>2 DEF OwnersInv, NoCodeOutlivesItsClient
  <1>7. \A h \in Handler : At(h, "issued")' => IssuedOwn(h)'
    BY <1>2 DEF OwnersInv, IssuedOwn
  <1>8. \A h \in Handler : At(h, "issuing")' => IssuingOwn(h)'
    BY <1>1
  <1>9. SavesOwners(p)'
    <2>1. \A k \in Promised' : copy'[p].codes[k] # Absent =>
            disk'.codes[k] # Absent /\ copy'[p].codes[k].client = disk'.codes[k].client
      BY <1>2, <1>4 DEF Planned, KeepsOwners, OwnersInv
    <2>2. Pending(todo[p])' = Pending(todo'[p])
      BY DEF Pending
    <2>3. DropsBare(copy[p], todo[p])'
      BY <1>2, <2>2 DEF Planned, DropsBare
    <2> QED BY <2>1, <2>3 DEF SavesOwners
  <1> QED BY <1>2, <1>5, <1>6, <1>7, <1>8, <1>9 DEF OwnersInv

LEMMA OwnersSave ==
  ASSUME TypeOK, OwnersInv, NEW p \in Proc, Save(p), UNCHANGED authVars,
         \A h \in Handler : At(h, "issuing") => lock = h
  PROVE  OwnersInv'
  <1> DEFINE s == todo[p]
             h == Head(s)
             later == Pending(Tail(s))
  <1>1. s \in Todos /\ s # << >> /\ lock = p
    BY DEF TypeOK, Save, OwnersInv
  <1>2. lock' = lock /\ copy' = copy /\ minted' = minted /\ stage' = stage /\ handed' = handed
    BY DEF Save, authVars
  <1>3. todo'[p] = Tail(s) /\ \A q \in Proc \ {p} : todo'[q] = << >>
    BY <1>1, SaveEffect DEF OwnersInv
  <1>4. /\ Pending(s) = {h} \cup later /\ h \notin later
        /\ h = "clients" => Tail(s) = << >>
    BY <1>1, PendingSteps
  <1>5. /\ disk'.clients = IF h = "clients" THEN copy[p].clients ELSE disk.clients
        /\ disk'.codes = IF h = "codes" THEN copy[p].codes ELSE disk.codes
        /\ disk'.tokens = IF h = "tokens" THEN copy[p].tokens ELSE disk.tokens
    BY SaveEffect
  <1>6. Pending(todo[p])' = later
    BY <1>3 DEF Pending
  <1>7. Promised' = Promised
    BY <1>2 DEF Promised, At
  <1>8. SavesOwners(p)
    BY <1>1 DEF OwnersInv
  <1>9. FilesAfter(copy[p], disk', later) = FilesAfter(copy[p], disk, Pending(s))
    <2> HIDE DEF s, h, later
    <2> QED BY <1>4, <1>5 DEF FilesAfter
  <1>10. \A k \in Promised : k \in Code /\ k <= minted.code
    BY DEF OwnersInv
  <1>11. \A k \in Promised : disk'.codes[k] # Absent =>
           disk.codes[k] # Absent /\ disk'.codes[k].client = disk.codes[k].client
    <2>1. CASE h = "codes"
      BY <1>4, <1>5, <1>8, <2>1 DEF SavesOwners
    <2>2. CASE h # "codes"
      BY <1>5, <2>2
    <2> QED BY <2>1, <2>2
  <1>12. NoCodeOutlivesItsClient'
    <2>1. ASSUME NEW k \in handed, disk'.codes[k] # Absent
          PROVE  disk'.codes[k].client \in disk'.clients
      <3>1. k \in Promised /\ k \in Code
        BY <1>10 DEF Promised
      <3>2. disk'.codes[k].client \in disk.clients
        BY <1>11, <2>1, <3>1 DEF OwnersInv, NoCodeOutlivesItsClient
      <3>3. CASE h = "clients"
        <4>1. /\ Tail(s) = << >> /\ "clients" \in Pending(s) /\ "codes" \notin Pending(s)
              /\ disk'.codes = disk.codes /\ disk'.clients = copy[p].clients
          BY <1>4, <1>5, <3>3, PendingOrders
        <4>2. FilesAfter(copy[p], disk, Pending(s)).codes = disk.codes
          BY <4>1 DEF FilesAfter
        <4> HIDE DEF s
        <4>3. \A j \in Code : disk.codes[j] # Absent /\ disk.codes[j].client \in disk.clients
                                => disk.codes[j].client \in copy[p].clients
          BY <1>8, <4>1, <4>2 DEF SavesOwners, DropsBare, s
        <4> QED BY <2>1, <3>1, <3>2, <4>1, <4>3
      <3>4. CASE h # "clients"
        BY <1>5, <3>2, <3>4
      <3> QED BY <3>3, <3>4
    <2> QED BY <1>2, <2>1 DEF NoCodeOutlivesItsClient
  <1>13. \A g \in Handler : At(g, "issued")' => IssuedOwn(g)'
    <2>1. ASSUME NEW g \in Handler, At(g, "issued")' PROVE IssuedOwn(g)'
      <3>1. At(g, "issued") /\ stage'[g] = stage[g] /\ stage[g].code \in Promised
        BY <1>2, <2>1 DEF At, Promised
      <3>2. IssuedOwn(g)
        BY <3>1 DEF OwnersInv
      <3> QED BY <1>11, <3>1, <3>2 DEF IssuedOwn
    <2> QED BY <2>1
  <1>14. \A g \in Handler : At(g, "issuing")' => IssuingOwn(g)'
    <2>1. ASSUME NEW g \in Handler, At(g, "issuing")' PROVE IssuingOwn(g)'
      <3>1. At(g, "issuing") /\ g = p
        BY <1>1, <1>2, <2>1 DEF At
      <3>2. IssuingOwn(p)
        BY <3>1 DEF OwnersInv
      <3>3. FilesAfter(copy'[p], disk', Pending(todo[p])') = FilesAfter(copy[p], disk, Pending(todo[p]))
        BY <1>2, <1>6, <1>9
      <3> QED BY <1>2, <3>1, <3>2, <3>3 DEF IssuingOwn
    <2> QED BY <2>1
  <1>15. todo'[p] # << >> => SavesOwners(p)'
    <2>1. ASSUME todo'[p] # << >> PROVE disk'.clients = disk.clients
      BY <1>3, <1>4, <1>5, <2>1
    <2>2. ASSUME "codes" \in later, NEW k \in Promised, copy[p].codes[k] # Absent
          PROVE  disk'.codes[k] # Absent /\ copy[p].codes[k].client = disk'.codes[k].client
      <3>1. disk'.codes = disk.codes /\ "codes" \in Pending(s)
        BY <1>4, <1>5, <2>2
      <3> QED BY <1>8, <2>2, <3>1 DEF SavesOwners
    <2>3. DropsBare(copy[p], s)
      BY <1>8 DEF SavesOwners
    <2> HIDE DEF later, h
    <2>4. ASSUME "clients" \in later, todo'[p] # << >>, NEW k \in Code
          PROVE  LET rec == FilesAfter(copy[p], disk', later).codes[k]
                 IN  rec # Absent /\ rec.client \in disk'.clients => rec.client \in copy[p].clients
      <3>1. "clients" \in Pending(s)
        BY <1>4, <2>4
      <3> HIDE DEF s
      <3> QED BY <1>9, <2>1, <2>3, <2>4, <3>1 DEF DropsBare
    <2>5. ASSUME todo'[p] # << >> PROVE DropsBare(copy[p], todo[p])'
      BY <1>2, <1>6, <2>4, <2>5 DEF DropsBare
    <2> QED BY <1>2, <1>6, <1>7, <2>2, <2>5 DEF SavesOwners
  <1> QED BY <1>1, <1>2, <1>3, <1>7, <1>10, <1>12, <1>13, <1>14, <1>15 DEF OwnersInv

\* The guard is dropped: nothing is pending any more.
LEMMA OwnersReleased ==
  ASSUME OwnersInv, NEW p \in Proc, Return(p) \/ Abort(p), TypeOK,
         handed' = handed,
         \A h \in Handler : At(h, "issuing") => lock = h,
         \A h \in Handler : At(h, "issuing")' => At(h, "issuing") /\ h # p,
         \A h \in Handler : At(h, "issued")' =>
           stage'[h].code = stage[h].code /\ stage'[h].client = stage[h].client
           /\ (At(h, "issued") \/ (At(h, "issuing") /\ h = p /\ todo[p] = << >>))
  PROVE  OwnersInv'
  <1>1. lock = p /\ disk' = disk /\ minted' = minted /\ \A q \in Proc : todo'[q] = << >>
    BY DEF Return, Abort, Released, OwnersInv, TypeOK
  <1>2. ASSUME NEW h \in Handler, At(h, "issued")'
        PROVE  IssuedOwn(h) /\ stage[h].code \in Code /\ stage[h].code <= minted.code
    <2>1. CASE At(h, "issued")
      BY <2>1 DEF OwnersInv, Promised
    <2>2. CASE At(h, "issuing") /\ h = p /\ todo[p] = << >>
      <3>1. IssuingOwn(h)
        BY <2>2 DEF OwnersInv
      <3>2. FilesAfter(copy[h], disk, Pending(todo[h])).codes = disk.codes
        BY <2>2, PendingOrders DEF FilesAfter
      <3> QED BY <3>1, <3>2 DEF IssuingOwn, IssuedOwn
    <2> QED BY <1>2, <2>1, <2>2
  <1>3. \A h \in Handler : At(h, "issued")' => IssuedOwn(h)'
    BY <1>1, <1>2 DEF IssuedOwn
  <1>4. \A h \in Handler : ~At(h, "issuing")'
    BY <1>1
  <1>5. \A k \in Promised' : k \in Code /\ k <= minted'.code
    <2>1. ASSUME NEW k \in Promised' PROVE k \in Code /\ k <= minted'.code
      <3>1. CASE k \in handed
        BY <1>1, <3>1 DEF Promised, OwnersInv
      <3>2. CASE k \notin handed
        <4>1. PICK h \in Handler : At(h, "issued")' /\ k = stage'[h].code
          BY <2>1, <3>2 DEF Promised
        <4> QED BY <1>1, <1>2, <4>1
      <3> QED BY <3>1, <3>2
    <2> QED BY <2>1
  <1>6. NoCodeOutlivesItsClient'
    BY <1>1 DEF OwnersInv, NoCodeOutlivesItsClient
  <1> QED BY <1>1, <1>3, <1>4, <1>5, <1>6 DEF OwnersInv

\* Steps that do not touch the store.
LEMMA OwnersIdle ==
  ASSUME OwnersInv, UNCHANGED <<disk, lock, copy, todo, minted>>, Promised' \subseteq Promised,
         \A k \in handed' \ handed :
           disk.codes[k] # Absent => disk.codes[k].client \in disk.clients,
         \A h \in Handler : At(h, "issuing")' => At(h, "issuing") /\ stage'[h] = stage[h],
         \A h \in Handler : At(h, "issued")' => At(h, "issued") /\ stage'[h] = stage[h]
  PROVE  OwnersInv'
  <1>1. NoCodeOutlivesItsClient'
    BY DEF OwnersInv, NoCodeOutlivesItsClient
  <1>2. \A h \in Handler : At(h, "issued")' => IssuedOwn(h)'
    BY DEF OwnersInv, IssuedOwn
  <1>3. \A q \in Proc : Pending(todo[q])' = Pending(todo[q])
    BY DEF Pending
  <1>4. \A h \in Handler : At(h, "issuing")' => IssuingOwn(h)'
    BY <1>3, HandlerAssumption DEF OwnersInv, IssuingOwn
  <1>5. ASSUME NEW p \in Proc, todo'[p] # << >> PROVE SavesOwners(p)'
    <2>1. SavesOwners(p)
      BY <1>5 DEF OwnersInv
    <2> QED BY <1>3, <2>1 DEF SavesOwners, DropsBare
  <1>6. \A k \in Promised' : k \in Code /\ k <= minted'.code
    BY DEF OwnersInv
  <1> QED BY <1>1, <1>2, <1>4, <1>5, <1>6 DEF OwnersInv

LEMMA OwnersStep ==
  ASSUME AuthorizeTypeOK, AuthorizeTypeOK', StageInv, OwnersInv, [AuthorizeNext]_allVars
  PROVE  OwnersInv'
  <1>a. TypeOK /\ TypeOK' /\ stage \in [Handler -> StageRecord]
    BY DEF AuthorizeTypeOK, StageRecord
  <1>b. \A h \in Handler : stage[h].at \in {"issuing", "burning"} => lock = h
    BY DEF AuthorizeTypeOK
  <1>c. \A h \in Handler : At(h, "issuing") => lock = h
    BY <1>b DEF At
  <1>d. \A h \in Handler : stage[h] \in StageRecord
    BY <1>a
  <1>e. Idle \in StageRecord /\ Idle.at = "idle"
    BY DEF Idle, StageRecord, Stages
  <1>f. minted.code \in Nat
    BY <1>a, BoundsAssumption DEF TypeOK
  \* A step of the handler h to a stage that promises no code.
  <1>1. ASSUME NEW h \in Handler, NEW s \in StageRecord, Goto(h, s), s.at \notin {"issued", "issuing"}
        PROVE  /\ \A g \in Handler : At(g, "issued")' => At(g, "issued") /\ stage'[g] = stage[g]
               /\ \A g \in Handler : At(g, "issuing")' =>
                    At(g, "issuing") /\ stage'[g] = stage[g] /\ g # h
               /\ handed' = handed => Promised' \subseteq Promised
    <2>1. /\ stage'[h] = s
          /\ \A g \in Handler \ {h} : stage'[g] = stage[g]
      BY <1>a, <1>1, GotoEffect
    <2>2. /\ \A g \in Handler : At(g, "issued")' => At(g, "issued") /\ stage'[g] = stage[g]
          /\ \A g \in Handler : At(g, "issuing")' =>
               At(g, "issuing") /\ stage'[g] = stage[g] /\ g # h
      BY <1>1, <2>1 DEF At
    <2> QED BY <2>2 DEF Promised
  <1>2. CASE Others
    <2>1. UNCHANGED authVars /\ handed' = handed /\ stage' = stage
      BY <1>2 DEF Others, authVars
    <2>2. \A h \in Handler : At(h, "issued")' <=> At(h, "issued")
      BY <2>1 DEF At
    <2>3. \A h \in Handler : At(h, "issuing")' <=> At(h, "issuing")
      BY <2>1 DEF At
    <2>4. CASE Tick
      <3>1. Promised' = Promised
        BY <2>1, <2>2 DEF Promised
      <3> QED BY <2>1, <2>2, <2>3, <2>4, <3>1, OwnersIdle DEF Tick
    <2>5. ASSUME NEW p \in Proc \ Handler, Operation(p) \/ Save(p) \/ Return(p) \/ Abort(p)
          PROVE  OwnersInv'
      <3>1. CASE Operation(p)
        BY <1>a, <1>b, <2>1, <2>2, <2>3, <3>1, OperationPlans, OwnersPlan
      <3>2. CASE Save(p)
        BY <1>a, <1>c, <2>1, <3>2, OwnersSave
      <3>3. CASE Return(p) \/ Abort(p)
        BY <1>a, <1>c, <2>1, <2>2, <2>3, <3>3, OwnersReleased
      <3> QED BY <2>5, <3>1, <3>2, <3>3
    <2> QED BY <1>2, <2>4, <2>5 DEF Others
  <1>3. ASSUME NEW h \in Handler, Handle(h) PROVE OwnersInv'
    <2>a. h \in Proc /\ stage[h] \in StageRecord
      BY <1>d, HandlerAssumption
    <2>1. ASSUME NEW s \in StageRecord, Goto(h, s), s.at \notin {"issued", "issuing"},
                 UNCHANGED <<vars, handed>>
          PROVE  OwnersInv'
      <3>1. UNCHANGED <<disk, lock, copy, todo, minted>> /\ handed' = handed
        BY <2>1 DEF vars
      <3> QED BY <1>1, <2>1, <3>1, OwnersIdle
    <2>2. ASSUME NEW c \in Client, Validate(h, c) PROVE OwnersInv'
      <3> DEFINE s == [at |-> "validated", client |-> c, code |-> None]
      <3>1. s \in StageRecord /\ s.at = "validated"
        BY DEF StageRecord, Stages
      <3>2. Goto(h, s) /\ UNCHANGED <<vars, handed>>
        BY <2>2 DEF Validate
      <3> HIDE DEF s
      <3> QED BY <2>1, <3>1, <3>2
    <2>3. CASE Refuse(h) \/ LeaveUnburnt(h)
      BY <1>e, <2>1, <2>3 DEF Refuse, LeaveUnburnt
    <2>4. CASE Withhold(h)
      <3> DEFINE s == [stage[h] EXCEPT !.at = "removed"]
      <3>1. s \in StageRecord /\ s.at = "removed"
        BY <2>a DEF StageRecord, Stages
      <3>2. Goto(h, s) /\ UNCHANGED <<vars, handed>>
        BY <2>4 DEF Withhold
      <3> HIDE DEF s
      <3> QED BY <2>1, <3>1, <3>2
    <2>5. CASE HandOut(h)
      <3>1. /\ UNCHANGED <<disk, lock, copy, todo, minted>> /\ Goto(h, Idle) /\ At(h, "issued")
            /\ handed' = handed \cup {stage[h].code} /\ stage[h].client \in disk.clients
        BY <2>5 DEF HandOut, StillRegistered, vars
      <3>2. /\ \A g \in Handler : At(g, "issued")' => At(g, "issued") /\ stage'[g] = stage[g]
            /\ \A g \in Handler : At(g, "issuing")' => At(g, "issuing") /\ stage'[g] = stage[g]
        BY <1>1, <1>e, <3>1
      <3>3. Promised' \subseteq Promised
        BY <3>1, <3>2 DEF Promised
      <3>4. IssuedOwn(h)
        BY <3>1 DEF OwnersInv
      <3>5. \A k \in handed' \ handed :
              disk.codes[k] # Absent => disk.codes[k].client \in disk.clients
        BY <3>1, <3>4 DEF IssuedOwn
      <3> QED BY <3>1, <3>2, <3>3, <3>5, OwnersIdle
    <2>6. CASE Issue(h)
      <3> DEFINE k == minted.code + 1
                 c == stage[h].client
                 s == [stage[h] EXCEPT !.at = "issuing", !.code = k]
                 rec == [client |-> c, expires |-> now + CodeTTL,
                         used |-> FALSE, minted_family |-> None]
                 files == [disk EXCEPT !.codes[k] = rec]
      <3>1. /\ Goto(h, s) /\ handed' = handed /\ k <= MaxCode /\ IssueCode(h, c)
            /\ minted' = [minted EXCEPT !.code = k] /\ Plan(h, files, <<"codes">>, "coded", k)
            /\ disk' = disk /\ At(h, "validated")
        BY <2>6 DEF Issue, IssueCode
      <3>2. k \in Code /\ minted'.code = k
        BY <1>a, <1>f, <3>1, BoundsAssumption DEF TypeOK, Code
      <3>3. c \in Client
        BY <3>1 DEF StageInv, At
      <3>4. Planned(h)
        <4>1. Operation(h)
          BY <3>1, <3>3 DEF Operation
        <4> QED BY <1>a, <2>a, <4>1, OperationPlans
      <3>5. s \in StageRecord /\ s.at = "issuing" /\ s.code = k /\ s.client = c
        <4> HIDE DEF k
        <4> QED BY <2>a, <3>2 DEF StageRecord, Stages
      <3>6. stage'[h] = s /\ \A g \in Handler \ {h} : stage'[g] = stage[g]
        <4> HIDE DEF s
        <4> QED BY <1>a, <3>1, <3>5, GotoEffect
      <3>7. copy'[h].codes[k] = rec /\ Pending(todo'[h]) = {"codes"}
        <4>1. files.codes[k] = rec
          BY <1>a, <3>2 DEF TypeOK, Files
        <4>2. copy'[h] = files /\ todo'[h] = <<"codes">>
          <5> HIDE DEF files, k
          <5> QED BY <1>a, <2>a, <3>1 DEF Plan, TypeOK
        <4> HIDE DEF files, rec
        <4> QED BY <4>1, <4>2, PendingOrders
      <3>8. rec.client = c
        OBVIOUS
      <3> HIDE DEF k, c, s, rec, files
      <3>9. FilesAfter(copy'[h], disk', Pending(todo'[h])).codes[k] = rec
        BY <3>7 DEF FilesAfter
      <3>10. IssuingOwn(h)'
        <4>1. Pending(todo[h])' = Pending(todo'[h])
          BY DEF Pending
        <4>2. k <= minted'.code
          BY <3>2 DEF Code
        <4> QED BY <3>2, <3>5, <3>6, <3>8, <3>9, <4>1, <4>2 DEF IssuingOwn
      <3>11. /\ \A g \in Handler : At(g, "issued")' => At(g, "issued") /\ stage'[g] = stage[g]
             /\ \A g \in Handler : At(g, "issuing")' =>
                  IssuingOwn(g)' \/ (At(g, "issuing") /\ stage'[g] = stage[g])
        BY <3>5, <3>6, <3>10 DEF At
      <3> QED BY <1>a, <1>b, <2>a, <3>1, <3>4, <3>11, OwnersPlan
    <2>7. CASE Burn(h)
      <3> DEFINE s == [stage[h] EXCEPT !.at = "burning"]
      <3>1. Goto(h, s) /\ handed' = handed /\ ConsumeCode(h, stage[h].code) /\ stage[h].at = "removed"
        BY <2>7 DEF Burn, At
      <3>2. s \in StageRecord /\ s.at = "burning"
        BY <2>a DEF StageRecord, Stages
      <3>3. Planned(h)
        <4>1. stage[h].code \in Code
          BY <3>1 DEF StageInv
        <4>2. Operation(h)
          BY <3>1, <4>1 DEF Operation
        <4> QED BY <1>a, <2>a, <4>2, OperationPlans
      <3> HIDE DEF s
      <3>4. /\ \A g \in Handler : At(g, "issued")' => At(g, "issued") /\ stage'[g] = stage[g]
            /\ \A g \in Handler : At(g, "issuing")' => At(g, "issuing") /\ stage'[g] = stage[g]
        BY <1>1, <3>1, <3>2
      <3> QED BY <1>a, <1>b, <2>a, <3>1, <3>3, <3>4, OwnersPlan
    <2>8. CASE Answered(h)
      <3>1. Goto(h, AfterOk(h)) /\ handed' = handed /\ Return(h) /\ lock = h /\ todo[h] = << >>
        BY <2>8 DEF Answered, Return
      <3>2. CASE At(h, "issuing")
        <4> DEFINE s == [stage[h] EXCEPT !.at = "issued"]
        <4>1. AfterOk(h) = s
          BY <3>2 DEF AfterOk
        <4>2. s \in StageRecord /\ s.at = "issued" /\ s.code = stage[h].code /\ s.client = stage[h].client
          BY <2>a DEF StageRecord, Stages
        <4> HIDE DEF s
        <4>3. stage'[h] = s /\ \A g \in Handler \ {h} : stage'[g] = stage[g]
          BY <1>a, <3>1, <4>1, <4>2, GotoEffect
        <4>4. \A g \in Handler : At(g, "issuing")' => At(g, "issuing") /\ g # h
          BY <4>2, <4>3 DEF At
        <4>5. \A g \in Handler : At(g, "issued")' =>
                stage'[g].code = stage[g].code /\ stage'[g].client = stage[g].client
                /\ (At(g, "issued") \/ (At(g, "issuing") /\ g = h /\ todo[h] = << >>))
          BY <3>1, <3>2, <4>2, <4>3 DEF At
        <4> QED BY <1>a, <1>c, <2>a, <3>1, <4>4, <4>5, OwnersReleased
      <3>3. CASE ~At(h, "issuing")
        <4>1. Goto(h, Idle)
          BY <3>1, <3>3 DEF AfterOk
        <4>2. /\ \A g \in Handler : At(g, "issued")' => At(g, "issued") /\ stage'[g] = stage[g]
              /\ \A g \in Handler : At(g, "issuing")' => At(g, "issuing") /\ g # h
          BY <1>1, <1>e, <4>1
        <4> QED BY <1>a, <1>c, <2>a, <3>1, <4>2, OwnersReleased
      <3> QED BY <3>2, <3>3
    <2>9. CASE Failed(h)
      <3>1. Goto(h, Idle) /\ handed' = handed /\ Abort(h)
        BY <2>9 DEF Failed
      <3>2. /\ \A g \in Handler : At(g, "issued")' => At(g, "issued") /\ stage'[g] = stage[g]
            /\ \A g \in Handler : At(g, "issuing")' => At(g, "issuing") /\ g # h
        BY <1>1, <1>e, <3>1
      <3> QED BY <1>a, <1>c, <2>a, <3>1, <3>2, OwnersReleased
    <2>10. CASE Save(h) /\ UNCHANGED authVars
      BY <1>a, <1>c, <2>a, <2>10, OwnersSave
    <2> QED BY <1>3, <2>2, <2>3, <2>4, <2>5, <2>6, <2>7, <2>8, <2>9, <2>10 DEF Handle
  <1>4. CASE UNCHANGED allVars
    <2>1. UNCHANGED <<disk, lock, copy, todo, minted, stage, handed>>
      BY <1>4 DEF allVars, vars
    <2>2. /\ \A h \in Handler : At(h, "issued")' <=> At(h, "issued")
          /\ \A h \in Handler : At(h, "issuing")' <=> At(h, "issuing")
      BY <2>1 DEF At
    <2>3. Promised' = Promised
      BY <2>1, <2>2 DEF Promised
    <2> QED BY <2>1, <2>2, <2>3, OwnersIdle
  <1> QED BY <1>2, <1>3, <1>4 DEF AuthorizeNext

LEMMA AuthorizeInvariance == AuthorizeSpec => [](AuthorizeTypeOK /\ StageInv /\ OwnersInv)
  <1>1. AuthorizeInit => AuthorizeTypeOK /\ StageInv /\ OwnersInv
    <2> SUFFICES ASSUME AuthorizeInit PROVE AuthorizeTypeOK /\ StageInv /\ OwnersInv
      OBVIOUS
    <2>1. TypeOK
      BY TypeInit DEF AuthorizeInit
    <2>2. /\ lock = NoProc /\ handed = {} /\ \A h \in Handler : stage[h] = Idle
          /\ \A p \in Proc : todo[p] = << >>
          /\ stage = [h \in Handler |-> Idle] /\ Idle.at = "idle"
      BY DEF AuthorizeInit, Init, Idle
    <2>3. stage \in [Handler -> StageRecord] /\ \A h \in Handler : lock # h
      BY <2>2, NoProcAssumption, HandlerAssumption DEF Idle, StageRecord, Stages
    <2>4. AuthorizeTypeOK
      BY <2>1, <2>2, <2>3 DEF AuthorizeTypeOK, StageRecord
    <2>5. StageInv
      BY <2>2 DEF StageInv, At
    <2>6. Promised = {} /\ \A h \in Handler : ~At(h, "issued") /\ ~At(h, "issuing")
      BY <2>2 DEF Promised, At
    <2>7. OwnersInv
      BY <2>2, <2>6 DEF OwnersInv, NoCodeOutlivesItsClient
    <2> QED BY <2>4, <2>5, <2>7
  <1>2. AuthorizeTypeOK /\ StageInv /\ OwnersInv /\ [AuthorizeNext]_allVars
          => (AuthorizeTypeOK /\ StageInv /\ OwnersInv)'
    <2> SUFFICES ASSUME AuthorizeTypeOK, StageInv, OwnersInv, [AuthorizeNext]_allVars
                 PROVE  (AuthorizeTypeOK /\ StageInv /\ OwnersInv)'
      OBVIOUS
    <2>1. AuthorizeTypeOK' /\ StageInv'
      BY AuthorizeTypeStep DEF OwnersInv
    <2> QED BY <2>1, OwnersStep
  <1> QED BY <1>1, <1>2, PTL DEF AuthorizeSpec

\* A code that a redirect carried never stands in codes.json without its
\* client, whoever removes the client and wherever a crash falls.
THEOREM NoStrayCodes == AuthorizeSpec => []NoCodeOutlivesItsClient
  <1>1. OwnersInv => NoCodeOutlivesItsClient
    BY DEF OwnersInv
  <1> QED BY <1>1, AuthorizeInvariance, PTL
=============================================================================
