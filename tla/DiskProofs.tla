------------------------------ MODULE DiskProofs ------------------------------
(* Proofs about SelfUpdate, Index, Notes and VaultSync, for any releases,   *)
(* documents, models, vaults, editors and bounds.                           *)
EXTENDS Index, VaultSync, SelfUpdate, Notes, SequenceTheorems, TLAPS

(***************************************************************************)
(* Updates one at a time.  The one that runs was started from the binary   *)
(* that is installed, and goes for a newer one; the sibling is whole and   *)
(* its own by the time it is renamed.                                      *)
(***************************************************************************)

OneUpdates == \A u, w \in Updater : Done(u) \/ Done(w) \/ u = w

SelfIsInstalled ==
  \A u \in Updater :
    /\ updating[u] \in {"looking", "decided", "staging", "staged"} => self[u] = exe.v
    /\ updating[u] \in {"staging", "staged"} => ~VersionAtLeast(u)
    /\ updating[u] = "staged" => new = [v |-> target[u], whole |-> TRUE]

UInv == UpdateTypeOK /\ OneUpdates /\ SelfIsInstalled /\ UpdateIsSafe

LEMMA UpdateInitInv == UpdateInit => UInv
  BY VersionType DEF UpdateInit, UInv, UpdateTypeOK, OneUpdates, SelfIsInstalled, UpdateIsSafe,
                     Done, Binary, NoFile, VersionAtLeast

LEMMA BinaryOf ==
  /\ \A v \in Version \union {0} :
       [v |-> v, whole |-> TRUE] \in Binary /\ [v |-> v, whole |-> FALSE] \in Binary
  /\ NoFile \in Binary
  BY DEF Binary, NoFile

LEMMA UpdateTypeStep ==
  ASSUME UpdateTypeOK, [UpdateNext]_updateVars
  PROVE  UpdateTypeOK'
  <1> USE DEF UpdateTypeOK, Turns
  <1>1. CASE UNCHANGED updateVars
    BY <1>1 DEF updateVars
  <1>2. CASE ReleaseCacheExpires \/ \E v \in Version : Released(v)
    BY <1>2 DEF ReleaseCacheExpires, Released
  <1>3. ASSUME NEW u \in Updater, RunUpdate(u) \/ FetchRelease(u) \/ Decline(u)
        PROVE  UpdateTypeOK'
    BY <1>3 DEF RunUpdate, FetchRelease, Decline, Binary
  <1>4. ASSUME NEW u \in Updater, Stage(u) \/ FinishStaging(u)
        PROVE  UpdateTypeOK'
    <2>1. new' \in Binary /\ UNCHANGED <<exe, managed, shadow, latest, known, self, target, updates>>
      BY <1>4, BinaryOf DEF Stage, FinishStaging
    <2>2. updating' \in [Updater -> {"idle", "looking", "decided", "staging", "staged", "placed",
                                     "ok", "upToDate", "failed"}]
      BY <1>4 DEF Stage, FinishStaging
    <2> QED BY <2>1, <2>2
  <1>5. ASSUME NEW u \in Updater, Place(u) \/ PackageManager(u)
        PROVE  UpdateTypeOK'
    <2>1. NoFile \in Binary
      BY BinaryOf
    <2>2. \A v \in Version \union {0} : [v |-> v, whole |-> TRUE] \in Binary
      BY BinaryOf
    <2>3. exe.v \in Version \union {0}
      BY DEF Binary
    <2>4. exe' \in Binary /\ new' \in Binary
          /\ UNCHANGED <<managed, shadow, latest, known, self, target, updates>>
      BY <1>5, <2>1, <2>2, <2>3 DEF Place, PackageManager
    <2>5. updating' \in [Updater -> {"idle", "looking", "decided", "staging", "staged", "placed",
                                     "ok", "upToDate", "failed"}]
      BY <1>5 DEF Place, PackageManager
    <2> QED BY <2>4, <2>5
  <1>6. ASSUME NEW u \in Updater, Validate(u) \/ UpdateFails(u)
        PROVE  UpdateTypeOK'
    <2>1. NoFile \in Binary
      BY BinaryOf
    <2>2. new' \in Binary /\ UNCHANGED <<exe, managed, shadow, latest, known, self, target, updates>>
      BY <1>6, <2>1 DEF Validate, UpdateFails
    <2>3. updating' \in [Updater -> {"idle", "looking", "decided", "staging", "staged", "placed",
                                     "ok", "upToDate", "failed"}]
      BY <1>6 DEF Validate, UpdateFails
    <2> QED BY <2>2, <2>3
  <1> QED BY <1>1, <1>2, <1>3, <1>4, <1>5, <1>6 DEF UpdateNext

\* What everybody but the one update that runs sees of its steps.
LEMMA UpdateStep ==
  ASSUME Serial, UInv, [UpdateNext]_updateVars
  PROVE  /\ OneUpdates' /\ SelfIsInstalled' /\ UpdateIsSafe'
         /\ exe'.v >= exe.v
  <1> DEFINE Kept == /\ OneUpdates' /\ SelfIsInstalled' /\ UpdateIsSafe'
                     /\ exe'.v >= exe.v
  <1> USE VersionType DEF UInv, UpdateTypeOK, Turns, Done, VersionAtLeast
  <1>0. /\ exe.v \in Nat /\ exe'.v \in Nat /\ exe.whole /\ OnPath \in Nat
        /\ \A u \in Updater : self[u] \in Nat /\ target[u] \in Nat
    <2>1. UpdateTypeOK'
      BY ONLY UInv, [UpdateNext]_updateVars, UpdateTypeStep DEF UInv
    <2>2. exe.v \in Version \union {0} /\ exe'.v \in Version \union {0}
      BY <2>1 DEF Binary
    <2>3. OnPath \in Version \union {0}
      BY <2>2 DEF OnPath
    <2>4. \A u \in Updater : self[u] \in Version \union {0} /\ target[u] \in Version \union {0}
      OBVIOUS
    <2>5. exe.whole
      BY DEF UpdateIsSafe
    <2>6. \A v \in Version \union {0} : v \in Nat
      BY ONLY VersionType
    <2> QED BY ONLY <2>2, <2>3, <2>4, <2>5, <2>6
  <1>1. CASE UNCHANGED updateVars \/ ReleaseCacheExpires \/ \E v \in Version : Released(v)
    BY <1>0, <1>1 DEF updateVars, ReleaseCacheExpires, Released, OneUpdates, SelfIsInstalled,
                      UpdateIsSafe, OnPath
  <1>2. ASSUME NEW u \in Updater, RunUpdate(u)
        PROVE  Kept
    BY <1>0, <1>2 DEF RunUpdate, OneUpdates, SelfIsInstalled, UpdateIsSafe, OnPath
  <1>3. ASSUME NEW u \in Updater, FetchRelease(u) \/ Decline(u)
        PROVE  Kept
    BY <1>0, <1>3 DEF FetchRelease, Decline, OneUpdates, SelfIsInstalled, UpdateIsSafe, OnPath
  <1>4. ASSUME NEW u \in Updater, Stage(u) \/ FinishStaging(u)
        PROVE  Kept
    BY <1>0, <1>4 DEF Stage, FinishStaging, OneUpdates, SelfIsInstalled, UpdateIsSafe, OnPath
  <1>5. ASSUME NEW u \in Updater, Place(u) \/ PackageManager(u)
        PROVE  Kept
    <2>1. exe'.whole /\ exe'.v >= exe.v /\ updating' = [updating EXCEPT ![u] = "placed"]
      BY <1>0, <1>5 DEF Place, Staged, PackageManager, SelfIsInstalled
    <2>2. \A w \in Updater \ {u} : Done(w)
      BY <1>5 DEF Place, Staged, PackageManager, OneUpdates
    <2>3. UNCHANGED <<self, target, shadow>>
      BY <1>5 DEF Place, PackageManager
    <2>4. OnPath' >= OnPath
      BY <1>0, <2>1, <2>3 DEF OnPath
    <2> QED BY <1>0, <2>1, <2>2, <2>3, <2>4, UpdateTypeStep DEF OneUpdates, SelfIsInstalled, UpdateIsSafe, OnPath
  <1>6. ASSUME NEW u \in Updater, Validate(u) \/ UpdateFails(u)
        PROVE  Kept
    BY <1>0, <1>6 DEF Validate, UpdateFails, Reported, OneUpdates, SelfIsInstalled, UpdateIsSafe, OnPath
  <1> QED BY <1>1, <1>2, <1>3, <1>4, <1>5, <1>6 DEF UpdateNext

LEMMA UpdateInvariance == ASSUME Serial PROVE UpdateSpec => []UInv
  <1>1. UInv /\ [UpdateNext]_updateVars => UInv'
    BY UpdateTypeStep, UpdateStep DEF UInv
  <1> QED BY UpdateInitInv, <1>1, PTL DEF UpdateSpec

\* A user who runs one update at a time always has a whole binary, whatever
\* fails or is killed, and an update that says it succeeded is what the next
\* command runs.
THEOREM UpdatesAreSafe == ASSUME Serial PROVE UpdateSpec => []UpdateIsSafe
  <1>1. UInv => UpdateIsSafe
    BY DEF UInv
  <1> QED BY <1>1, UpdateInvariance, PTL

\* And no such update takes a newer release away.
THEOREM UpdatesGoForward == ASSUME Serial PROVE UpdateSpec => NeverOlder
  <1>1. UInv /\ [UpdateNext]_updateVars => [exe'.v >= exe.v]_updateVars
    BY UpdateStep
  <1> QED BY <1>1, UpdateInvariance, PTL DEF UpdateSpec, NeverOlder

-----------------------------------------------------------------------------
(* The search index.  What makes NoGhostHits inductive is the order of the  *)
(* commits: the entries of a document are gone from the keyword index, and  *)
(* from what its writer holds, by the time engine.redb forgets it, and      *)
(* engine.redb knows it again by the time an entry is committed.            *)

Step == {"unlex", "forget", "drop", "embed", "record", "publish", "hash", "unhash", "lexhash",
         "lex", "vectors", "redb", "marker"}

Follows == {<<"unlex", "forget">>, <<"forget", "drop">>, <<"forget", "embed">>,
            <<"embed", "record">>, <<"record", "publish">>, <<"publish", "hash">>,
            <<"hash", "unhash">>, <<"publish", "lexhash">>,
            <<"lex", "vectors">>, <<"vectors", "redb">>, <<"redb", "marker">>}

InOrder(s) ==
  /\ s \in Seq(Step)
  /\ \A i \in 1..(Len(s) - 1) : <<s[i], s[i + 1]>> \in Follows

\* A document without a text is not recorded again.
NoRecord(s) == \A i \in 1..Len(s) : s[i] # "record"

\* What is added comes to be recorded.
EmbedFollowed(s) == s[Len(s)] # "embed"

EngineIsRecord ==
  engine = [at |-> engine.at, mode |-> engine.mode, whole |-> engine.whole,
            todo |-> engine.todo, doc |-> engine.doc, text |-> engine.text,
            steps |-> engine.steps, model |-> engine.model]

IndexShape ==
  /\ EngineIsRecord
  /\ InOrder(engine.steps)
  /\ engine.text \in Nat /\ engine.todo \subseteq Doc
  /\ edits \in Nat /\ file \in [Doc -> Nat] /\ meta \in [Doc -> Nat]
  /\ lex \in [Doc -> Seq(Nat)] /\ draft \in [Doc -> Seq(Nat)] /\ stray \subseteq Doc

\* The document that was given to the writer and is not recorded yet.
Adding(d) ==
  engine.at = "reindexing" /\ engine.steps # <<>> /\ Head(engine.steps) = "record" /\ engine.doc = d

\* What NoGhostHits says of the keyword index, the writer keeps too.
NoGhostDraft ==
  \A d \in Doc \ stray : Len(draft[d]) <= (IF meta[d] = 0 /\ ~Adding(d) THEN 0 ELSE 1)

\* What the steps that are left may count on.
Midway ==
  /\ engine.steps # <<>> => engine.at \in {"reindexing", "forcing"}
  /\ engine.at = "forcing" => engine.steps # <<>>
  /\ engine.at \in {"closed", "forcing"} => draft = lex
  /\ engine.steps # <<>> =>
       LET d == engine.doc
           next == Head(engine.steps)
       IN  /\ engine.at = "reindexing" =>
                /\ d \in Doc
                /\ d \notin stray /\ next \in {"forget", "embed"} =>
                     lex[d] = <<>> /\ draft[d] = <<>>
                /\ engine.text = 0 => NoRecord(engine.steps)
                /\ EmbedFollowed(engine.steps)
           /\ engine.at = "forcing" /\ next \in {"vectors", "redb", "marker"} =>
                \A e \in Doc : lex[e] = <<>>

GInv == IndexShape /\ Midway /\ NoGhostHits /\ NoGhostDraft

-----------------------------------------------------------------------------
(* Sequences of steps *)

LEMMA HeadIsFirst ==
  ASSUME NEW S, NEW s \in Seq(S), s # <<>>
  PROVE  Head(s) = s[1] /\ Len(s) \in Nat \ {0}
  BY EmptySeq

LEMMA TailInOrder ==
  ASSUME NEW s, InOrder(s), s # <<>>
  PROVE  /\ InOrder(Tail(s))
         /\ Tail(s) # <<>> => <<Head(s), Head(Tail(s))>> \in Follows
         /\ NoRecord(s) => NoRecord(Tail(s))
         /\ EmbedFollowed(s) => IF Tail(s) = <<>> THEN Head(s) # "embed" ELSE EmbedFollowed(Tail(s))
  <1>1. s \in Seq(Step)
    BY DEF InOrder
  <1>2. /\ Tail(s) \in Seq(Step) /\ Len(Tail(s)) = Len(s) - 1
        /\ \A i \in 1 .. Len(Tail(s)) : Tail(s)[i] = s[i + 1]
    BY <1>1, HeadTailProperties
  <1>3. Len(s) \in Nat /\ Len(Tail(s)) \in Nat
    BY <1>1, <1>2, LenProperties
  <1>4. InOrder(Tail(s))
    BY <1>2, <1>3 DEF InOrder
  <1>5. ASSUME Tail(s) # <<>> PROVE <<Head(s), Head(Tail(s))>> \in Follows
    <2>1. /\ Head(s) = s[1] /\ Head(Tail(s)) = Tail(s)[1]
          /\ Len(Tail(s)) >= 1
      BY <1>1, <1>2, <1>3, <1>5, HeadIsFirst
    <2> QED BY <1>2, <1>3, <2>1 DEF InOrder
  <1>6. NoRecord(s) => NoRecord(Tail(s))
    BY <1>2, <1>3 DEF NoRecord
  <1>7. EmbedFollowed(s) => IF Tail(s) = <<>> THEN Head(s) # "embed" ELSE EmbedFollowed(Tail(s))
    <2>1. Head(s) = s[1] /\ Len(s) \in Nat \ {0}
      BY <1>1, HeadIsFirst
    <2>2. Tail(s) = <<>> => Len(s) = 1
      <3> SUFFICES ASSUME Tail(s) = <<>> PROVE Len(s) = 1
        OBVIOUS
      <3> DEFINE m == Len(Tail(s))
                 n == Len(s)
      <3>1. m = 0 /\ m = n - 1 /\ n \in Nat
        BY <1>2, <1>3, EmptySeq
      <3> HIDE DEF m, n
      <3>2. n = 1
        BY ONLY <3>1
      <3> QED BY <3>2 DEF n
    <2>3. Tail(s) # <<>> => Tail(s)[Len(Tail(s))] = s[Len(s)]
      <3> SUFFICES ASSUME Tail(s) # <<>> PROVE Tail(s)[Len(Tail(s))] = s[Len(s)]
        OBVIOUS
      <3>1. Len(Tail(s)) \in Nat \ {0}
        BY <1>2, HeadIsFirst
      <3>2. Len(Tail(s)) \in 1..Len(Tail(s)) /\ Len(Tail(s)) + 1 = Len(s)
        BY ONLY <1>2, <2>1, <3>1
      <3>3. Tail(s)[Len(Tail(s))] = s[Len(Tail(s)) + 1]
        BY ONLY <1>2, <3>2
      <3> QED BY ONLY <3>2, <3>3
    <2> QED BY <2>1, <2>2, <2>3 DEF EmbedFollowed
  <1> QED BY <1>4, <1>5, <1>6, <1>7

LEMMA ConcatInOrder ==
  ASSUME NEW s, NEW t, InOrder(s), InOrder(t), s # <<>>, t # <<>>,
         <<s[Len(s)], t[1]>> \in Follows
  PROVE  /\ InOrder(s \o t) /\ s \o t # <<>> /\ Head(s \o t) = s[1]
         /\ Len(s \o t) = Len(s) + Len(t) /\ (s \o t)[Len(s) + Len(t)] = t[Len(t)]
         /\ NoRecord(s) /\ NoRecord(t) => NoRecord(s \o t)
  <1> DEFINE st == s \o t
  <1>1. s \in Seq(Step) /\ t \in Seq(Step)
    BY DEF InOrder
  <1>2. Len(s) \in Nat \ {0} /\ Len(t) \in Nat \ {0}
    BY <1>1, HeadIsFirst
  <1>3. /\ st \in Seq(Step) /\ Len(st) = Len(s) + Len(t)
        /\ \A i \in 1 .. Len(s) + Len(t) : st[i] = IF i <= Len(s) THEN s[i] ELSE t[i - Len(s)]
    BY <1>1, ConcatProperties
  <1> HIDE DEF st
  <1>4. ASSUME NEW i \in 1..(Len(st) - 1)
        PROVE  <<st[i], st[i + 1]>> \in Follows
    <2>1. CASE i < Len(s)
      <3>1. i \in 1..(Len(s) - 1) /\ st[i] = s[i] /\ st[i + 1] = s[i + 1]
        BY <1>2, <1>3, <2>1
      <3> QED BY <3>1 DEF InOrder
    <2>2. CASE i = Len(s)
      <3>1. st[i] = s[Len(s)] /\ st[i + 1] = t[1]
        BY <1>2, <1>3, <2>2
      <3> QED BY <3>1
    <2>3. CASE i > Len(s)
      <3>1. /\ i - Len(s) \in 1..(Len(t) - 1) /\ st[i] = t[i - Len(s)]
            /\ st[i + 1] = t[(i - Len(s)) + 1]
        BY <1>2, <1>3, <2>3
      <3> QED BY <3>1 DEF InOrder
    <2> QED BY <1>2, <1>3, <2>1, <2>2, <2>3
  <1>5. InOrder(st)
    BY <1>3, <1>4 DEF InOrder
  <1>6. st # <<>> /\ Head(st) = st[1]
    <2>1. st # <<>>
      BY <1>2, <1>3, EmptySeq
    <2> QED BY <1>3, <2>1, HeadIsFirst
  <1>7. st[1] = s[1] /\ st[Len(s) + Len(t)] = t[Len(t)]
    BY <1>2, <1>3
  <1>8. NoRecord(s) /\ NoRecord(t) => NoRecord(st)
    <2> SUFFICES ASSUME NoRecord(s), NoRecord(t), NEW i \in 1..Len(st)
                 PROVE  st[i] # "record"
      BY DEF NoRecord
    <2>1. CASE i <= Len(s)
      BY <1>2, <1>3, <2>1 DEF NoRecord
    <2>2. CASE i > Len(s)
      <3>1. i - Len(s) \in 1..Len(t) /\ st[i] = t[i - Len(s)]
        BY <1>2, <1>3, <2>2
      <3> QED BY <3>1 DEF NoRecord
    <2> QED BY <1>2, <1>3, <2>1, <2>2
  <1> QED BY <1>3, <1>5, <1>6, <1>7, <1>8 DEF st

LEMMA PiecesInOrder ==
  /\ InOrder(<<"unlex", "forget">>) /\ NoRecord(<<"unlex", "forget">>)
  /\ InOrder(<<"embed", "record", "publish">>)
  /\ InOrder(<<"hash", "unhash">>) /\ InOrder(<<"lexhash">>)
  /\ InOrder(<<"drop">>) /\ NoRecord(<<"drop">>)
  BY DEF InOrder, NoRecord, Follows, Step

LEMMA DropSteps ==
  LET s == RemoveSteps \o <<"drop">> IN InOrder(s) /\ s # <<>> /\ Head(s) = "unlex" /\ NoRecord(s)
                                        /\ EmbedFollowed(s)
  <1> DEFINE x == <<"drop">>
  <1>1. /\ RemoveSteps # <<>> /\ Len(RemoveSteps) = 2
        /\ RemoveSteps[1] = "unlex" /\ RemoveSteps[2] = "forget"
        /\ x # <<>> /\ x[1] = "drop"
    BY DEF RemoveSteps
  <1>2. InOrder(RemoveSteps) /\ NoRecord(RemoveSteps) /\ InOrder(x) /\ NoRecord(x)
    BY PiecesInOrder DEF RemoveSteps
  <1>5. x[Len(x)] = "drop"
    OBVIOUS
  <1> HIDE DEF x
  <1>3. <<RemoveSteps[Len(RemoveSteps)], x[1]>> \in Follows
    BY <1>1 DEF Follows
  <1> DEFINE s == RemoveSteps \o x
  <1>4. /\ InOrder(s) /\ s # <<>> /\ Head(s) = RemoveSteps[1] /\ NoRecord(s)
        /\ Len(s) = Len(RemoveSteps) + Len(x) /\ s[Len(RemoveSteps) + Len(x)] = x[Len(x)]
    BY ONLY <1>1, <1>2, <1>3, ConcatInOrder
  <1> HIDE DEF s
  <1>6. EmbedFollowed(s)
    BY ONLY <1>4, <1>5 DEF EmbedFollowed
  <1>7. Head(s) = "unlex"
    BY <1>1, <1>4
  <1> QED BY <1>4, <1>6, <1>7 DEF s, x

LEMMA WriteSteps ==
  LET s == RemoveSteps \o IndexSteps \o HashSteps
  IN  InOrder(s) /\ s # <<>> /\ Head(s) = "unlex" /\ EmbedFollowed(s)
  <1> DEFINE t == RemoveSteps \o IndexSteps
  <1>1. /\ RemoveSteps # <<>> /\ Len(RemoveSteps) = 2
        /\ RemoveSteps[1] = "unlex" /\ RemoveSteps[2] = "forget"
        /\ IndexSteps # <<>> /\ IndexSteps[1] = "embed" /\ Len(IndexSteps) = 3
        /\ IndexSteps[3] = "publish"
    BY DEF RemoveSteps, IndexSteps
  <1>2. /\ HashSteps # <<>> /\ HashSteps[1] \in {"hash", "lexhash"} /\ InOrder(HashSteps)
        /\ HashSteps[Len(HashSteps)] \in {"unhash", "lexhash"}
    BY PiecesInOrder DEF HashSteps
  <1>3. InOrder(RemoveSteps) /\ InOrder(IndexSteps)
    BY PiecesInOrder DEF RemoveSteps, IndexSteps
  <1>4. <<RemoveSteps[Len(RemoveSteps)], IndexSteps[1]>> \in Follows
    BY <1>1 DEF Follows
  <1>5. /\ InOrder(t) /\ t # <<>> /\ Head(t) = "unlex" /\ Len(t) = 5 /\ t[5] = "publish"
    <2>1. Len(RemoveSteps) + Len(IndexSteps) = 5
      BY <1>1
    <2>2. /\ InOrder(t) /\ t # <<>> /\ Head(t) = RemoveSteps[1]
          /\ Len(t) = Len(RemoveSteps) + Len(IndexSteps)
          /\ t[Len(RemoveSteps) + Len(IndexSteps)] = IndexSteps[Len(IndexSteps)]
      BY <1>1, <1>3, <1>4, ConcatInOrder
    <2> HIDE DEF t
    <2> QED BY <1>1, <2>1, <2>2
  <1> HIDE DEF t
  <1>6. t[1] = "unlex"
    BY <1>5, HeadIsFirst DEF InOrder
  <1>7. <<t[Len(t)], HashSteps[1]>> \in Follows
    BY <1>2, <1>5 DEF Follows
  <1> DEFINE s == t \o HashSteps
  <1>8. /\ InOrder(s) /\ s # <<>> /\ Head(s) = t[1] /\ Len(s) = Len(t) + Len(HashSteps)
        /\ s[Len(t) + Len(HashSteps)] = HashSteps[Len(HashSteps)]
    BY <1>2, <1>5, <1>7, ConcatInOrder
  <1> HIDE DEF s
  <1>9. EmbedFollowed(s)
    BY ONLY <1>2, <1>8 DEF EmbedFollowed
  <1> QED BY <1>6, <1>8, <1>9 DEF s, t

LEMMA WipeSteps ==
  LET s == <<"lex", "vectors", "redb", "marker">> IN InOrder(s) /\ Head(s) = "lex"
  BY DEF InOrder, Follows, Step

LEMMA NoSteps == InOrder(<<>>)
  BY DEF InOrder

LEMMA Engines ==
  /\ Closed.at = "closed" /\ Closed.steps = <<>> /\ Closed.text = 0 /\ Closed.todo = {}
  /\ Ready.at = "ready" /\ Ready.steps = <<>> /\ Ready.text = 0 /\ Ready.todo = {}
  BY DEF Closed, Ready

-----------------------------------------------------------------------------
(* Steps *)

LEMMA IndexInitInv == IndexInit => GInv
  <1> SUFFICES ASSUME IndexInit PROVE GInv
    OBVIOUS
  <1>1. IndexShape
    <2>1. EngineIsRecord
      BY DEF IndexInit, EngineIsRecord, Closed
    <2>2. engine.steps = <<>> /\ engine.text = 0 /\ engine.todo = {}
      BY Engines DEF IndexInit
    <2>3. lex \in [Doc -> Seq(Nat)] /\ draft \in [Doc -> Seq(Nat)] /\ stray \subseteq Doc
      <3>1. <<>> \in Seq(Nat)
        OBVIOUS
      <3> QED BY <3>1 DEF IndexInit, Empty
    <2> QED BY <2>1, <2>2, <2>3, NoSteps DEF IndexInit, IndexShape, Blank
  <1>2. Midway
    BY Engines DEF IndexInit, Midway
  <1>3. NoGhostHits /\ NoGhostDraft
    BY DEF IndexInit, NoGhostHits, NoGhostDraft, Blank, Empty
  <1> QED BY <1>1, <1>2, <1>3 DEF GInv

LEMMA NoEntries == ASSUME NEW s \in Seq(Nat), Len(s) <= 0 PROVE s = <<>>
  BY EmptySeq

\* A step that leaves the two stores alone, and no document half-way but one
\* that was.
LEMMA QuietStep ==
  ASSUME GInv, UNCHANGED <<meta, lex, draft, stray>>, EngineIsRecord', engine'.text \in Nat,
         engine'.todo \subseteq Doc, edits' \in Nat, file' \in [Doc -> Nat],
         \/ /\ engine'.steps = <<>> /\ engine'.at \notin {"closed", "forcing"}
            /\ engine.steps = <<>> \/ Head(engine.steps) # "record"
         \/ /\ engine'.steps = engine.steps /\ engine'.at = engine.at
            /\ engine'.doc = engine.doc /\ engine'.text = engine.text
  PROVE  GInv'
  <1>1. IndexShape'
    BY NoSteps DEF GInv, IndexShape
  <1>2. Midway'
    BY DEF GInv, Midway
  <1>3. NoGhostHits' /\ NoGhostDraft'
    BY DEF GInv, NoGhostHits, NoGhostDraft, Adding
  <1> QED BY <1>1, <1>2, <1>3 DEF GInv

\* The process ends, and what its writer has not committed is gone.
LEMMA DiscardStep ==
  ASSUME GInv, Discard, engine' = Closed, UNCHANGED <<meta, file, edits>>
  PROVE  GInv'
  <1>1. lex' = lex /\ draft' = lex /\ stray' = {d \in stray : lex[d] # <<>>}
    BY DEF Discard, Strays
  <1>2. IndexShape'
    <2>1. EngineIsRecord'
      BY DEF EngineIsRecord, Closed
    <2> QED BY <1>1, <2>1, Engines, NoSteps DEF GInv, IndexShape
  <1>3. Midway'
    BY <1>1, Engines DEF Midway
  <1>4. \A d \in Doc \ stray' : Len(lex[d]) <= (IF meta[d] = 0 THEN 0 ELSE 1)
    <2> SUFFICES ASSUME NEW d \in Doc, d \notin stray'
                 PROVE  Len(lex[d]) <= (IF meta[d] = 0 THEN 0 ELSE 1)
      OBVIOUS
    <2>1. CASE d \notin stray
      BY <2>1 DEF GInv, NoGhostHits
    <2>2. CASE lex[d] = <<>>
      BY <2>2
    <2> QED BY <1>1, <2>1, <2>2
  <1>5. NoGhostHits' /\ NoGhostDraft'
    BY <1>1, <1>4, Engines DEF NoGhostHits, NoGhostDraft, Adding
  <1> QED BY <1>2, <1>3, <1>5 DEF GInv

\* A step that empties the keyword index or makes it again from engine.redb.
LEMMA ReplaceStep ==
  ASSUME GInv, meta' = meta, NEW entries \in [Doc -> Seq(Nat)], Replace(entries),
         \A d \in Doc : entries[d] = <<>> \/ (meta[d] # 0 /\ entries[d] = <<meta[d]>>),
         EngineIsRecord', engine'.text \in Nat, engine'.todo \subseteq Doc,
         edits' = edits, file' = file, engine'.steps = <<>>, engine'.at # "forcing"
  PROVE  GInv'
  <1>0. lex' = entries /\ draft' = entries /\ stray' = {}
    BY DEF Replace
  <1>1. IndexShape'
    BY <1>0, NoSteps DEF GInv, IndexShape
  <1>2. Midway'
    BY <1>0 DEF Midway
  <1>3. \A d \in Doc : Len(entries[d]) <= (IF meta'[d] = 0 THEN 0 ELSE 1)
    <2> SUFFICES ASSUME NEW d \in Doc
                 PROVE  Len(entries[d]) <= (IF meta'[d] = 0 THEN 0 ELSE 1)
      OBVIOUS
    <2>1. CASE entries[d] = <<>>
      BY <2>1
    <2>2. CASE meta[d] # 0 /\ entries[d] = <<meta[d]>>
      BY <2>2
    <2> QED BY <2>1, <2>2
  <1>4. NoGhostHits' /\ NoGhostDraft'
    BY <1>0, <1>3 DEF NoGhostHits, NoGhostDraft, Adding
  <1> QED BY <1>1, <1>2, <1>4 DEF GInv

LEMMA EmptyTyped == Empty \in [Doc -> Seq(Nat)] /\ \A d \in Doc : Empty[d] = <<>>
  <1>1. <<>> \in Seq(Nat)
    OBVIOUS
  <1> QED BY ONLY <1>1 DEF Empty

LEMMA OpeningStep ==
  ASSUME GInv, Upgrade \/ Open \/ Mark \/ WipeOld \/ Refill \/ Unmark \/ FixLex \/ Close \/ Kill
  PROVE  GInv'
  <1> USE DEF GInv, IndexShape
  <1>1. CASE Upgrade
    <2>1. UNCHANGED <<engine, meta, lex, draft, stray, file, edits>>
      BY <1>1 DEF Upgrade, redb, keyword
    <2>2. EngineIsRecord'
      BY <2>1 DEF EngineIsRecord
    <2> QED BY <2>1, <2>2, QuietStep
  <1>2. CASE Open
    <2>1. /\ engine' = [Ready EXCEPT !.at = engine'.at] /\ engine'.at \in {"marking", "refilling", "ready"}
          /\ UNCHANGED <<meta, lex, draft, stray, file, edits>> /\ engine.at = "closed"
      BY <1>2 DEF Open, keyword, Ready, Closed
    <2>2. EngineIsRecord' /\ engine'.text = 0 /\ engine'.todo = {} /\ engine'.steps = <<>>
      BY <2>1 DEF EngineIsRecord, Ready, Closed
    <2>3. engine.steps = <<>>
      BY <2>1 DEF Midway
    <2> QED BY <2>1, <2>2, <2>3, QuietStep
  <1>3. ASSUME UNCHANGED <<meta, lex, draft, stray, file, edits>>,
               engine' = [engine EXCEPT !.at = engine'.at],
               engine'.at \notin {"closed", "forcing"}, engine.at \notin {"reindexing", "forcing"}
        PROVE  GInv'
    <2>1. /\ EngineIsRecord' /\ engine'.text = engine.text /\ engine'.todo = engine.todo
          /\ engine'.steps = engine.steps
      BY <1>3 DEF EngineIsRecord
    <2>2. engine.steps = <<>>
      BY <1>3 DEF Midway
    <2> QED BY <1>3, <2>1, <2>2, QuietStep
  <1>4. CASE Mark \/ Unmark \/ FixLex
    <2>1. CASE Mark
      <3>1. /\ UNCHANGED <<meta, lex, draft, stray, file, edits>> /\ engine.at = "marking"
            /\ engine' = [engine EXCEPT !.at = "wiping"]
        BY <2>1 DEF Mark, redb, keyword
      <3>2. engine'.at = "wiping" /\ engine' = [engine EXCEPT !.at = engine'.at]
        BY <3>1 DEF EngineIsRecord
      <3> QED BY <1>3, <3>1, <3>2
    <2>2. CASE FixLex
      <3>1. /\ UNCHANGED <<meta, lex, draft, stray, file, edits>> /\ engine.at = "ready"
            /\ engine' = [engine EXCEPT !.at = "refilling"]
        BY <2>2 DEF FixLex, stores, redb, keyword
      <3>2. engine'.at = "refilling" /\ engine' = [engine EXCEPT !.at = engine'.at]
        BY <3>1 DEF EngineIsRecord
      <3> QED BY <1>3, <3>1, <3>2
    <2>3. CASE Unmark
      <3>1. EngineIsRecord' /\ UNCHANGED <<meta, lex, draft, stray, file, edits>> /\ engine' = Ready
            /\ engine.at = "unmarking"
        BY <2>3 DEF Unmark, redb, keyword, EngineIsRecord, Ready, Closed
      <3>2. engine.steps = <<>>
        BY <3>1 DEF Midway
      <3> QED BY <3>1, <3>2, Engines, QuietStep
    <2> QED BY <1>4, <2>1, <2>2, <2>3
  <1>5. CASE Close \/ Kill
    <2>1. Discard /\ UNCHANGED <<meta, file, edits>> /\ engine' = Closed
      BY <1>5 DEF Close, Kill, redb
    <2> QED BY <2>1, DiscardStep
  <1>6. CASE WipeOld
    <2>1. /\ EngineIsRecord' /\ engine'.text = engine.text /\ engine'.todo = engine.todo
          /\ engine'.steps = engine.steps /\ engine'.at = "refilling"
      BY <1>6 DEF WipeOld, EngineIsRecord
    <2>2. engine.steps = <<>>
      BY <1>6 DEF WipeOld, Midway
    <2>3. Replace(Empty) /\ meta' = meta /\ file' = file /\ edits' = edits
      BY <1>6 DEF WipeOld, redb
    <2>4. engine'.text \in Nat /\ engine'.todo \subseteq Doc /\ engine'.steps = <<>>
          /\ engine'.at # "forcing"
      BY <2>1, <2>2
    <2>5. GInv
      OBVIOUS
    <2> QED BY ONLY <2>1, <2>3, <2>4, <2>5, EmptyTyped, ReplaceStep
  <1>7. CASE Refill
    <2>0. engine.steps = <<>>
      BY <1>7 DEF Refill, Midway
    <2>1. CASE engine' = Ready /\ UNCHANGED keyword
      <3>1. EngineIsRecord' /\ UNCHANGED <<meta, lex, draft, stray, file, edits>>
        BY <1>7, <2>1 DEF Refill, redb, keyword, EngineIsRecord, Ready, Closed
      <3> QED BY <2>0, <2>1, <3>1, Engines, QuietStep
    <2> DEFINE entries == [d \in Doc |-> IF meta[d] = 0 THEN <<>> ELSE <<meta[d]>>]
    <2>2. CASE Replace(entries) /\ engine' = [engine EXCEPT !.at = "unmarking"]
      <3>1. /\ EngineIsRecord' /\ engine'.text = engine.text /\ engine'.todo = engine.todo
            /\ engine'.steps = engine.steps /\ engine'.at = "unmarking"
            /\ meta' = meta /\ file' = file /\ edits' = edits
        BY <1>7, <2>2 DEF Refill, redb, EngineIsRecord
      <3>2. \A d \in Doc : meta[d] \in Nat /\ <<meta[d]>> \in Seq(Nat)
        OBVIOUS
      <3>3. ASSUME NEW d \in Doc
            PROVE  entries[d] = <<>> \/ (meta[d] # 0 /\ entries[d] = <<meta[d]>>)
        OBVIOUS
      <3>4. entries \in [Doc -> Seq(Nat)]
        BY <3>2
      <3>5. engine'.text \in Nat /\ engine'.todo \subseteq Doc /\ engine'.steps = <<>>
            /\ engine'.at # "forcing" /\ GInv /\ Replace(entries)
        BY <2>0, <2>2, <3>1
      <3> HIDE DEF entries
      <3> QED BY ONLY <3>1, <3>3, <3>4, <3>5, ReplaceStep
    <2> QED BY <1>7, <2>1, <2>2 DEF Refill
  <1> QED BY <1>1, <1>2, <1>4, <1>5, <1>6, <1>7

LEMMA Busy ==
  ASSUME GInv, NEW step, At(step)
  PROVE  /\ engine.at = "reindexing" /\ engine.steps # <<>> /\ Head(engine.steps) = step
         /\ engine.doc \in Doc
         /\ engine.doc \notin stray /\ step \in {"forget", "embed"} =>
              lex[engine.doc] = <<>> /\ draft[engine.doc] = <<>>
         /\ engine.text = 0 => NoRecord(engine.steps)
         /\ EmbedFollowed(engine.steps)
         /\ step # "record" => \A d \in Doc : ~Adding(d)
         /\ \A d \in Doc : d # engine.doc => ~Adding(d)
  BY DEF GInv, Midway, At, Adding

\* One step of a document is done, and what is left may count on it.
LEMMA AdvanceStep ==
  ASSUME GInv, NEW step, At(step), Advance, UNCHANGED <<edits, file>>,
         meta' \in [Doc -> Nat], lex' \in [Doc -> Seq(Nat)], draft' \in [Doc -> Seq(Nat)],
         stray' \subseteq Doc, NoGhostHits',
         \A d \in Doc \ stray' :
           Len(draft'[d]) <=
             (IF meta'[d] = 0 /\ ~(step = "embed" /\ d = engine.doc) THEN 0 ELSE 1),
         step \in {"unlex", "forget"} /\ engine.doc \notin stray' =>
           lex'[engine.doc] = <<>> /\ draft'[engine.doc] = <<>>
  PROVE  GInv'
  <1>1. /\ EngineIsRecord' /\ engine'.at = "reindexing" /\ engine'.doc = engine.doc
        /\ engine'.text = engine.text /\ engine'.steps = Tail(engine.steps)
        /\ engine'.todo \subseteq engine.todo
    BY Busy DEF Advance, GInv, IndexShape, EngineIsRecord
  <1>2. InOrder(engine.steps) /\ engine.steps # <<>> /\ Head(engine.steps) = step
        /\ EmbedFollowed(engine.steps)
    BY Busy DEF GInv, IndexShape
  <1>3. /\ InOrder(engine'.steps)
        /\ engine'.steps # <<>> => <<step, Head(engine'.steps)>> \in Follows
        /\ NoRecord(engine.steps) => NoRecord(engine'.steps)
        /\ IF engine'.steps = <<>> THEN step # "embed" ELSE EmbedFollowed(engine'.steps)
    BY <1>1, <1>2, TailInOrder
  <1>4. IndexShape'
    BY <1>1, <1>3 DEF GInv, IndexShape
  <1>5. /\ engine'.steps # <<>> /\ Head(engine'.steps) \in {"forget", "embed"} =>
             step \in {"unlex", "forget"}
        /\ step = "embed" => engine'.steps # <<>> /\ Head(engine'.steps) = "record"
    BY <1>3 DEF Follows
  <1>6. Midway'
    BY <1>1, <1>3, <1>5, Busy DEF Midway
  <1>7. NoGhostDraft'
    <2>1. step = "embed" => Adding(engine.doc)'
      BY <1>1, <1>5 DEF Adding
    <2> SUFFICES ASSUME NEW d \in Doc \ stray'
                 PROVE  Len(draft'[d]) <= (IF meta'[d] = 0 /\ ~Adding(d)' THEN 0 ELSE 1)
      BY DEF NoGhostDraft
    <2>2. CASE step = "embed" /\ d = engine.doc
      <3>1. Adding(d)'
        BY <1>1, <1>5, <2>2 DEF Adding
      <3> QED BY <2>2, <3>1
    <2>3. CASE ~(step = "embed" /\ d = engine.doc)
      <3>1. meta'[d] = 0 => Len(draft'[d]) <= 0
        BY <2>3
      <3>2. Len(draft'[d]) <= 0 => Len(draft'[d]) <= 1
        <4>1. Len(draft'[d]) \in Nat
          BY LenProperties
        <4> QED BY ONLY <4>1
      <3> QED BY <2>3, <3>1, <3>2
    <2> QED BY <2>2, <2>3
  <1> QED BY <1>4, <1>6, <1>7 DEF GInv

\* A document is given up.
LEMMA GiveUpStep ==
  ASSUME GInv, NEW step, At(step), GiveUp, UNCHANGED <<meta, edits, file>>,
         lex' \in [Doc -> Seq(Nat)], draft' \in [Doc -> Seq(Nat)], stray' \subseteq Doc,
         \A d \in Doc \ stray' :
           /\ Len(lex'[d]) <= (IF meta[d] = 0 THEN 0 ELSE 1)
           /\ Len(draft'[d]) <= (IF meta[d] = 0 THEN 0 ELSE 1)
  PROVE  GInv'
  <1>1. /\ EngineIsRecord' /\ engine'.steps = <<>> /\ engine'.at \in {"reindexing", "ready"}
        /\ engine'.text \in Nat /\ engine'.todo \subseteq Doc
    <2>1. CASE engine.whole /\ engine.text # 0
      <3>1. engine' = [engine EXCEPT !.steps = <<>>, !.todo = engine.todo \ {engine.doc}]
        BY <2>1 DEF GiveUp
      <3> QED BY <3>1, Busy DEF EngineIsRecord, GInv, IndexShape
    <2>2. CASE ~(engine.whole /\ engine.text # 0)
      <3>1. engine' = Ready
        BY <2>2 DEF GiveUp
      <3> QED BY <3>1, Engines DEF EngineIsRecord, Ready, Closed
    <2> QED BY <2>1, <2>2
  <1>2. IndexShape'
    BY <1>1, NoSteps DEF GInv, IndexShape
  <1>3. Midway'
    BY <1>1 DEF Midway
  <1>4. NoGhostHits' /\ NoGhostDraft'
    BY <1>1 DEF NoGhostHits, NoGhostDraft, Adding
  <1> QED BY <1>2, <1>3, <1>4 DEF GInv


\* What a commit of the keyword index may publish.
LEMMA EntriesBounded ==
  ASSUME GInv, NEW entries, NEW d \in Doc, d \notin Strays(entries),
         \/ entries[d] = <<>>
         \/ entries[d] = lex[d]
         \/ entries[d] = draft[d] /\ ~Adding(d)
  PROVE  Len(entries[d]) <= (IF meta[d] = 0 THEN 0 ELSE 1)
  <1>1. CASE entries[d] = <<>>
    BY <1>1
  <1>2. CASE entries[d] # <<>>
    <2>1. d \notin stray
      BY <1>2 DEF Strays
    <2> QED BY <1>2, <2>1 DEF GInv, NoGhostHits, NoGhostDraft
  <1> QED BY <1>1, <1>2

LEMMA DeletedEntries ==
  ASSUME GInv
  PROVE  /\ Deleted \in [Doc -> Seq(Nat)]
         /\ \A d \in Doc : Deleted[d] = <<>> \/ Deleted[d] = draft[d]
         /\ \A d \in Doc : d # engine.doc => Deleted[d] = draft[d]
         /\ engine.doc \in Doc /\ meta[engine.doc] # 0 => Deleted[engine.doc] = <<>>
  <1>1. draft \in [Doc -> Seq(Nat)] /\ <<>> \in Seq(Nat)
    BY DEF GInv, IndexShape
  <1> QED BY ONLY <1>1 DEF Deleted

LEMMA AddedEntries ==
  ASSUME GInv, engine.doc \in Doc
  PROVE  /\ Added \in [Doc -> Seq(Nat)]
         /\ \A d \in Doc : d # engine.doc => Added[d] = draft[d]
         /\ Len(Added[engine.doc]) = Len(draft[engine.doc]) + 1
         /\ Added[engine.doc] # <<>>
         /\ Added[engine.doc][Len(Added[engine.doc])] = engine.text
  <1> DEFINE s == draft[engine.doc]
             a == Append(s, engine.text)
  <1>1. draft \in [Doc -> Seq(Nat)] /\ engine.text \in Nat /\ s \in Seq(Nat)
    BY DEF GInv, IndexShape
  <1>2. a \in Seq(Nat) /\ Len(a) = Len(s) + 1 /\ a[Len(a)] = engine.text
    BY <1>1, AppendProperties
  <1>3. a # <<>>
    BY <1>1, AppendProperties
  <1>4. Added = [draft EXCEPT ![engine.doc] = a]
    BY DEF Added
  <1> HIDE DEF s, a
  <1>5. Added \in [Doc -> Seq(Nat)] /\ \A d \in Doc : d # engine.doc => Added[d] = draft[d]
    BY ONLY <1>1, <1>2, <1>4
  <1>6. Added[engine.doc] = a
    BY ONLY <1>1, <1>4, engine.doc \in Doc
  <1> QED BY <1>2, <1>3, <1>5, <1>6 DEF s

LEMMA DocumentStep ==
  ASSUME GInv, Unlex \/ Forget \/ Embed \/ Record \/ Publish \/ Hash
  PROVE  GInv'
  <1> DEFINE d == engine.doc
  <1>0. /\ meta \in [Doc -> Nat] /\ lex \in [Doc -> Seq(Nat)] /\ draft \in [Doc -> Seq(Nat)]
        /\ stray \subseteq Doc /\ engine.text \in Nat
    BY DEF GInv, IndexShape
  <1>b. \A e \in Doc \ stray :
          /\ Len(lex[e]) <= (IF meta[e] = 0 THEN 0 ELSE 1)
          /\ Len(draft[e]) <= (IF meta[e] = 0 /\ ~Adding(e) THEN 0 ELSE 1)
    BY DEF GInv, NoGhostHits, NoGhostDraft
  <1>c. \A e \in Doc : Len(lex[e]) \in Nat /\ Len(draft[e]) \in Nat
    BY <1>0, LenProperties
  <1>1. CASE Unlex
    <2>1. /\ At("unlex") /\ Advance /\ UNCHANGED <<meta, file, edits>>
          /\ lex' = Deleted /\ draft' = Deleted /\ stray' = Strays(Deleted)
      BY <1>1 DEF Unlex, redb
    <2>2. d \in Doc /\ \A e \in Doc : ~Adding(e)
      BY <2>1, Busy
    <2>3. \A e \in Doc \ Strays(Deleted) : Len(Deleted[e]) <= (IF meta[e] = 0 THEN 0 ELSE 1)
      <3> SUFFICES ASSUME NEW e \in Doc, e \notin Strays(Deleted)
                   PROVE  Len(Deleted[e]) <= (IF meta[e] = 0 THEN 0 ELSE 1)
        OBVIOUS
      <3>1. Deleted[e] = <<>> \/ Deleted[e] = draft[e]
        BY DeletedEntries
      <3> QED BY <2>2, <3>1, EntriesBounded
    <2>4. d \notin Strays(Deleted) => Deleted[d] = <<>>
      <3>1. CASE meta[d] # 0
        BY <2>2, <3>1, DeletedEntries
      <3>2. CASE meta[d] = 0
        <4>1. d \notin Strays(Deleted) => Len(Deleted[d]) <= 0 /\ Deleted[d] \in Seq(Nat)
          BY <2>2, <2>3, <3>2, DeletedEntries
        <4> QED BY <4>1, NoEntries
      <3> QED BY <3>1, <3>2
    <2>5. Strays(Deleted) \subseteq Doc
      BY <1>0 DEF Strays
    <2>6. NoGhostHits'
      BY <2>1, <2>3 DEF NoGhostHits
    <2>7. \A e \in Doc \ stray' :
            Len(draft'[e]) <= (IF meta'[e] = 0 /\ ~("unlex" = "embed" /\ e = d) THEN 0 ELSE 1)
      BY <2>1, <2>3
    <2> QED BY <1>0, <2>1, <2>4, <2>5, <2>6, <2>7, DeletedEntries, AdvanceStep
  <1>2. CASE Forget
    <2>1. /\ UNCHANGED <<lex, draft, stray, edits, file>> /\ At("forget") /\ Advance
          /\ meta' = [meta EXCEPT ![d] = 0]
      BY <1>2 DEF Forget, keyword
    <2>2. /\ d \in Doc /\ \A e \in Doc : ~Adding(e)
          /\ d \notin stray => lex[d] = <<>> /\ draft[d] = <<>>
      BY <2>1, Busy
    <2>3. \A e \in Doc \ stray : /\ Len(lex[e]) <= (IF meta'[e] = 0 THEN 0 ELSE 1)
                                 /\ Len(draft[e]) <= (IF meta'[e] = 0 THEN 0 ELSE 1)
      <3> SUFFICES ASSUME NEW e \in Doc \ stray
                   PROVE  /\ Len(lex[e]) <= (IF meta'[e] = 0 THEN 0 ELSE 1)
                          /\ Len(draft[e]) <= (IF meta'[e] = 0 THEN 0 ELSE 1)
        OBVIOUS
      <3>1. CASE e = d
        BY <2>2, <3>1
      <3>2. CASE e # d
        <4>1. meta'[e] = meta[e]
          BY <1>0, <2>1, <3>2
        <4> QED BY <1>b, <2>2, <4>1
      <3> QED BY <3>1, <3>2
    <2>4. NoGhostHits'
      BY <2>1, <2>3 DEF NoGhostHits
    <2>5. meta' \in [Doc -> Nat]
      BY <1>0, <2>1
    <2>6. \A e \in Doc \ stray' :
            Len(draft'[e]) <= (IF meta'[e] = 0 /\ ~("forget" = "embed" /\ e = d) THEN 0 ELSE 1)
      BY <2>1, <2>3
    <2> QED BY <1>0, <2>1, <2>2, <2>4, <2>5, <2>6, AdvanceStep
  <1>3. CASE Embed
    <2>1. /\ UNCHANGED <<meta, lex, stray, edits, file>> /\ At("embed") /\ Advance
          /\ draft' = Added
      BY <1>3 DEF Embed, redb
    <2>2. /\ d \in Doc /\ \A e \in Doc : ~Adding(e)
          /\ d \notin stray => draft[d] = <<>>
      BY <2>1, Busy
    <2>3. /\ Added \in [Doc -> Seq(Nat)]
          /\ \A e \in Doc : e # d => Added[e] = draft[e]
          /\ Len(Added[d]) = Len(draft[d]) + 1
      BY <2>2, AddedEntries
    <2>4. \A e \in Doc \ stray' :
            Len(draft'[e]) <= (IF meta'[e] = 0 /\ ~("embed" = "embed" /\ e = d) THEN 0 ELSE 1)
      <3> SUFFICES ASSUME NEW e \in Doc \ stray
                   PROVE  Len(Added[e]) <= (IF meta[e] = 0 /\ ~(e = d) THEN 0 ELSE 1)
        BY <2>1
      <3>1. CASE e = d
        <4>1. Len(draft[d]) = 0
          BY <2>2, <3>1
        <4>2. Len(Added[d]) = Len(draft[d]) + 1
          BY ONLY <2>3
        <4>3. Len(Added[d]) = 1
          BY ONLY <4>1, <4>2
        <4> QED BY ONLY <3>1, <4>3
      <3>2. CASE e # d
        <4>1. Added[e] = draft[e] /\ ~Adding(e)
          BY <2>2, <2>3, <3>2
        <4> QED BY <1>b, <3>2, <4>1
      <3> QED BY <3>1, <3>2
    <2>5. NoGhostHits'
      BY <2>1 DEF GInv, NoGhostHits
    <2> QED BY <1>0, <2>1, <2>3, <2>4, <2>5, AdvanceStep
  <1>4. CASE Record
    <2>1. /\ UNCHANGED <<lex, draft, stray, edits, file>> /\ At("record") /\ Advance
          /\ meta' = [meta EXCEPT ![d] = engine.text]
      BY <1>4 DEF Record, keyword
    <2>2. /\ d \in Doc /\ (engine.text = 0 => NoRecord(engine.steps))
          /\ \A e \in Doc : e # d => ~Adding(e)
      BY <2>1, Busy
    <2>3. engine.text # 0
      <3>1. /\ engine.steps \in Seq(Step) /\ engine.steps # <<>> /\ Head(engine.steps) = "record"
        BY <2>1 DEF At, GInv, IndexShape, InOrder
      <3>2. engine.steps[1] = "record" /\ 1 \in 1..Len(engine.steps)
        BY <3>1, HeadIsFirst
      <3> QED BY <2>2, <3>2 DEF NoRecord
    <2>4. \A e \in Doc \ stray : /\ Len(lex[e]) <= (IF meta'[e] = 0 THEN 0 ELSE 1)
                                 /\ Len(draft[e]) <= (IF meta'[e] = 0 THEN 0 ELSE 1)
      <3> SUFFICES ASSUME NEW e \in Doc \ stray
                   PROVE  /\ Len(lex[e]) <= (IF meta'[e] = 0 THEN 0 ELSE 1)
                          /\ Len(draft[e]) <= (IF meta'[e] = 0 THEN 0 ELSE 1)
        OBVIOUS
      <3>1. CASE e = d
        <4>1. meta'[e] # 0
          BY <1>0, <2>1, <2>2, <2>3, <3>1
        <4>2. Len(lex[e]) <= 1 /\ Len(draft[e]) <= 1
          BY <1>b, <1>c
        <4> QED BY <4>1, <4>2
      <3>2. CASE e # d
        <4>1. meta'[e] = meta[e]
          BY <1>0, <2>1, <3>2
        <4> QED BY <1>b, <2>2, <3>2, <4>1
      <3> QED BY <3>1, <3>2
    <2>5. NoGhostHits'
      BY <2>1, <2>4 DEF NoGhostHits
    <2>6. meta' \in [Doc -> Nat]
      BY <1>0, <2>1
    <2>7. \A e \in Doc \ stray' :
            Len(draft'[e]) <= (IF meta'[e] = 0 /\ ~("record" = "embed" /\ e = d) THEN 0 ELSE 1)
      BY <2>1, <2>4
    <2> QED BY <1>0, <2>1, <2>5, <2>6, <2>7, AdvanceStep
  <1>5. CASE Publish
    <2>1. /\ UNCHANGED <<meta, draft, edits, file>> /\ At("publish") /\ Advance
          /\ lex' = draft /\ stray' = Strays(draft)
      BY <1>5 DEF Publish, redb
    <2>2. \A e \in Doc : ~Adding(e)
      BY <2>1, Busy
    <2>3. \A e \in Doc \ Strays(draft) : Len(draft[e]) <= (IF meta[e] = 0 THEN 0 ELSE 1)
      BY <2>2, EntriesBounded
    <2>4. NoGhostHits' /\ Strays(draft) \subseteq Doc
      BY <1>0, <2>1, <2>3 DEF NoGhostHits, Strays
    <2>5. \A e \in Doc \ stray' :
            Len(draft'[e]) <= (IF meta'[e] = 0 /\ ~("publish" = "embed" /\ e = d) THEN 0 ELSE 1)
      BY <2>1, <2>3
    <2> QED BY <1>0, <2>1, <2>4, <2>5, AdvanceStep
  <1>6. CASE Hash
    <2> SUFFICES ASSUME NEW step \in {"hash", "unhash", "lexhash", "drop"}, At(step) PROVE GInv'
      BY <1>6 DEF Hash
    <2>1. UNCHANGED <<meta, lex, draft, stray, edits, file>> /\ Advance
      BY <1>6 DEF Hash, keyword
    <2>2. \A e \in Doc : ~Adding(e)
      BY Busy
    <2>3. NoGhostHits'
      BY <2>1 DEF GInv, NoGhostHits
    <2>4. \A e \in Doc \ stray' :
            Len(draft'[e]) <= (IF meta'[e] = 0 /\ ~(step = "embed" /\ e = d) THEN 0 ELSE 1)
      BY <1>b, <2>1, <2>2
    <2> QED BY <1>0, <2>1, <2>3, <2>4, AdvanceStep
  <1> QED BY <1>1, <1>2, <1>3, <1>4, <1>5, <1>6

Failing == UnlexFails \/ EmbedFails \/ Strand \/ PublishFails \/ StepFails

LEMMA FailingStep == ASSUME GInv, Failing PROVE GInv'
  <1>0. /\ lex \in [Doc -> Seq(Nat)] /\ draft \in [Doc -> Seq(Nat)] /\ stray \subseteq Doc
    BY DEF GInv, IndexShape
  <1>b. \A e \in Doc \ stray :
          /\ Len(lex[e]) <= (IF meta[e] = 0 THEN 0 ELSE 1)
          /\ Len(draft[e]) <= (IF meta[e] = 0 /\ ~Adding(e) THEN 0 ELSE 1)
    BY DEF GInv, NoGhostHits, NoGhostDraft
  <1>1. ASSUME NEW step, At(step), step # "record", GiveUp, UNCHANGED <<meta, edits, file>>,
               NEW entries \in [Doc -> Seq(Nat)],
               \A e \in Doc : entries[e] = <<>> \/ entries[e] = draft[e],
               Uncommitted(entries)
        PROVE  GInv'
    <2>1. /\ lex' = lex \/ lex' = entries
          /\ draft' = lex' \/ draft' = entries
          /\ stray' = Strays(lex') \union Strays(draft')
      BY <1>1 DEF Uncommitted
    <2>2. \A e \in Doc : ~Adding(e)
      BY <1>1, Busy
    <2>3. \A e \in Doc : /\ e \notin Strays(entries) =>
                              Len(entries[e]) <= (IF meta[e] = 0 THEN 0 ELSE 1)
                         /\ e \notin Strays(lex) =>
                              Len(lex[e]) <= (IF meta[e] = 0 THEN 0 ELSE 1)
      BY <1>1, <2>2, EntriesBounded
    <2>4. \A e \in Doc \ stray' : /\ Len(lex'[e]) <= (IF meta[e] = 0 THEN 0 ELSE 1)
                                  /\ Len(draft'[e]) <= (IF meta[e] = 0 THEN 0 ELSE 1)
      <3> SUFFICES ASSUME NEW e \in Doc, e \notin Strays(lex'), e \notin Strays(draft')
                   PROVE  /\ Len(lex'[e]) <= (IF meta[e] = 0 THEN 0 ELSE 1)
                          /\ Len(draft'[e]) <= (IF meta[e] = 0 THEN 0 ELSE 1)
        BY <2>1
      <3>1. /\ lex' = lex \/ lex' = entries
            /\ draft' = lex \/ draft' = entries
        BY ONLY <2>1
      <3>2. Len(lex'[e]) <= (IF meta[e] = 0 THEN 0 ELSE 1)
        <4>1. CASE lex' = lex
          BY <2>3, <4>1
        <4>2. CASE lex' = entries
          BY <2>3, <4>2
        <4> QED BY <3>1, <4>1, <4>2
      <3>3. Len(draft'[e]) <= (IF meta[e] = 0 THEN 0 ELSE 1)
        <4>1. CASE draft' = lex
          BY <2>3, <4>1
        <4>2. CASE draft' = entries
          BY <2>3, <4>2
        <4> QED BY <3>1, <4>1, <4>2
      <3> QED BY <3>2, <3>3
    <2>5. lex' \in [Doc -> Seq(Nat)] /\ draft' \in [Doc -> Seq(Nat)]
      BY <1>0, <1>1, <2>1
    <2>6. stray' \subseteq Doc
      BY <1>0, <2>1 DEF Strays
    <2> QED BY <1>1, <2>4, <2>5, <2>6, GiveUpStep
  <1>2. CASE UnlexFails
    <2>1. /\ At("unlex") /\ GiveUp /\ UNCHANGED <<meta, edits, file>> /\ Uncommitted(Deleted)
      BY <1>2 DEF UnlexFails, redb
    <2> QED BY <1>1, <2>1, DeletedEntries
  <1>3. CASE PublishFails
    <2>1. /\ At("publish") /\ GiveUp /\ UNCHANGED <<meta, edits, file>> /\ Uncommitted(draft)
      BY <1>3 DEF PublishFails, redb
    <2> QED BY <1>0, <1>1, <2>1
  <1>4. CASE EmbedFails \/ StepFails
    <2> SUFFICES ASSUME NEW step, At(step), step # "record" PROVE GInv'
      BY <1>4 DEF EmbedFails, StepFails
    <2>1. GiveUp /\ UNCHANGED <<meta, lex, draft, stray, edits, file>>
      BY <1>4 DEF EmbedFails, StepFails, stores, redb, keyword
    <2>2. \A e \in Doc : ~Adding(e)
      BY Busy
    <2>3. \A e \in Doc \ stray' : /\ Len(lex'[e]) <= (IF meta[e] = 0 THEN 0 ELSE 1)
                                  /\ Len(draft'[e]) <= (IF meta[e] = 0 THEN 0 ELSE 1)
      BY <1>b, <2>1, <2>2
    <2> QED BY <1>0, <2>1, <2>3, GiveUpStep
  <1>5. CASE Strand
    <2>1. /\ GiveUp /\ UNCHANGED <<meta, lex, edits, file>> /\ stray' = stray \union {engine.doc}
          /\ \/ At("embed") /\ draft' = Added
             \/ At("record") /\ draft' = draft
      BY <1>5 DEF Strand, redb
    <2>2. PICK step \in {"embed", "record"} : At(step)
      BY <2>1
    <2>3. engine.doc \in Doc /\ \A e \in Doc : e # engine.doc => ~Adding(e)
      BY <2>2, Busy
    <2>4. /\ draft' \in [Doc -> Seq(Nat)]
          /\ \A e \in Doc : e # engine.doc => draft'[e] = draft[e]
      BY <1>0, <2>1, <2>3, AddedEntries
    <2>5. \A e \in Doc \ stray' : /\ Len(lex'[e]) <= (IF meta[e] = 0 THEN 0 ELSE 1)
                                  /\ Len(draft'[e]) <= (IF meta[e] = 0 THEN 0 ELSE 1)
      BY <1>b, <2>1, <2>3, <2>4
    <2> QED BY <1>0, <2>1, <2>2, <2>3, <2>4, <2>5, GiveUpStep
  <1> QED BY <1>2, <1>3, <1>4, <1>5 DEF Failing
LEMMA PassStep ==
  ASSUME GInv,
         \/ \E d \in Doc : Edit(d) \/ Skip(d) \/ Take(d) \/ Reembed(d)
         \/ \E mode \in {"full", "lex"} : Begin(mode, TRUE, Doc)
         \/ Begin("full", FALSE, Pending) \/ \E d \in Doc : Begin("full", FALSE, {d})
         \/ End \/ (\E m \in Model : Rebuild(m)) \/ ReembedFails \/ Persist \/ Remake
         \/ Query
  PROVE  GInv'
  <1> USE DEF GInv, IndexShape
  <1>1. ASSUME NEW d \in Doc, Edit(d)
        PROVE  GInv'
    <2>1. UNCHANGED <<engine, meta, lex, draft, stray>>
      BY <1>1 DEF Edit, stores, redb, keyword
    <2>2. EngineIsRecord'
      BY <2>1 DEF EngineIsRecord
    <2>3. edits' \in Nat /\ file' \in [Doc -> Nat]
      <3>1. edits' \in Nat /\ \E c \in Nat : file' = [file EXCEPT ![d] = c]
        <4>1. edits \in Nat
          OBVIOUS
        <4>2. CASE edits' = edits + 1 /\ file' = [file EXCEPT ![d] = edits + 1]
          <5>1. edits + 1 \in Nat
            BY ONLY <4>1
          <5> QED BY ONLY <4>2, <5>1
        <4>3. ASSUME NEW c \in 1..edits, file' = [file EXCEPT ![d] = c], edits' = edits
              PROVE  edits' \in Nat /\ \E n \in Nat : file' = [file EXCEPT ![d] = n]
          <5>1. c \in Nat
            BY ONLY <4>1, <4>3
          <5> QED BY ONLY <4>1, <4>3, <5>1
        <4>4. CASE edits' = edits /\ file' = [file EXCEPT ![d] = 0]
          <5>1. 0 \in Nat
            OBVIOUS
          <5> QED BY ONLY <4>1, <4>4, <5>1
        <4> QED BY <1>1, <4>2, <4>3, <4>4 DEF Edit
      <3>2. file \in [Doc -> Nat]
        OBVIOUS
      <3> QED BY ONLY <3>1, <3>2
    <2> QED BY <2>1, <2>2, <2>3, QuietStep
  <1>2. ASSUME NEW d \in Doc, Skip(d)
        PROVE  GInv'
    <2>1. UNCHANGED <<meta, lex, draft, stray, file, edits>> /\ engine.steps = <<>>
      BY <1>2 DEF Skip, Working, stores, redb, keyword
    <2>2. /\ EngineIsRecord' /\ engine'.steps = engine.steps /\ engine'.at = engine.at
          /\ engine'.doc = engine.doc /\ engine'.text = engine.text
          /\ engine'.todo \subseteq engine.todo
      BY <1>2 DEF Skip, EngineIsRecord
    <2> QED BY <2>1, <2>2, QuietStep
  <1>3. ASSUME NEW d \in Doc, Take(d)
        PROVE  GInv'
    <2> DEFINE s == IF file[d] = 0 THEN RemoveSteps \o <<"drop">>
                    ELSE RemoveSteps \o IndexSteps \o HashSteps
    <2>1. /\ EngineIsRecord' /\ engine'.at = "reindexing" /\ engine'.doc = d
          /\ engine'.text = file[d] /\ engine'.todo = engine.todo /\ engine'.steps = s
          /\ UNCHANGED <<meta, lex, draft, stray, file, edits>> /\ engine.steps = <<>>
      BY <1>3 DEF Take, Working, EngineIsRecord, stores, redb, keyword
    <2>2. /\ InOrder(s) /\ s # <<>> /\ Head(s) = "unlex" /\ EmbedFollowed(s)
          /\ file[d] = 0 => NoRecord(s)
      BY DropSteps, WriteSteps
    <2> HIDE DEF s
    <2>3. IndexShape'
      BY <2>1, <2>2
    <2>4. Midway'
      BY <2>1, <2>2 DEF Midway
    <2>5. NoGhostHits' /\ NoGhostDraft'
      BY <2>1, <2>2 DEF NoGhostHits, NoGhostDraft, Adding
    <2> QED BY <2>3, <2>4, <2>5
  <1>4. ASSUME NEW mode, NEW whole, NEW docs \in SUBSET Doc, Begin(mode, whole, docs)
        PROVE  GInv'
    <2>1. /\ EngineIsRecord' /\ engine'.steps = engine.steps /\ engine'.todo = docs
          /\ engine'.at = "reindexing" /\ engine'.text = engine.text
          /\ UNCHANGED <<meta, lex, draft, stray, file, edits>>
      BY <1>4 DEF Begin, EngineIsRecord, keyword
    <2>2. engine.steps = <<>>
      BY <1>4 DEF Begin, Midway
    <2> QED BY <2>1, <2>2, QuietStep
  <1>5. CASE End
    <2>1. /\ UNCHANGED <<meta, lex, draft, stray, file, edits>> /\ engine' = Ready
          /\ engine.steps = <<>>
      BY <1>5 DEF End, keyword
    <2>2. EngineIsRecord'
      BY <2>1 DEF EngineIsRecord, Ready, Closed
    <2> QED BY <2>1, <2>2, Engines, QuietStep
  <1>6. CASE ReembedFails \/ Persist
    <2>1. UNCHANGED <<meta, file, edits>> /\ Discard /\ engine' = Closed
      BY <1>6 DEF ReembedFails, Persist, redb
    <2> QED BY <2>1, DiscardStep
  <1>7. ASSUME NEW m \in Model, Rebuild(m)
        PROVE  GInv'
    <2>1. /\ EngineIsRecord' /\ engine'.steps = engine.steps /\ engine'.at = "rebuilding"
          /\ engine'.text = engine.text /\ engine'.todo \subseteq Doc
          /\ UNCHANGED <<meta, lex, draft, stray, file, edits>>
      BY <1>7 DEF Rebuild, redb, keyword, EngineIsRecord
    <2>2. engine.steps = <<>>
      BY <1>7 DEF Rebuild, Midway
    <2> QED BY <2>1, <2>2, QuietStep
  <1>8. ASSUME NEW d \in Doc, Reembed(d)
        PROVE  GInv'
    <2>1. UNCHANGED <<meta, lex, draft, stray, file, edits>>
      BY <1>8 DEF Reembed, redb, keyword
    <2>2. /\ EngineIsRecord' /\ engine'.steps = engine.steps /\ engine'.at = engine.at
          /\ engine'.doc = engine.doc /\ engine'.text = engine.text
          /\ engine'.todo \subseteq engine.todo
      BY <1>8 DEF Reembed, EngineIsRecord
    <2> QED BY <2>1, <2>2, QuietStep
  <1>9. CASE Query \/ Remake
    <2>1. UNCHANGED <<engine, meta, lex, draft, stray, file, edits>>
      BY <1>9 DEF Query, Remake, stores, redb, keyword
    <2>2. EngineIsRecord'
      BY <2>1 DEF EngineIsRecord
    <2> QED BY <2>1, <2>2, QuietStep
  <1>10. (\E mode \in {"full", "lex"} : Begin(mode, TRUE, Doc)) => GInv'
    <2>1. Doc \in SUBSET Doc
      OBVIOUS
    <2> QED BY ONLY <1>4, <2>1
  <1>11. Begin("full", FALSE, Pending) => GInv'
    <2>1. Pending \in SUBSET Doc
      BY DEF Pending
    <2> QED BY ONLY <1>4, <2>1
  <1>12. (\E d \in Doc : Begin("full", FALSE, {d})) => GInv'
    <2> SUFFICES ASSUME NEW d \in Doc, Begin("full", FALSE, {d}) PROVE GInv'
      OBVIOUS
    <2>1. {d} \in SUBSET Doc
      OBVIOUS
    <2> QED BY ONLY <1>4, <2>1, Begin("full", FALSE, {d})
  <1>13. (\E d \in Doc : Edit(d) \/ Skip(d) \/ Take(d) \/ Reembed(d)) => GInv'
    BY ONLY <1>1, <1>2, <1>3, <1>8
  <1>14. (\E m \in Model : Rebuild(m)) => GInv'
    BY ONLY <1>7
  <1> QED BY <1>5, <1>6, <1>9, <1>10, <1>11, <1>12, <1>13, <1>14

LEMMA ForceStep ==
  ASSUME GInv, ForceReindex \/ Wipe
  PROVE  GInv'
  <1> USE DEF GInv, IndexShape
  <1>1. CASE ForceReindex
    <2> DEFINE s == <<"lex", "vectors", "redb", "marker">>
    <2>a. engine' = [at |-> "forcing", mode |-> "none", whole |-> FALSE, todo |-> {},
                     doc |-> "none", text |-> 0, steps |-> s, model |-> FirstModel]
      <3>1. engine' = [Closed EXCEPT !.at = "forcing", !.steps = s]
        BY <1>1 DEF ForceReindex
      <3> HIDE DEF s
      <3> QED BY ONLY <3>1 DEF Closed
    <2>b. UNCHANGED <<meta, lex, draft, stray, file, edits>> /\ draft = lex /\ engine.at = "closed"
      BY <1>1 DEF ForceReindex, stores, redb, keyword, Midway
    <2>1. /\ EngineIsRecord' /\ engine'.steps = s /\ engine'.at = "forcing" /\ engine'.text = 0
          /\ engine'.todo = {}
      <3> HIDE DEF s
      <3> QED BY ONLY <2>a DEF EngineIsRecord
    <2>2. InOrder(s) /\ s # <<>> /\ Head(s) = "lex"
      BY WipeSteps
    <2> HIDE DEF s
    <2>3. IndexShape' /\ NoGhostHits' /\ NoGhostDraft'
      BY <2>b, <2>1, <2>2 DEF NoGhostHits, NoGhostDraft, Adding
    <2>4. Midway'
      BY <2>b, <2>1, <2>2 DEF Midway
    <2> QED BY <2>3, <2>4
  <1>2. CASE Wipe
    <2> DEFINE next == Head(engine.steps)
    <2>1. /\ engine.at = "forcing" /\ engine.steps # <<>> /\ UNCHANGED <<file, edits>>
          /\ next \in {"lex", "vectors", "redb", "marker"}
      BY <1>2 DEF Wipe, Wiping, Midway
    <2>2. /\ meta' = meta \/ meta' = Blank
          /\ next = "lex" => lex' = Empty /\ draft' = Empty /\ stray' = {} /\ meta' = meta
          /\ next # "lex" => UNCHANGED <<lex, draft, stray>> /\ \A d \in Doc : lex[d] = <<>>
      <3>1. CASE next = "lex"
        BY <1>2, <2>1, <3>1 DEF Wipe, Wiping, Replace, redb
      <3>2. CASE next # "lex"
        <4>1. (meta' = meta \/ meta' = Blank) /\ UNCHANGED <<lex, draft, stray>>
          BY <1>2, <2>1, <3>2 DEF Wipe, Wiping, redb, keyword
        <4>2. \A d \in Doc : lex[d] = <<>>
          BY <2>1, <3>2 DEF Midway
        <4> QED BY <3>2, <4>1, <4>2
      <3> QED BY <3>1, <3>2
    <2>a. draft = lex
      BY <2>1 DEF Midway
    <2>3. /\ meta' \in [Doc -> Nat] /\ lex' \in [Doc -> Seq(Nat)] /\ draft' = lex'
          /\ stray' \subseteq Doc /\ \A d \in Doc : lex'[d] = <<>>
      <3>1. meta \in [Doc -> Nat] /\ lex \in [Doc -> Seq(Nat)] /\ stray \subseteq Doc
        OBVIOUS
      <3>2. meta' \in [Doc -> Nat]
        BY ONLY <2>2, <3>1 DEF Blank
      <3> HIDE DEF next
      <3>3. CASE next = "lex"
        <4>1. lex' = Empty /\ draft' = Empty /\ stray' = {}
          BY ONLY <2>2, <3>3
        <4> QED BY ONLY <3>2, <4>1, EmptyTyped
      <3>4. CASE next # "lex"
        BY ONLY <2>2, <2>a, <3>1, <3>2, <3>4
      <3> QED BY ONLY <3>3, <3>4
    <2>4. NoGhostHits' /\ NoGhostDraft'
      BY <2>3 DEF NoGhostHits, NoGhostDraft
    <2>5. CASE engine' = Closed
      <3>1. EngineIsRecord'
        BY <2>5 DEF EngineIsRecord, Closed
      <3>2. Midway'
        BY <2>3, <2>5, Engines DEF Midway
      <3>3. IndexShape'
        BY <2>1, <2>3, <2>5, <3>1, Engines, NoSteps
      <3> QED BY <2>4, <3>2, <3>3
    <2>6. CASE Len(engine.steps) # 1 /\ engine' = [engine EXCEPT !.steps = Tail(engine.steps)]
      <3>1. /\ EngineIsRecord' /\ engine'.steps = Tail(engine.steps) /\ engine'.at = "forcing"
            /\ engine'.text = engine.text /\ engine'.todo = engine.todo
        BY <2>1, <2>6 DEF EngineIsRecord
      <3>2. InOrder(engine'.steps) /\ engine'.steps # <<>>
        <4>1. engine.steps \in Seq(Step) /\ InOrder(Tail(engine.steps))
          BY <2>1, TailInOrder DEF InOrder
        <4>2. Len(engine.steps) \in Nat \ {0} /\ Len(Tail(engine.steps)) = Len(engine.steps) - 1
          BY <2>1, <4>1, HeadIsFirst, HeadTailProperties
        <4>3. Len(Tail(engine.steps)) \in Nat \ {0}
          BY ONLY <2>6, <4>2
        <4>4. Tail(engine.steps) # <<>>
          <5>1. Len(<<>>) = 0
            OBVIOUS
          <5> QED BY ONLY <4>3, <5>1
        <4> QED BY ONLY <3>1, <4>1, <4>4
      <3>3. Midway'
        BY <2>3, <3>1, <3>2 DEF Midway
      <3> QED BY <2>1, <2>3, <2>4, <3>1, <3>2, <3>3
    <2> QED BY <1>2, <2>5, <2>6 DEF Wipe
  <1> QED BY <1>1, <1>2

LEMMA IndexInvariance == IndexSpec => []GInv
  <1>1. GInv /\ [IndexNext]_indexVars => GInv'
    <2> SUFFICES ASSUME GInv, [IndexNext]_indexVars PROVE GInv'
      OBVIOUS
    <2>1. CASE UNCHANGED indexVars
      <3>1. UNCHANGED <<engine, meta, lex, draft, stray, file, edits>>
        BY <2>1 DEF indexVars, stores, redb, keyword
      <3>2. EngineIsRecord'
        BY <3>1 DEF EngineIsRecord, GInv, IndexShape
      <3> QED BY <3>1, <3>2, QuietStep DEF GInv, IndexShape
    <2> QED BY <2>1, OpeningStep, DocumentStep, FailingStep, PassStep, ForceStep
         DEF IndexNext, Failing
  <1> QED BY IndexInitInv, <1>1, PTL DEF IndexSpec

\* Of any documents, and wherever a reindex, a rebuild or a forced wipe is
\* killed or one of its writes fails: a document comes to have two entries in
\* the keyword index, or one that engine.redb does not know, only where
\* index_doc fails with the entry added and engine.redb not committed
\* (index_doc_mode, whose error reindex_all swallows).
THEOREM NoGhosts == IndexSpec => []NoGhostHits
  <1>1. GInv => NoGhostHits
    BY DEF GInv
  <1> QED BY <1>1, IndexInvariance, PTL

-----------------------------------------------------------------------------
(* The memo.  A query is stored under the generation and the id of the      *)
(* index; a reindex moves the generation before its first change, and an    *)
(* index that is made again gets an id that no query was ever stored under. *)

Opened == engine.at \notin {"closed", "forcing"}

\* Where the engine is tells what became of the stores.
Positions ==
  /\ engine.at \in {"ready", "reindexing", "rebuilding"} => ~marker
  /\ engine.at = "wiping" => marker
  /\ engine.at \in {"unmarking", "forcing", "rebuilding"} => remade
  /\ engine.at \in {"marking", "wiping"} => oldSchema
  /\ engine.at \in {"refilling", "unmarking", "ready", "reindexing", "rebuilding"} => ~oldSchema

\* A rebuild that is pending has something to restore, or nothing to lose.
Restorable == marker /\ ~oldSchema /\ meta = Blank => \A d \in Doc : lex[d] = <<>>

\* No query is stored under a generation still to come, nor under the one of
\* a reindex that is under way.
Counters ==
  /\ generation \in Nat /\ instance \in Nat /\ minted \in Nat
  /\ memo.generation \in Nat /\ memo.instance \in Nat
  /\ instance <= minted /\ memo.instance <= minted
  /\ Opened => instance # 0
  /\ memo.instance = instance /\ instance # 0 => memo.generation <= generation
  /\ engine.at = "reindexing" /\ memo.instance = instance => memo.generation < generation

\* The marker stands until the keyword index is made again.
StoredIsFresh == instance # 0 /\ Hit /\ ~remade /\ ~marker => memo.answer = Answer

MemoInv == Positions /\ Restorable /\ Counters /\ StoredIsFresh

Remade == [d \in Doc |-> IF meta[d] = 0 THEN <<>> ELSE <<meta[d]>>]
Refused == meta = Blank /\ \E d \in Doc : lex[d] # <<>>

\* Where the steps of the engine lead.
LEMMA AtOpening ==
  ASSUME GInv
  PROVE  /\ Upgrade => engine' = engine
         /\ Open => /\ engine.at = "closed"
                    /\ engine'.at \in {"marking", "refilling", "ready"}
                    /\ engine'.at = "ready" => ~marker
                    /\ engine'.at = "marking" <=> oldSchema
         /\ Mark => engine.at = "marking" /\ engine'.at = "wiping"
         /\ WipeOld => engine.at = "wiping" /\ engine'.at = "refilling"
         /\ Refill => /\ engine.at = "refilling"
                      /\ \/ engine'.at = "unmarking" /\ remade' /\ Replace(Remade)
                         \/ engine'.at = "ready" /\ UNCHANGED <<keyword, remade>> /\ Refused
         /\ Unmark => engine.at = "unmarking" /\ engine'.at = "ready"
         /\ FixLex => engine.at = "ready" /\ engine'.at = "refilling"
         /\ Close \/ Kill => engine.at # "closed" /\ engine'.at = "closed"
<1>0. EngineIsRecord BY DEF GInv, IndexShape
<1>1. Upgrade => engine' = engine BY DEF Upgrade
<1>2. Open => /\ engine.at = "closed"
              /\ engine'.at \in {"marking", "refilling", "ready"}
              /\ engine'.at = "ready" => ~marker
              /\ engine'.at = "marking" <=> oldSchema
  BY DEF Open, Ready, Closed, RebuildPending
<1>3. /\ Mark => engine.at = "marking" /\ engine'.at = "wiping"
      /\ WipeOld => engine.at = "wiping" /\ engine'.at = "refilling"
      /\ FixLex => engine.at = "ready" /\ engine'.at = "refilling"
  BY <1>0 DEF Mark, WipeOld, FixLex, EngineIsRecord
<1>4. Refill => /\ engine.at = "refilling"
                /\ \/ engine'.at = "unmarking" /\ remade' /\ Replace(Remade)
                   \/ engine'.at = "ready" /\ UNCHANGED <<keyword, remade>> /\ Refused
  <2>1. Refill => /\ engine.at = "refilling"
                  /\ \/ engine' = [engine EXCEPT !.at = "unmarking"] /\ remade' /\ Replace(Remade)
                     \/ engine' = Ready /\ UNCHANGED <<keyword, remade>> /\ Refused
    BY Zenon DEF Refill, Refused, Remade
  <2> QED BY <1>0, <2>1 DEF EngineIsRecord, Ready, Closed
<1>5. /\ Unmark => engine.at = "unmarking" /\ engine'.at = "ready"
      /\ Close \/ Kill => engine.at # "closed" /\ engine'.at = "closed"
  BY DEF Unmark, Close, Kill, Ready, Closed
<1> QED BY <1>1, <1>2, <1>3, <1>4, <1>5

LEMMA AtPass ==
  ASSUME GInv
  PROVE  /\ \A mode, whole, docs : Begin(mode, whole, docs) =>
              engine.at = "ready" /\ engine'.at = "reindexing"
         /\ \A d : Skip(d) \/ Take(d) => engine.at = "reindexing" /\ engine'.at = "reindexing"
         /\ Unlex \/ Forget \/ Embed \/ Record \/ Publish \/ Hash =>
              engine.at = "reindexing" /\ engine'.at = "reindexing"
         /\ Failing => engine.at = "reindexing" /\ engine'.at \in {"reindexing", "ready"}
         /\ End => engine.at = "reindexing" /\ engine'.at = "ready"
<1>0. EngineIsRecord BY DEF GInv, IndexShape
<1>1. \A mode, whole, docs : Begin(mode, whole, docs) =>
              engine.at = "ready" /\ engine'.at = "reindexing"
  BY <1>0 DEF Begin, EngineIsRecord
<1>2. \A d : Skip(d) \/ Take(d) => engine.at = "reindexing" /\ engine'.at = "reindexing"
  BY <1>0 DEF Skip, Take, Working, EngineIsRecord
<1>3. Advance => engine'.at = engine.at BY <1>0 DEF Advance, EngineIsRecord
<1>4. Unlex \/ Forget \/ Embed \/ Record \/ Publish \/ Hash =>
              engine.at = "reindexing" /\ engine'.at = "reindexing"
  BY <1>3 DEF Unlex, Forget, Embed, Record, Publish, Hash, At
<1>5. Failing => engine.at = "reindexing" /\ engine'.at \in {"reindexing", "ready"}
  <2>1. GiveUp /\ engine.at = "reindexing" => engine'.at \in {"reindexing", "ready"}
    BY <1>0 DEF GiveUp, EngineIsRecord, Ready, Closed
  <2>2. Failing => engine.at = "reindexing" /\ GiveUp
    BY DEF Failing, UnlexFails, EmbedFails, Strand, PublishFails, StepFails, At
  <2> QED BY <2>1, <2>2
<1>6. End => engine.at = "reindexing" /\ engine'.at = "ready" BY DEF End, Ready, Closed
<1> QED BY <1>1, <1>2, <1>4, <1>5, <1>6

LEMMA AtSwitch ==
  ASSUME GInv
  PROVE  /\ \A m : Rebuild(m) => engine.at = "ready" /\ engine'.at = "rebuilding"
         /\ Remake \/ (\E d \in Doc : Reembed(d)) =>
              engine.at = "rebuilding" /\ engine'.at = "rebuilding"
         /\ ReembedFails \/ Persist => engine.at = "rebuilding" /\ engine'.at = "closed"
         /\ ForceReindex => engine.at = "closed" /\ engine'.at = "forcing"
         /\ Wipe => engine.at = "forcing" /\ engine'.at \in {"forcing", "closed"}
<1>0. EngineIsRecord BY DEF GInv, IndexShape
<1>1. \A m : Rebuild(m) => engine.at = "ready" /\ engine'.at = "rebuilding"
  BY <1>0 DEF Rebuild, EngineIsRecord
<1>2. Remake \/ (\E d \in Doc : Reembed(d)) =>
              engine.at = "rebuilding" /\ engine'.at = "rebuilding"
  BY <1>0 DEF Remake, Reembed, EngineIsRecord
<1>3. ReembedFails \/ Persist => engine.at = "rebuilding" /\ engine'.at = "closed"
  BY DEF ReembedFails, Persist, Closed
<1>4. ForceReindex => engine.at = "closed" /\ engine'.at = "forcing" BY DEF ForceReindex, Closed
<1>5. Wipe => engine.at = "forcing" /\ engine'.at \in {"forcing", "closed"}
  BY <1>0 DEF Wipe, Wiping, EngineIsRecord, Closed
<1> QED BY <1>1, <1>2, <1>3, <1>4, <1>5

LEMMA PositionsStep ==
  ASSUME GInv, Positions, Restorable, [IndexNext]_indexVars
  PROVE  Positions'
<1> USE DEF Positions
<1>1. CASE UNCHANGED indexVars \/ (\E d \in Doc : Edit(d)) \/ Query
  <2>1. UNCHANGED <<engine, marker, oldSchema, remade>>
    BY <1>1 DEF indexVars, stores, Edit, Query
  <2> QED BY <2>1
<1>7. CASE Upgrade
  <2>1. UNCHANGED <<engine, marker, remade>> /\ engine.at = "closed"
    BY <1>7 DEF Upgrade
  <2> QED BY <2>1
<1>2. CASE Open \/ Mark \/ WipeOld \/ Refill \/ Unmark \/ FixLex \/ Close \/ Kill
  <2>1. Open => UNCHANGED <<marker, oldSchema, remade>> BY DEF Open
  <2>2. Mark => marker' /\ UNCHANGED <<oldSchema, remade>> BY DEF Mark
  <2>3. FixLex \/ Close \/ Kill => UNCHANGED <<marker, oldSchema, remade>>
    BY DEF FixLex, Close, Kill, stores
  <2>4. WipeOld => UNCHANGED <<marker, remade>> /\ ~oldSchema'
    BY DEF WipeOld
  <2>5. Refill => UNCHANGED <<marker, oldSchema>> BY DEF Refill
  <2>6. Unmark => ~marker' /\ UNCHANGED <<oldSchema, remade>> BY DEF Unmark
  <2>7. Refill /\ engine'.at = "ready" => ~marker
    BY AtOpening DEF Refused, Restorable
  <2>8. CASE Open BY <2>1, <2>8, AtOpening
  <2>9. CASE Mark BY <2>2, <2>9, AtOpening
  <2>10. CASE FixLex \/ Close \/ Kill BY <2>3, <2>10, AtOpening
  <2>11. CASE WipeOld BY <2>4, <2>11, AtOpening
  <2>12. CASE Refill BY <2>5, <2>7, <2>12, AtOpening
  <2>13. CASE Unmark BY <2>6, <2>13, AtOpening
  <2> QED BY <1>2, <2>8, <2>9, <2>10, <2>11, <2>12, <2>13
<1>3. ASSUME NEW mode, NEW whole, NEW docs, Begin(mode, whole, docs) PROVE Positions'
  <2>1. UNCHANGED <<marker, oldSchema>> BY <1>3 DEF Begin
  <2> QED BY <1>3, <2>1, AtPass
<1>4. CASE (\E d \in Doc : Skip(d) \/ Take(d)) \/ Unlex \/ Forget \/ Embed \/ Record \/ Publish
           \/ Hash \/ Failing \/ End
  <2>1. UNCHANGED <<marker, oldSchema, remade>>
    <3>1. (\E d \in Doc : Skip(d) \/ Take(d)) \/ Hash \/ End \/ Forget \/ Record =>
            UNCHANGED <<marker, oldSchema, remade>>
      BY DEF Skip, Take, Hash, End, stores, Forget, Record
    <3>2. Unlex \/ Embed \/ Publish => UNCHANGED <<marker, oldSchema, remade>>
      BY DEF Unlex, Embed, Publish
    <3>3. Failing => UNCHANGED <<marker, oldSchema, remade>>
      BY DEF Failing, UnlexFails, EmbedFails, Strand, PublishFails, StepFails, stores
    <3> QED BY <1>4, <3>1, <3>2, <3>3
  <2> QED BY <1>4, <2>1, AtPass
<1>5. CASE (\E m \in Model : Rebuild(m)) \/ Remake \/ (\E d \in Doc : Reembed(d)) \/ ReembedFails
           \/ Persist \/ ForceReindex
  <2>1. UNCHANGED <<marker, oldSchema>>
    BY <1>5 DEF Rebuild, Remake, Reembed, ReembedFails, Persist, ForceReindex, stores
  <2>2. (\E m \in Model : Rebuild(m)) \/ ForceReindex => remade' BY DEF Rebuild, ForceReindex
  <2>3. Remake \/ (\E d \in Doc : Reembed(d)) => remade' = remade BY DEF Remake, Reembed
  <2> QED BY <1>5, <2>1, <2>2, <2>3, AtSwitch
<1>6. CASE Wipe
  <2>1. remade' = remade BY <1>6 DEF Wipe
  <2> QED BY <1>6, <2>1, AtSwitch
<1> QED BY <1>1, <1>2, <1>3, <1>4, <1>5, <1>6, <1>7 DEF IndexNext, Failing

\* The forced wipe begins with the keyword index.
LEMMA WipedLex == ASSUME GInv, Wipe PROVE \A d \in Doc : lex'[d] = <<>>
<1>1. CASE Wiping("lex")
  <2>1. lex' = Empty BY <1>1 DEF Wipe, Wiping, Replace
  <2> QED BY <2>1 DEF Empty
<1>2. CASE ~Wiping("lex")
  <2>1. /\ engine.at = "forcing" /\ engine.steps # <<>> /\ lex' = lex
        /\ Head(engine.steps) \in {"vectors", "redb", "marker"}
    BY <1>2 DEF Wipe, Wiping, keyword, GInv, Midway
  <2> QED BY <2>1 DEF GInv, Midway
<1> QED BY <1>1, <1>2

LEMMA RestorableStep ==
  ASSUME GInv, Positions, Positions', Restorable, [IndexNext]_indexVars
  PROVE  Restorable'
<1>1. ASSUME engine'.at \in {"ready", "reindexing", "rebuilding"} PROVE Restorable'
  BY <1>1 DEF Positions, Restorable
<1>2. ASSUME UNCHANGED <<marker, oldSchema, meta, lex>> PROVE Restorable'
  BY <1>2 DEF Restorable
<1>3. CASE UNCHANGED indexVars \/ (\E d \in Doc : Edit(d)) \/ Query \/ FixLex
  <2>1. UNCHANGED <<marker, oldSchema, meta, lex>>
    BY <1>3 DEF indexVars, stores, redb, keyword, Edit, Query, FixLex
  <2> QED BY <1>2, <2>1
<1>4. CASE Open \/ Close \/ Kill \/ ReembedFails \/ Persist \/ ForceReindex
  <2>1. Open => UNCHANGED <<marker, oldSchema, meta, lex>> BY DEF Open, keyword
  <2>2. Close \/ Kill => UNCHANGED <<marker, oldSchema, meta, lex>>
    BY DEF Close, Kill, Discard, redb
  <2>3. ReembedFails \/ Persist => UNCHANGED <<marker, oldSchema, meta, lex>>
    BY DEF ReembedFails, Persist, Discard, redb
  <2>4. ForceReindex => UNCHANGED <<marker, oldSchema, meta, lex>>
    BY DEF ForceReindex, stores, redb, keyword
  <2> QED BY <1>2, <1>4, <2>1, <2>2, <2>3, <2>4
<1>5. CASE Upgrade \/ Mark
  <2>1. oldSchema' BY <1>5 DEF Upgrade, Mark, Positions
  <2> QED BY <2>1 DEF Restorable
<1>6. CASE WipeOld
  <2>1. lex' = Empty BY <1>6 DEF WipeOld, Replace
  <2> QED BY <2>1 DEF Restorable, Empty
<1>7. CASE Refill
  <2>0. UNCHANGED <<marker, oldSchema, meta>> BY <1>7 DEF Refill, redb
  <2>1. CASE UNCHANGED keyword
    BY <1>2, <2>0, <2>1 DEF keyword
  <2>2. CASE Replace(Remade)
    <3>1. lex' = Remade BY <2>2 DEF Replace
    <3> QED BY <2>0, <3>1 DEF Restorable, Remade, Blank
  <2> QED BY <1>7, <2>1, <2>2, AtOpening
<1>8. CASE Unmark
  BY <1>1, <1>8, AtOpening
<1>9. CASE Wipe
  BY <1>9, WipedLex DEF Restorable
<1>10. CASE (\E d \in Doc : Skip(d) \/ Take(d)) \/ Unlex \/ Forget \/ Embed \/ Record \/ Publish
            \/ Hash \/ Failing \/ End
  BY <1>1, <1>10, AtPass
<1>11. ASSUME NEW mode, NEW whole, NEW docs, Begin(mode, whole, docs) PROVE Restorable'
  BY <1>1, <1>11, AtPass
<1>12. CASE (\E m \in Model : Rebuild(m)) \/ Remake \/ (\E d \in Doc : Reembed(d))
  BY <1>1, <1>12, AtSwitch
<1> QED BY <1>3, <1>4, <1>5, <1>6, <1>7, <1>8, <1>9, <1>10, <1>11, <1>12 DEF IndexNext, Failing

LEMMA CountersStep ==
  ASSUME GInv, Counters, [IndexNext]_indexVars
  PROVE  Counters'
<1>1. ASSUME UNCHANGED <<generation, instance, minted, memo>>,
             Opened' => Opened, engine'.at = "reindexing" => engine.at = "reindexing"
      PROVE  Counters'
  BY <1>1 DEF Counters
<1>2. CASE UNCHANGED indexVars \/ (\E d \in Doc : Edit(d)) \/ Upgrade
  <2>1. UNCHANGED <<generation, instance, minted, memo, engine>>
    BY <1>2 DEF indexVars, stores, redb, Edit, Upgrade
  <2> QED BY <1>1, <2>1 DEF Opened
<1>3. CASE Mark \/ WipeOld \/ Refill \/ Unmark \/ FixLex \/ Close \/ Kill
  <2>1. UNCHANGED <<generation, instance, minted, memo>>
    BY <1>3 DEF Mark, WipeOld, Refill, Unmark, FixLex, Close, Kill, stores, redb
  <2> QED BY <1>1, <1>3, <2>1, AtOpening DEF Opened
<1>4. CASE (\E d \in Doc : Skip(d) \/ Take(d)) \/ Unlex \/ Forget \/ Embed \/ Record \/ Publish
           \/ Hash \/ Failing
  <2>1. UNCHANGED <<generation, instance, minted, memo>>
    <3>1. (\E d \in Doc : Skip(d) \/ Take(d)) \/ Hash \/ Forget \/ Record =>
            UNCHANGED <<generation, instance, minted, memo>>
      BY DEF Skip, Take, Hash, Forget, Record, stores, redb
    <3>2. Unlex \/ Embed \/ Publish => UNCHANGED <<generation, instance, minted, memo>>
      BY DEF Unlex, Embed, Publish, redb
    <3>3. Failing => UNCHANGED <<generation, instance, minted, memo>>
      BY DEF Failing, UnlexFails, EmbedFails, Strand, PublishFails, StepFails, stores, redb
    <3> QED BY <1>4, <3>1, <3>2, <3>3
  <2> QED BY <1>1, <1>4, <2>1, AtPass DEF Opened
<1>5. CASE (\E m \in Model : Rebuild(m)) \/ Remake \/ (\E d \in Doc : Reembed(d)) \/ ReembedFails
           \/ Persist \/ ForceReindex
  <2>1. UNCHANGED <<generation, instance, minted, memo>>
    BY <1>5 DEF Rebuild, Remake, Reembed, ReembedFails, Persist, ForceReindex, stores, redb
  <2> QED BY <1>1, <1>5, <2>1, AtSwitch DEF Opened
<1>6. CASE Open
  <2>1. /\ UNCHANGED <<generation, memo>> /\ engine'.at # "reindexing"
        /\ IF instance = 0 THEN minted' = minted + 1 /\ instance' = minted + 1
                           ELSE minted' = minted /\ instance' = instance
    BY <1>6, AtOpening DEF Open
  <2> QED BY <2>1 DEF Counters
<1>7. ASSUME NEW mode, NEW whole, NEW docs, Begin(mode, whole, docs) PROVE Counters'
  <2>1. /\ generation' = generation + 1 /\ UNCHANGED <<instance, minted, memo>>
        /\ engine.at = "ready" /\ engine'.at = "reindexing"
    BY <1>7, AtPass DEF Begin, Bumped
  <2> QED BY <2>1 DEF Counters, Opened
<1>8. CASE End
  <2>1. /\ generation' = generation + 1 /\ UNCHANGED <<instance, minted, memo>>
        /\ engine.at = "reindexing" /\ engine'.at = "ready"
    BY <1>8, AtPass DEF End
  <2> QED BY <2>1 DEF Counters, Opened
<1>9. CASE Wipe
  <2>1. /\ UNCHANGED <<minted, memo>> /\ ~Opened' /\ engine'.at # "reindexing"
        /\ \/ UNCHANGED <<generation, instance>>
           \/ generation' = 0 /\ instance' = 0
    BY <1>9, AtSwitch DEF Wipe, redb, Opened
  <2> QED BY <2>1 DEF Counters
<1>10. CASE Query
  <2>1. /\ UNCHANGED <<generation, instance, minted, engine>> /\ engine.at = "ready"
        /\ memo'.generation = generation /\ memo'.instance = instance
    BY <1>10 DEF Query, stores, redb
  <2> QED BY <2>1 DEF Counters, Opened
<1> QED
  BY <1>2, <1>3, <1>4, <1>5, <1>6, <1>7, <1>8, <1>9, <1>10 DEF IndexNext, Failing

LEMMA StoredIsFreshStep ==
  ASSUME GInv, MemoInv, [IndexNext]_indexVars
  PROVE  StoredIsFresh'
<1> USE DEF MemoInv
\* Nothing that an answer is made of has changed.
<1>1. ASSUME UNCHANGED <<meta, lex, vec, generation, instance, memo, remade>>,
             ~marker' => ~marker
      PROVE  StoredIsFresh'
  <2>1. Answer' = Answer BY <1>1 DEF Answer
  <2> QED BY <1>1, <2>1 DEF StoredIsFresh, Hit
\* Nothing is claimed.
<1>2. ASSUME remade' \/ marker' \/ instance' = 0 \/ ~Hit' PROVE StoredIsFresh'
  BY <1>2 DEF StoredIsFresh
<1>3. CASE UNCHANGED indexVars \/ (\E d \in Doc : Edit(d) \/ Skip(d) \/ Take(d)) \/ Upgrade
           \/ FixLex \/ Close \/ Kill \/ Remake \/ ReembedFails \/ Persist
  <2>1. UNCHANGED indexVars \/ (\E d \in Doc : Edit(d) \/ Skip(d) \/ Take(d)) =>
          UNCHANGED <<meta, lex, vec, generation, instance, memo, remade, marker>>
    BY DEF indexVars, stores, redb, keyword, Edit, Skip, Take
  <2>2. Upgrade => UNCHANGED <<meta, lex, vec, generation, instance, memo, remade, marker>>
    BY DEF redb, keyword, Upgrade
  <2>3. Remake => UNCHANGED <<meta, lex, vec, generation, instance, memo, remade, marker>>
    BY DEF redb, keyword, Remake
  <2>4. FixLex => UNCHANGED <<meta, lex, vec, generation, instance, memo, remade, marker>>
    BY DEF FixLex, stores, redb, keyword
  <2>5. Close \/ Kill => UNCHANGED <<meta, lex, vec, generation, instance, memo, remade, marker>>
    BY DEF Close, Kill, Discard, redb
  <2>6. ReembedFails \/ Persist =>
          UNCHANGED <<meta, lex, vec, generation, instance, memo, remade, marker>>
    BY DEF ReembedFails, Persist, Discard, redb
  <2> QED BY <1>1, <1>3, <2>1, <2>2, <2>3, <2>4, <2>5, <2>6
<1>11. CASE Mark
  <2>1. UNCHANGED <<meta, lex, vec, generation, instance, memo, remade>> /\ marker'
    BY <1>11 DEF redb, keyword, Mark
  <2> QED BY <1>2, <2>1
<1>4. CASE Refill
  <2>1. CASE remade'
    BY <1>2, <2>1
  <2>2. CASE UNCHANGED <<keyword, remade>>
    <3>1. UNCHANGED <<meta, lex, vec, generation, instance, memo, remade, marker>>
      BY <1>4, <2>2 DEF Refill, redb, keyword
    <3> QED BY <1>1, <3>1
  <2> QED BY <1>4, <2>1, <2>2, AtOpening
<1>12. CASE (\E m \in Model : Rebuild(m)) \/ ForceReindex
  <2>1. remade' BY <1>12 DEF Rebuild, ForceReindex
  <2> QED BY <1>2, <2>1
<1>5. CASE Unmark \/ (\E d \in Doc : Reembed(d)) \/ Wipe
  <2>1. engine.at \in {"unmarking", "rebuilding", "forcing"} /\ remade' = remade
    BY <1>5, AtOpening, AtSwitch DEF Unmark, Reembed, Wipe
  <2> QED BY <1>2, <2>1 DEF Positions
<1>6. CASE WipeOld
  <2>1. engine.at = "wiping" /\ marker' = marker BY <1>6 DEF WipeOld
  <2> QED BY <1>2, <2>1 DEF Positions
<1>7. CASE Open
  <2>1. CASE instance = 0
    <3>1. instance' = minted + 1 /\ memo' = memo BY <1>7, <2>1 DEF Open
    <3>2. memo'.instance # instance' BY <3>1 DEF Counters
    <3> QED BY <1>2, <3>2 DEF Hit
  <2>2. CASE instance # 0
    <3>1. UNCHANGED <<meta, lex, vec, generation, instance, memo, remade, marker>>
      BY <1>7, <2>2 DEF Open, keyword
    <3> QED BY <1>1, <3>1
  <2> QED BY <2>1, <2>2
<1>8. ASSUME NEW mode, NEW whole, NEW docs, Begin(mode, whole, docs) PROVE StoredIsFresh'
  <2>1. generation' = generation + 1 /\ UNCHANGED <<instance, memo>> BY <1>8 DEF Begin, Bumped
  <2>2. instance' # 0 /\ memo.instance = instance => memo.generation < generation'
    BY <2>1 DEF Counters
  <2>3. instance' = 0 \/ ~Hit' BY <2>1, <2>2 DEF Counters, Hit
  <2> QED BY <1>2, <2>3
<1>9. CASE Unlex \/ Forget \/ Embed \/ Record \/ Publish \/ Hash \/ Failing \/ End
  <2>1. /\ UNCHANGED <<instance, memo>>
        /\ generation' = generation \/ generation' = generation + 1
    <3>1. Hash \/ Forget \/ Record \/ End =>
            /\ UNCHANGED <<instance, memo>>
            /\ generation' = generation \/ generation' = generation + 1
      BY DEF Hash, Forget, Record, End
    <3>2. Unlex \/ Embed \/ Publish => UNCHANGED <<generation, instance, memo>>
      BY DEF Unlex, Embed, Publish, redb
    <3>3. Failing => UNCHANGED <<generation, instance, memo>>
      BY DEF Failing, UnlexFails, EmbedFails, Strand, PublishFails, StepFails, stores, redb
    <3> QED BY <1>9, <3>1, <3>2, <3>3
  <2>2. engine.at = "reindexing" BY <1>9, AtPass
  <2>3. ~Hit' BY <2>1, <2>2 DEF Counters, Hit
  <2> QED BY <1>2, <2>3
<1>10. CASE Query
  <2>1. memo'.answer = Answer /\ UNCHANGED <<meta, lex, vec>> BY <1>10 DEF Query, stores, redb, keyword
  <2>2. Answer' = Answer BY <2>1 DEF Answer
  <2> QED BY <2>1, <2>2 DEF StoredIsFresh
<1> QED
  BY <1>3, <1>4, <1>5, <1>6, <1>7, <1>8, <1>9, <1>10, <1>11, <1>12 DEF IndexNext, Failing

LEMMA MemoInvAlways == IndexSpec => [](GInv /\ MemoInv)
<1>1. IndexInit => MemoInv
  BY DEF IndexInit, Closed, NoMemo, MemoInv, Positions, Restorable, Counters, StoredIsFresh, Opened
<1>2. GInv /\ MemoInv /\ [IndexNext]_indexVars => MemoInv'
  BY PositionsStep, RestorableStep, CountersStep, StoredIsFreshStep DEF MemoInv
<1> QED BY <1>1, <1>2, IndexInvariance, PTL DEF IndexSpec

\* A memoized answer that would be served is the one the index would give
\* (query_memo_key and the two bumps of a reindex), for any documents and any
\* queries, unless a store has been rebuilt since.
THEOREM MemosAreFresh == IndexSpec => []MemoFresh
<1>1. MemoInv => MemoFresh
  BY DEF MemoInv, Counters, Opened, Positions, StoredIsFresh, MemoFresh
<1> QED BY <1>1, MemoInvAlways, PTL

-----------------------------------------------------------------------------
(* Types.  A vector is made of the text that the engine is at, and an entry *)
(* too, so the types need the steps that are left to be those of the mode   *)
(* and the text.                                                            *)

\* Which actions write a variable.
LEMMA Writers ==
  ASSUME [IndexNext]_indexVars
  PROVE  /\ UNCHANGED <<file, edits>> \/ (\E d \in Doc : Edit(d))
         /\ UNCHANGED meta \/ Forget \/ Record \/ Wipe
         /\ UNCHANGED <<docHash, lexHash>> \/ Hash \/ Wipe
         /\ UNCHANGED lex \/ WipeOld \/ Refill \/ Unlex \/ Publish \/ Failing \/ Wipe
         /\ \/ UNCHANGED draft \/ draft' = lex \/ WipeOld \/ Refill \/ Unlex \/ Embed \/ Failing
            \/ Wipe
         /\ UNCHANGED oldSchema \/ Upgrade \/ WipeOld \/ Wipe
         /\ UNCHANGED marker \/ Mark \/ Unmark \/ Wipe
         /\ \/ UNCHANGED vec \/ Unlex \/ Embed \/ Failing \/ (\E m \in Model : Rebuild(m))
            \/ (\E d \in Doc : Reembed(d)) \/ Wipe
         /\ UNCHANGED width \/ Open \/ (\E m \in Model : Rebuild(m)) \/ Remake \/ Wipe
         /\ UNCHANGED embedModel \/ Persist
         /\ UNCHANGED undone \/ (\E m \in Model : Rebuild(m)) \/ Persist \/ Wipe
<1> DEFINE T == <<file, edits, meta, docHash, lexHash, lex, oldSchema, marker, vec, width,
                  embedModel, undone>>
           S == <<T, draft>>
<1>1. UNCHANGED indexVars \/ FixLex => UNCHANGED S
  BY DEF indexVars, stores, redb, keyword, FixLex
<1>2. Close \/ Kill \/ ReembedFails => UNCHANGED T /\ draft' = lex
  BY DEF Close, Kill, ReembedFails, Discard, redb
<1>a. (\E d \in Doc : Skip(d) \/ Take(d)) \/ ForceReindex \/ Query => UNCHANGED S
  BY DEF stores, redb, keyword, Skip, Take, ForceReindex, Query
<1>3. \A mode, whole, docs : Begin(mode, whole, docs) => UNCHANGED S BY DEF Begin, keyword
<1>4. End => UNCHANGED S BY DEF End, keyword
<1>5. (\E d \in Doc : Edit(d)) =>
        UNCHANGED <<meta, docHash, lexHash, lex, draft, oldSchema, marker, vec, width, embedModel,
                    undone>>
  BY DEF stores, redb, keyword, Edit
<1>6. Forget \/ Record =>
        UNCHANGED <<file, edits, docHash, lexHash, lex, draft, oldSchema, marker, vec, width,
                    embedModel, undone>>
  BY DEF Forget, Record, keyword
<1>7. Hash =>
        UNCHANGED <<file, edits, meta, lex, draft, oldSchema, marker, vec, width, embedModel, undone>>
  BY DEF Hash, keyword
<1>8. Publish =>
        UNCHANGED <<file, edits, meta, docHash, lexHash, draft, oldSchema, marker, vec, width,
                    embedModel, undone>>
  BY DEF Publish, redb
<1>b. Refill =>
        UNCHANGED <<file, edits, meta, docHash, lexHash, oldSchema, marker, vec, width, embedModel,
                    undone>>
  BY DEF Refill, redb
<1>9. WipeOld =>
        UNCHANGED <<file, edits, meta, docHash, lexHash, marker, vec, width, embedModel, undone>>
  BY DEF WipeOld, redb
<1>10. Upgrade =>
        UNCHANGED <<file, edits, meta, docHash, lexHash, lex, draft, marker, vec, width, embedModel,
                    undone>>
  BY DEF Upgrade, redb, keyword
<1>11. Mark \/ Unmark =>
        UNCHANGED <<file, edits, meta, docHash, lexHash, lex, draft, oldSchema, vec, width, embedModel,
                    undone>>
  BY DEF Mark, Unmark, redb, keyword
<1>12. Unlex =>
        UNCHANGED <<file, edits, meta, docHash, lexHash, oldSchema, marker, width, embedModel, undone>>
  BY DEF Unlex, redb
<1>13. Embed =>
        UNCHANGED <<file, edits, meta, docHash, lexHash, lex, oldSchema, marker, width, embedModel,
                    undone>>
  BY DEF Embed, redb
<1>c. (\E d \in Doc : Reembed(d)) =>
        UNCHANGED <<file, edits, meta, docHash, lexHash, lex, draft, oldSchema, marker, width,
                    embedModel, undone>>
  BY DEF Reembed, redb, keyword
<1>14. Open \/ Remake =>
        UNCHANGED <<file, edits, meta, docHash, lexHash, lex, draft, oldSchema, marker, vec,
                    embedModel, undone>>
  BY DEF Open, Remake, redb, keyword
<1>15. (\E m \in Model : Rebuild(m)) =>
        UNCHANGED <<file, edits, meta, docHash, lexHash, lex, draft, oldSchema, marker, embedModel>>
  BY DEF Rebuild, redb, keyword
<1>16. Persist =>
        /\ UNCHANGED <<file, edits, meta, docHash, lexHash, lex, oldSchema, marker, vec, width>>
        /\ draft' = lex
  BY DEF Persist, Discard, redb
<1>17. Wipe => UNCHANGED <<file, edits, embedModel>> BY DEF Wipe
<1>d. Failing =>
        UNCHANGED <<file, edits, meta, docHash, lexHash, oldSchema, marker, width, embedModel, undone>>
  BY DEF Failing, UnlexFails, EmbedFails, Strand, PublishFails, StepFails, stores, redb
<1> DEFINE Left == UNCHANGED T /\ draft' = lex
<1>18. \/ UNCHANGED S \/ Left \/ (\E d \in Doc : Edit(d)) \/ Forget \/ Record \/ Hash \/ Publish
       \/ Refill \/ WipeOld \/ Upgrade \/ Mark \/ Unmark \/ Unlex \/ Embed
       \/ (\E d \in Doc : Reembed(d)) \/ Open \/ Remake \/ (\E m \in Model : Rebuild(m)) \/ Persist
       \/ Wipe \/ Failing
  <2> HIDE DEF S, Left
  <2>1. Close \/ Kill \/ ReembedFails => Left BY <1>2 DEF Left
  <2> QED BY <1>1, <1>a, <1>3, <1>4, <2>1 DEF IndexNext, Failing
<1> QED
  BY ONLY <1>5, <1>6, <1>7, <1>8, <1>b, <1>9, <1>10, <1>11, <1>12, <1>13, <1>c, <1>14, <1>15, <1>16,
          <1>17, <1>d, <1>18

\* The steps of a document, and the last of them, which takes it off the list.
StepsOf(mode, text) ==
  IF text = 0 THEN {"unlex", "forget", "drop"}
  ELSE {"unlex", "forget", "embed", "record", "publish"} \union
       (IF mode = "full" THEN {"hash", "unhash"} ELSE {"lexhash"})
LastOf(mode, text) == IF text = 0 THEN "drop" ELSE IF mode = "full" THEN "unhash" ELSE "lexhash"

\* What is left of the steps for a text in a mode.
RestOf(s, mode, text) ==
  /\ s \in Seq(StepsOf(mode, text))
  /\ s[Len(s)] = LastOf(mode, text)

LEMMA TailIsRest ==
  ASSUME NEW s, NEW mode, NEW text, RestOf(s, mode, text), s # <<>>
  PROVE  /\ Head(s) \in StepsOf(mode, text)
         /\ Len(s) = 1 <=> Tail(s) = <<>>
         /\ Len(s) = 1 => Head(s) = LastOf(mode, text)
         /\ Len(s) # 1 => RestOf(Tail(s), mode, text)
<1> DEFINE S == StepsOf(mode, text)
<1>1. s \in Seq(S) /\ s[Len(s)] = LastOf(mode, text) BY DEF RestOf
<1> HIDE DEF S
<1>2. Head(s) = s[1] /\ Len(s) \in Nat \ {0} BY <1>1, HeadIsFirst
<1>3. /\ Tail(s) \in Seq(S) /\ Len(Tail(s)) = Len(s) - 1
      /\ \A i \in 1..Len(Tail(s)) : Tail(s)[i] = s[i + 1]
  BY <1>1, HeadTailProperties
<1>4. s[1] \in S BY <1>1, <1>2, ElementOfSeq
<1>5. Len(s) # 1 => Len(Tail(s)) \in 1..Len(Tail(s)) /\ Len(Tail(s)) + 1 = Len(s)
  BY ONLY <1>2, <1>3
<1>6. Len(s) # 1 => Tail(s)[Len(Tail(s))] = s[Len(s)] BY ONLY <1>3, <1>5
<1>7. Len(s) = 1 <=> Tail(s) = <<>>
  <2> DEFINE r == Tail(s)
  <2>1. r \in Seq(S) /\ Len(r) = Len(s) - 1 BY <1>3
  <2> HIDE DEF r
  <2>2. r = <<>> <=> Len(r) = 0 BY <2>1, EmptySeq
  <2> QED BY <1>2, <2>1, <2>2 DEF r
<1> QED BY <1>1, <1>2, <1>3, <1>4, <1>6, <1>7 DEF RestOf, S

LEMMA ConcatLast ==
  ASSUME NEW S, NEW s \in Seq(S), NEW t \in Seq(S), t # <<>>
  PROVE  s \o t \in Seq(S) /\ (s \o t)[Len(s \o t)] = t[Len(t)]
<1>1. Len(s) \in Nat /\ Len(t) \in Nat \ {0} BY HeadIsFirst
<1>2. /\ s \o t \in Seq(S) /\ Len(s \o t) = Len(s) + Len(t)
      /\ \A i \in 1..(Len(s) + Len(t)) : (s \o t)[i] = IF i <= Len(s) THEN s[i] ELSE t[i - Len(s)]
  BY ConcatProperties
<1>3. /\ Len(s) + Len(t) \in 1..(Len(s) + Len(t)) /\ ~(Len(s) + Len(t) <= Len(s))
      /\ (Len(s) + Len(t)) - Len(s) = Len(t)
  BY ONLY <1>1
<1> QED BY ONLY <1>2, <1>3

LEMMA WholePlan ==
  ASSUME engine.mode \in {"full", "lex"}
  PROVE  /\ RestOf(RemoveSteps \o <<"drop">>, engine.mode, 0)
         /\ \A text \in Nat \ {0} :
              RestOf(RemoveSteps \o IndexSteps \o HashSteps, engine.mode, text)
<1>1. RestOf(RemoveSteps \o <<"drop">>, engine.mode, 0)
  <2> DEFINE S == StepsOf(engine.mode, 0)
             x == <<"drop">>
  <2>1. RemoveSteps \in Seq(S) /\ x \in Seq(S)
    BY DEF RemoveSteps, StepsOf
  <2>2. x # <<>> /\ x[Len(x)] = "drop" OBVIOUS
  <2> HIDE DEF S, x
  <2> QED BY <2>1, <2>2, ConcatLast DEF RestOf, LastOf, S, x
<1>2. ASSUME NEW text \in Nat \ {0}
      PROVE  RestOf(RemoveSteps \o IndexSteps \o HashSteps, engine.mode, text)
  <2> DEFINE S == StepsOf(engine.mode, text)
             h == HashSteps
  <2>1. RemoveSteps \in Seq(S) /\ IndexSteps \in Seq(S) /\ IndexSteps # <<>>
    BY DEF RemoveSteps, IndexSteps, StepsOf
  <2>2. h \in Seq(S) /\ h # <<>> /\ h[Len(h)] = LastOf(engine.mode, text)
    <3>1. CASE engine.mode = "full"
      <4>1. h = <<"hash", "unhash">> /\ LastOf(engine.mode, text) = "unhash"
            /\ {"hash", "unhash"} \subseteq S
        BY <3>1 DEF HashSteps, StepsOf, LastOf
      <4> HIDE DEF S, h
      <4> QED BY ONLY <4>1
    <3>2. CASE engine.mode = "lex"
      <4>1. h = <<"lexhash">> /\ LastOf(engine.mode, text) = "lexhash" /\ "lexhash" \in S
        BY <3>2 DEF HashSteps, StepsOf, LastOf
      <4> HIDE DEF S, h
      <4> QED BY ONLY <4>1
    <3> QED BY <3>1, <3>2
  <2> HIDE DEF S, h
  <2>3. RemoveSteps \o IndexSteps \in Seq(S) BY <2>1, ConcatLast
  <2> QED BY <2>2, <2>3, ConcatLast DEF RestOf, S, h
<1> QED BY <1>1, <1>2

Rested ==
  /\ engine.mode = "none" /\ engine.model = FirstModel /\ engine.text = 0
  /\ engine.todo = {} /\ engine.steps = <<>>

Fields == <<engine.mode, engine.model, engine.text, engine.todo, engine.steps, engine.doc>>

\* What the steps leave of the engine's fields.
LEMMA FieldsAtOpening ==
  ASSUME GInv
  PROVE  /\ Open \/ Unmark \/ Close \/ Kill \/ End \/ ReembedFails \/ Persist => Rested'
         /\ Mark \/ WipeOld \/ FixLex => UNCHANGED Fields /\ engine.steps = <<>>
         /\ Refill => Rested' \/ UNCHANGED Fields
         /\ (\E d \in Doc : Edit(d)) \/ Upgrade \/ Query \/ Remake => engine' = engine
<1>0. EngineIsRecord BY DEF GInv, IndexShape
<1>1. Open \/ Unmark \/ Close \/ Kill \/ End \/ ReembedFails \/ Persist => Rested'
  <2>1. Open => Rested' BY DEF Open, Ready, Closed, Rested
  <2>2. Unmark \/ Close \/ Kill \/ End \/ ReembedFails \/ Persist => engine' \in {Ready, Closed}
    BY DEF Unmark, Close, Kill, End, ReembedFails, Persist
  <2>3. engine' \in {Ready, Closed} => Rested' BY DEF Ready, Closed, Rested
  <2> QED BY <2>1, <2>2, <2>3
<1>2. ASSUME NEW at, engine' = [engine EXCEPT !.at = at] PROVE UNCHANGED Fields
  BY <1>0, <1>2 DEF EngineIsRecord, Fields
<1>4. Mark \/ WipeOld \/ FixLex => UNCHANGED Fields /\ engine.steps = <<>>
  <2>1. Mark \/ WipeOld \/ FixLex => engine.steps = <<>>
    BY DEF Mark, WipeOld, FixLex, GInv, Midway
  <2> QED BY <1>2, <2>1 DEF Mark, WipeOld, FixLex
<1>5. Refill => Rested' \/ UNCHANGED Fields
  <2>1. Refill => engine' = Ready \/ engine' = [engine EXCEPT !.at = "unmarking"]
    BY Zenon DEF Refill
  <2>2. engine' = Ready => Rested' BY DEF Ready, Closed, Rested
  <2> QED BY <1>2, <2>1, <2>2
<1>3. (\E d \in Doc : Edit(d)) \/ Upgrade \/ Query \/ Remake => engine' = engine
  BY DEF Edit, Upgrade, Query, Remake
<1> QED BY <1>1, <1>3, <1>4, <1>5

LEMMA FieldsAtPass ==
  ASSUME GInv
  PROVE  /\ \A mode, whole, docs : Begin(mode, whole, docs) =>
              /\ engine'.mode = mode /\ engine'.todo = docs /\ engine.steps = <<>>
              /\ UNCHANGED <<engine.model, engine.text, engine.steps>>
         /\ \A d : Skip(d) =>
              /\ engine'.todo = engine.todo \ {d} /\ engine.steps = <<>>
              /\ UNCHANGED <<engine.mode, engine.model, engine.text, engine.steps>>
         /\ \A d : Take(d) =>
              /\ d \in Doc /\ engine.steps = <<>> /\ engine'.doc = d /\ engine'.text = file[d]
              /\ engine'.steps = IF file[d] = 0 THEN RemoveSteps \o <<"drop">>
                                 ELSE RemoveSteps \o IndexSteps \o HashSteps
              /\ UNCHANGED <<engine.mode, engine.model, engine.todo>>
         /\ Advance =>
              /\ engine'.steps = Tail(engine.steps) /\ engine'.todo \subseteq engine.todo
              /\ UNCHANGED <<engine.mode, engine.model, engine.text, engine.doc>>
         /\ Failing =>
              \/ Rested' /\ engine'.at = "ready"
              \/ /\ engine'.steps = <<>> /\ engine'.todo \subseteq engine.todo
                 /\ UNCHANGED <<engine.mode, engine.model, engine.text>>
<1>0. EngineIsRecord BY DEF GInv, IndexShape
<1>1. ASSUME NEW mode, NEW whole, NEW docs, Begin(mode, whole, docs)
      PROVE  /\ engine'.mode = mode /\ engine'.todo = docs /\ engine.steps = <<>>
             /\ UNCHANGED <<engine.model, engine.text, engine.steps>>
  <2>1. engine.steps = <<>> BY <1>1 DEF Begin, GInv, Midway
  <2> QED BY <1>0, <1>1, <2>1 DEF EngineIsRecord, Begin
<1>2. ASSUME NEW d, Skip(d)
      PROVE  /\ engine'.todo = engine.todo \ {d} /\ engine.steps = <<>>
             /\ UNCHANGED <<engine.mode, engine.model, engine.text, engine.steps>>
  BY <1>0, <1>2 DEF EngineIsRecord, Skip, Working
<1>3. ASSUME NEW d, Take(d)
      PROVE  /\ d \in Doc /\ engine.steps = <<>> /\ engine'.doc = d /\ engine'.text = file[d]
             /\ engine'.steps = IF file[d] = 0 THEN RemoveSteps \o <<"drop">>
                                ELSE RemoveSteps \o IndexSteps \o HashSteps
             /\ UNCHANGED <<engine.mode, engine.model, engine.todo>>
  <2> DEFINE s == IF file[d] = 0 THEN RemoveSteps \o <<"drop">>
                  ELSE RemoveSteps \o IndexSteps \o HashSteps
  <2>1. engine' = [engine EXCEPT !.doc = d, !.text = file[d], !.steps = s]
    BY <1>3 DEF Take
  <2> HIDE DEF s
  <2>2. /\ engine'.doc = d /\ engine'.text = file[d] /\ engine'.steps = s
        /\ UNCHANGED <<engine.mode, engine.model, engine.todo>>
    BY ONLY <1>0, <2>1 DEF EngineIsRecord
  <2>3. d \in Doc /\ engine.steps = <<>> BY <1>3 DEF Take, Working, GInv, IndexShape
  <2> QED BY <2>2, <2>3 DEF s
<1>4. Advance => /\ engine'.steps = Tail(engine.steps) /\ engine'.todo \subseteq engine.todo
                 /\ UNCHANGED <<engine.mode, engine.model, engine.text, engine.doc>>
  BY <1>0 DEF EngineIsRecord, Advance
<1>5. Failing =>
        \/ Rested' /\ engine'.at = "ready"
        \/ /\ engine'.steps = <<>> /\ engine'.todo \subseteq engine.todo
           /\ UNCHANGED <<engine.mode, engine.model, engine.text>>
  <2>1. Failing => GiveUp
    BY DEF Failing, UnlexFails, EmbedFails, Strand, PublishFails, StepFails
  <2>2. GiveUp => \/ engine' = Ready
                  \/ engine' = [engine EXCEPT !.steps = <<>>, !.todo = engine.todo \ {engine.doc}]
    BY Zenon DEF GiveUp
  <2>3. engine' = Ready => Rested' /\ engine'.at = "ready" BY DEF Ready, Closed, Rested
  <2>4. engine' = [engine EXCEPT !.steps = <<>>, !.todo = engine.todo \ {engine.doc}] =>
          /\ engine'.steps = <<>> /\ engine'.todo \subseteq engine.todo
          /\ UNCHANGED <<engine.mode, engine.model, engine.text>>
    BY <1>0 DEF EngineIsRecord
  <2> QED BY <2>1, <2>2, <2>3, <2>4
<1> QED BY <1>1, <1>2, <1>3, <1>4, <1>5

LEMMA FieldsAtSwitch ==
  ASSUME GInv
  PROVE  /\ \A m : Rebuild(m) =>
              /\ engine'.model = m /\ engine'.todo = {d \in Doc : meta[d] # 0}
              /\ engine.steps = <<>> /\ UNCHANGED <<engine.mode, engine.text, engine.steps>>
         /\ \A d \in Doc : Reembed(d) =>
              /\ engine'.todo = engine.todo \ {d} /\ d \in engine.todo
              /\ engine.steps = <<>>
              /\ UNCHANGED <<engine.mode, engine.model, engine.text, engine.steps>>
         /\ ForceReindex =>
              /\ engine'.mode = "none" /\ engine'.model = FirstModel /\ engine'.text = 0
              /\ engine'.todo = {} /\ engine'.steps = <<"lex", "vectors", "redb", "marker">>
         /\ Wipe =>
              /\ engine.steps # <<>>
              /\ \/ Rested' /\ engine'.at = "closed" /\ Len(engine.steps) = 1
                 \/ /\ engine'.steps = Tail(engine.steps) /\ Len(engine.steps) # 1
                    /\ engine'.at = "forcing"
                    /\ UNCHANGED <<engine.mode, engine.model, engine.text, engine.todo>>
<1>0. EngineIsRecord BY DEF GInv, IndexShape
<1>1. ASSUME NEW m, Rebuild(m)
      PROVE  /\ engine'.model = m /\ engine'.todo = {d \in Doc : meta[d] # 0}
             /\ engine.steps = <<>> /\ UNCHANGED <<engine.mode, engine.text, engine.steps>>
  <2>1. engine.steps = <<>> BY <1>1 DEF Rebuild, GInv, Midway
  <2> QED BY <1>0, <1>1, <2>1 DEF EngineIsRecord, Rebuild
<1>2. ASSUME NEW d \in Doc, Reembed(d)
      PROVE  /\ engine'.todo = engine.todo \ {d} /\ d \in engine.todo
             /\ engine.steps = <<>>
             /\ UNCHANGED <<engine.mode, engine.model, engine.text, engine.steps>>
  <2>1. engine.steps = <<>> BY <1>2 DEF Reembed, GInv, Midway
  <2> QED BY <1>0, <1>2, <2>1 DEF EngineIsRecord, Reembed
<1>3. ForceReindex =>
        /\ engine'.mode = "none" /\ engine'.model = FirstModel /\ engine'.text = 0
        /\ engine'.todo = {} /\ engine'.steps = <<"lex", "vectors", "redb", "marker">>
  <2> DEFINE s == <<"lex", "vectors", "redb", "marker">>
  <2>1. ForceReindex => engine' = [Closed EXCEPT !.at = "forcing", !.steps = s]
    BY DEF ForceReindex
  <2> HIDE DEF s
  <2>2. ForceReindex =>
          /\ engine'.mode = "none" /\ engine'.model = FirstModel /\ engine'.text = 0
          /\ engine'.todo = {} /\ engine'.steps = s
    BY <2>1 DEF Closed
  <2> QED BY <2>2 DEF s
<1>4. ASSUME Wipe
      PROVE  /\ engine.steps # <<>>
             /\ \/ Rested' /\ engine'.at = "closed" /\ Len(engine.steps) = 1
                \/ /\ engine'.steps = Tail(engine.steps) /\ Len(engine.steps) # 1
                   /\ engine'.at = "forcing"
                   /\ UNCHANGED <<engine.mode, engine.model, engine.text, engine.todo>>
  <2>1. engine.at = "forcing" /\ engine.steps # <<>> BY <1>4 DEF Wipe, Wiping, GInv, Midway
  <2>2. engine' = IF Len(engine.steps) = 1 THEN Closed
                  ELSE [engine EXCEPT !.steps = Tail(engine.steps)]
    BY <1>4 DEF Wipe
  <2> QED BY <1>0, <2>1, <2>2 DEF EngineIsRecord, Closed, Rested
<1> QED BY <1>1, <1>2, <1>3, <1>4

\* The engine is at the steps of a text in a mode; a rebuild embeds what there is.
OnPlan ==
  /\ engine.mode \in {"none", "full", "lex"} /\ engine.model \in Model /\ embedModel \in Model
  /\ engine.at = "reindexing" => engine.mode # "none"
  /\ engine.at = "reindexing" /\ engine.steps # <<>> =>
       RestOf(engine.steps, engine.mode, engine.text)
  /\ engine.at = "rebuilding" => \A d \in engine.todo : meta[d] # 0

\* Every content in the stores was in the vault once.
Past ==
  /\ edits \in 0..MaxEdit /\ engine.text \in 0..edits
  /\ file \in [Doc -> 0..edits] /\ meta \in [Doc -> 0..edits]
  /\ docHash \in [Doc -> 0..edits] /\ lexHash \in [Doc -> 0..edits]

LEMMA OnPlanStep ==
  ASSUME GInv, Past, OnPlan, [IndexNext]_indexVars
  PROVE  OnPlan'
<1> USE DEF OnPlan
<1>0. embedModel' \in Model
  <2>1. Persist => embedModel' = engine.model BY DEF Persist
  <2> QED BY <2>1, Writers
<1> USE <1>0
<1>1. CASE UNCHANGED indexVars \/ (\E d \in Doc : Edit(d)) \/ Upgrade \/ Query \/ Remake
  <2>1. engine' = engine BY <1>1, FieldsAtOpening DEF indexVars
  <2>2. meta' = meta BY <1>1 DEF indexVars, stores, redb, Edit, Upgrade, Query, Remake
  <2> QED BY <2>1, <2>2
<1>2. CASE Open \/ Unmark \/ Close \/ Kill \/ End \/ ReembedFails \/ Persist
  <2>1. Rested' BY <1>2, FieldsAtOpening
  <2>2. engine'.at \notin {"reindexing", "rebuilding"} BY <1>2, AtOpening, AtPass, AtSwitch
  <2> QED BY <2>1, <2>2, ModelsType DEF Rested
<1>3. CASE Mark \/ WipeOld \/ Refill \/ FixLex
  <2>1. UNCHANGED Fields \/ Rested' BY <1>3, FieldsAtOpening
  <2>2. engine'.at \notin {"reindexing", "rebuilding"} BY <1>3, AtOpening
  <2> QED BY <2>1, <2>2, ModelsType DEF Fields, Rested
<1>4. ASSUME NEW mode \in {"full", "lex"}, NEW whole, NEW docs, Begin(mode, whole, docs)
      PROVE  OnPlan'
  BY <1>4, FieldsAtPass, AtPass
<1>5. ASSUME NEW d \in Doc, Skip(d) PROVE OnPlan'
  BY <1>5, FieldsAtPass, AtPass
<1>6. ASSUME NEW d \in Doc, Take(d) PROVE OnPlan'
  <2>1. /\ engine'.text = file[d] /\ file[d] \in Nat /\ engine.mode \in {"full", "lex"}
        /\ engine'.mode = engine.mode /\ engine'.model = engine.model /\ engine'.at = "reindexing"
        /\ engine'.steps = IF file[d] = 0 THEN RemoveSteps \o <<"drop">>
                           ELSE RemoveSteps \o IndexSteps \o HashSteps
    BY <1>6, FieldsAtPass, AtPass DEF GInv, IndexShape
  <2>2. RestOf(engine'.steps, engine.mode, file[d])
    BY <2>1, WholePlan
  <2> QED BY <2>1, <2>2
<1>7. CASE Unlex \/ Forget \/ Embed \/ Record \/ Publish \/ Hash
  <2>1. engine.at = "reindexing" /\ engine'.at = "reindexing" BY <1>7, AtPass
  <2>2. /\ engine'.steps = Tail(engine.steps) /\ engine.steps # <<>>
        /\ UNCHANGED <<engine.mode, engine.model, engine.text>>
    BY <1>7, FieldsAtPass DEF Unlex, Forget, Embed, Record, Publish, Hash, At
  <2>3. engine'.steps # <<>> => RestOf(Tail(engine.steps), engine.mode, engine.text)
    BY <2>1, <2>2, TailIsRest
  <2> QED BY <2>1, <2>2, <2>3
<1>8. CASE Failing
  BY <1>8, FieldsAtPass, AtPass, ModelsType DEF Rested
<1>9. ASSUME NEW m \in Model, Rebuild(m) PROVE OnPlan'
  <2>1. meta' = meta BY <1>9 DEF Rebuild, redb
  <2>2. engine'.at = "rebuilding" /\ engine'.model = m /\ engine'.mode = engine.mode
        /\ engine'.todo = {d \in Doc : meta[d] # 0}
    BY <1>9, FieldsAtSwitch, AtSwitch
  <2> QED BY <2>1, <2>2
<1>10. ASSUME NEW d \in Doc, Reembed(d) PROVE OnPlan'
  <2>1. meta' = meta BY <1>10 DEF Reembed, redb
  <2> QED BY <1>10, <2>1, FieldsAtSwitch, AtSwitch
<1>11. CASE ForceReindex
  BY <1>11, FieldsAtSwitch, AtSwitch, ModelsType
<1>12. CASE Wipe
  <2>1. Rested' \/ UNCHANGED <<engine.mode, engine.model>> BY <1>12, FieldsAtSwitch
  <2>2. engine'.at \notin {"reindexing", "rebuilding"} BY <1>12, AtSwitch
  <2> QED BY <2>1, <2>2, ModelsType DEF Rested
<1> QED
  BY <1>1, <1>2, <1>3, <1>4, <1>5, <1>6, <1>7, <1>8, <1>9, <1>10, <1>11, <1>12 DEF IndexNext, Failing

LEMMA PastStep ==
  ASSUME GInv, Past, [IndexNext]_indexVars
  PROVE  Past'
<1> USE DEF Past
<1>a. MaxEdit \in Nat BY IndexBounds
\* Time.
<1>1. edits' \in 0..MaxEdit /\ edits' >= edits /\ file' \in [Doc -> 0..edits']
  <2>1. ASSUME NEW d \in Doc, Edit(d)
        PROVE  edits' \in 0..MaxEdit /\ edits' >= edits /\ file' \in [Doc -> 0..edits']
    <3>1. CASE edits < MaxEdit /\ edits' = edits + 1 /\ file' = [file EXCEPT ![d] = edits + 1]
      <4>1. edits + 1 \in 0..(edits + 1) /\ 0..edits \subseteq 0..(edits + 1)
        BY ONLY Past
      <4> QED BY <1>a, <3>1, <4>1
    <3>2. ASSUME NEW c \in 0..edits, file' = [file EXCEPT ![d] = c], edits' = edits
          PROVE  edits' \in 0..MaxEdit /\ edits' >= edits /\ file' \in [Doc -> 0..edits']
      BY <3>2
    <3>3. 0 \in 0..edits /\ \A c \in 1..edits : c \in 0..edits OBVIOUS
    <3> QED BY <2>1, <3>1, <3>2, <3>3 DEF Edit
  <2>2. CASE UNCHANGED <<file, edits>>
    BY <2>2
  <2> QED BY <2>1, <2>2, Writers
<1>2. 0..edits \subseteq 0..edits' /\ edits \in Nat /\ edits' \in Nat
  BY ONLY <1>1, Past, <1>a
<1>3. engine'.text \in 0..edits
  <2>1. CASE UNCHANGED indexVars \/ (\E d \in Doc : Edit(d)) \/ Upgrade \/ Query \/ Remake
             \/ Open \/ Unmark \/ Close \/ Kill \/ End \/ ReembedFails \/ Persist
             \/ Mark \/ WipeOld \/ Refill \/ FixLex
    <3>1. engine' = engine \/ Rested' \/ UNCHANGED Fields
      BY <2>1, FieldsAtOpening DEF indexVars
    <3> QED BY <3>1 DEF Rested, Fields
  <2>2. ASSUME NEW mode, NEW whole, NEW docs, Begin(mode, whole, docs) PROVE engine'.text \in 0..edits
    BY <2>2, FieldsAtPass
  <2>3. ASSUME NEW d \in Doc, Skip(d) \/ Take(d) \/ Reembed(d) PROVE engine'.text \in 0..edits
    BY <2>3, FieldsAtPass, FieldsAtSwitch
  <2>4. CASE Unlex \/ Forget \/ Embed \/ Record \/ Publish \/ Hash
    <3>1. Advance BY <2>4 DEF Unlex, Forget, Embed, Record, Publish, Hash
    <3> QED BY <3>1, FieldsAtPass
  <2>5. CASE Failing \/ (\E m \in Model : Rebuild(m)) \/ ForceReindex \/ Wipe
    BY <2>5, FieldsAtPass, FieldsAtSwitch DEF Rested
  <2> QED BY <2>1, <2>2, <2>3, <2>4, <2>5 DEF IndexNext, Failing
<1>4. meta' \in [Doc -> 0..edits]
  <2>1. Forget \/ Record => meta' \in [Doc -> 0..edits]
    <3>1. Forget \/ Record => \E c \in 0..edits : meta' = [meta EXCEPT ![engine.doc] = c]
      BY DEF Forget, Record
    <3> QED BY <3>1
  <2>2. Wipe => meta' = meta \/ meta' = Blank BY DEF Wipe, redb
  <2>3. Blank \in [Doc -> 0..edits] BY DEF Blank
  <2> QED BY <2>1, <2>2, <2>3, Writers
<1>5. docHash' \in [Doc -> 0..edits] /\ lexHash' \in [Doc -> 0..edits]
  <2>1. ASSUME Hash PROVE docHash' \in [Doc -> 0..edits] /\ lexHash' \in [Doc -> 0..edits]
    <3>1. /\ docHash' = docHash \/ \E c \in 0..edits : docHash' = [docHash EXCEPT ![engine.doc] = c]
          /\ lexHash' = lexHash \/ \E c \in 0..edits : lexHash' = [lexHash EXCEPT ![engine.doc] = c]
      BY <2>1 DEF Hash
    <3> QED BY <3>1
  <2>2. Wipe => UNCHANGED <<docHash, lexHash>> \/ (docHash' = Blank /\ lexHash' = Blank)
    BY DEF Wipe, redb
  <2>3. Blank \in [Doc -> 0..edits] BY DEF Blank
  <2> QED BY <2>1, <2>2, <2>3, Writers
<1> QED BY ONLY <1>1, <1>2, <1>3, <1>4, <1>5 DEF Past

\* The entries, and the vectors.
StoresTyped ==
  /\ lex \in [Doc -> Seq(1..MaxEdit)] /\ draft \in [Doc -> Seq(1..MaxEdit)]
  /\ vec \in [Doc -> [text : 1..MaxEdit, model : Model] \union {NoVector}]

LEMMA TextIsContent ==
  ASSUME GInv, Past, OnPlan, At("embed") \/ At("record") \/ At("publish")
  PROVE  engine.text \in 1..MaxEdit
<1>1. /\ RestOf(engine.steps, engine.mode, engine.text) /\ engine.steps # <<>>
      /\ Head(engine.steps) \in {"embed", "record", "publish"}
  BY DEF At, OnPlan
<1>2. Head(engine.steps) \in StepsOf(engine.mode, engine.text) BY <1>1, TailIsRest
<1>3. engine.text # 0 BY <1>1, <1>2 DEF StepsOf
<1> QED BY <1>3, IndexBounds DEF Past

LEMMA StoresTypedStep ==
  ASSUME GInv, Past, OnPlan, StoresTyped, [IndexNext]_indexVars
  PROVE  StoresTyped'
<1> DEFINE C == 1..MaxEdit
           V == [text : C, model : Model] \union {NoVector}
           L == [Doc -> Seq(C)]
<1>0. /\ lex \in L /\ draft \in L /\ vec \in [Doc -> V] /\ NoVector \in V /\ <<>> \in Seq(C)
      /\ \A d \in Doc : meta[d] # 0 => meta[d] \in C
  BY IndexBounds DEF StoresTyped, Past
<1>1. Empty \in L /\ [d \in Doc |-> NoVector] \in [Doc -> V]
  BY <1>0 DEF Empty
<1>2. \A c \in C, m \in Model : [text |-> c, model |-> m] \in V OBVIOUS
<1>a. Deleted \in L
  <2>1. Deleted = draft \/ Deleted = [draft EXCEPT ![engine.doc] = <<>>] BY DEF Deleted
  <2> HIDE DEF C
  <2> QED BY <1>0, <2>1
<1>b. ASSUME At("embed") PROVE Added \in L
  <2>1. engine.text \in C /\ engine.doc \in Doc BY <1>b, TextIsContent, Busy
  <2> HIDE DEF C
  <2>2. Append(draft[engine.doc], engine.text) \in Seq(C) BY <1>0, <2>1, AppendProperties
  <2> QED BY <1>0, <2>2 DEF Added
<1> HIDE DEF C, V
<1>c. Remade \in L
  <2>1. \A d \in Doc : meta[d] # 0 => <<meta[d]>> \in Seq(C) BY <1>0
  <2> QED BY <1>0, <2>1 DEF Remade
<1> HIDE DEF L
<1>d. WipeOld \/ Wipe => (lex' = lex /\ draft' = draft) \/ (lex' = Empty /\ draft' = Empty)
  BY DEF WipeOld, Wipe, Replace, keyword
<1>e. Unlex => lex' = Deleted /\ draft' = Deleted BY DEF Unlex
<1>f. Refill => (lex' = lex /\ draft' = draft) \/ (lex' = Remade /\ draft' = Remade)
  BY AtOpening DEF Replace, keyword
<1>g. Failing => lex' \in L /\ draft' \in L
  <2>1. UnlexFails => lex' \in {lex, Deleted} /\ draft' \in {lex, Deleted}
    BY DEF UnlexFails, Uncommitted
  <2>2. EmbedFails \/ StepFails => lex' = lex /\ draft' = draft
    BY DEF EmbedFails, StepFails, stores, keyword
  <2>3. Strand => lex' = lex /\ (draft' = draft \/ (At("embed") /\ draft' = Added))
    BY DEF Strand
  <2>4. PublishFails => lex' \in {lex, draft} /\ draft' \in {lex, draft}
    BY DEF PublishFails, Uncommitted
  <2> QED BY <1>0, <1>a, <1>b, <2>1, <2>2, <2>3, <2>4 DEF Failing
<1>3. lex' \in L
  <2>1. Publish => lex' = draft BY DEF Publish
  <2> QED BY <1>0, <1>1, <1>a, <1>c, <1>d, <1>e, <1>f, <1>g, <2>1, Writers
<1>5. draft' \in L
  <2>1. Embed => At("embed") /\ draft' = Added BY DEF Embed
  <2> QED BY <1>0, <1>1, <1>a, <1>b, <1>c, <1>d, <1>e, <1>f, <1>g, <2>1, Writers
<1>4. vec' \in [Doc -> V]
  <2>1. Unlex \/ Failing => vec' = vec \/ vec' = [vec EXCEPT ![engine.doc] = NoVector]
    <3>1. Unvectored = vec \/ Unvectored = [vec EXCEPT ![engine.doc] = NoVector] BY DEF Unvectored
    <3>2. Unlex => vec' = Unvectored BY DEF Unlex
    <3>3. Failing => vec' \in {vec, Unvectored}
      BY DEF Failing, UnlexFails, EmbedFails, Strand, PublishFails, StepFails, stores
    <3> QED BY <3>1, <3>2, <3>3
  <2>2. (\E m \in Model : Rebuild(m)) \/ Wipe => vec' = vec \/ vec' = [d \in Doc |-> NoVector]
    BY DEF Rebuild, Wipe
  <2>3. ASSUME Embed PROVE vec' \in [Doc -> V]
    <3>1. engine.text \in C BY <2>3, TextIsContent DEF Embed, C
    <3>2. embedModel \in Model BY DEF OnPlan
    <3>3. vec' = vec \/ vec' = [vec EXCEPT ![engine.doc] = [text |-> engine.text, model |-> embedModel]]
      BY <2>3 DEF Embed
    <3> QED BY <1>0, <1>2, <3>1, <3>2, <3>3
  <2>4. ASSUME NEW d \in Doc, Reembed(d) PROVE vec' \in [Doc -> V]
    <3>1. meta[d] \in C /\ engine.model \in Model
      BY <1>0, <2>4, FieldsAtSwitch, AtSwitch DEF OnPlan
    <3>2. vec' = [vec EXCEPT ![d] = [text |-> meta[d], model |-> engine.model]]
      BY <2>4 DEF Reembed
    <3> QED BY <1>0, <1>2, <3>1, <3>2
  <2>5. vec' = vec => vec' \in [Doc -> V] BY <1>0
  <2>6. vec' = [vec EXCEPT ![engine.doc] = NoVector] => vec' \in [Doc -> V] BY <1>0
  <2>7. vec' = [d \in Doc |-> NoVector] => vec' \in [Doc -> V] BY <1>1
  <2> QED BY <2>1, <2>2, <2>3, <2>4, <2>5, <2>6, <2>7, Writers
<1> QED BY <1>3, <1>4, <1>5 DEF StoresTyped, C, V, L

\* The rest.
FlagsTyped ==
  /\ width \in {Dims[m] : m \in Model} \union {0}
  /\ oldSchema \in BOOLEAN /\ marker \in BOOLEAN /\ undone \in BOOLEAN /\ remade \in BOOLEAN
  /\ cut \subseteq Doc /\ upsets \in 0..MaxUpset

LEMMA FlagsTypedStep ==
  ASSUME GInv, OnPlan, FlagsTyped, [IndexNext]_indexVars
  PROVE  FlagsTyped'
<1> USE DEF FlagsTyped
<1>1. width' \in {Dims[m] : m \in Model} \union {0}
  <2>1. Open => width' = Dims[embedModel] BY DEF Open
  <2>2. Remake => width' = Dims[engine.model] BY DEF Remake
  <2>3. (\E m \in Model : Rebuild(m)) \/ Wipe => width' = width \/ width' = 0
    BY DEF Rebuild, Wipe
  <2> QED BY <2>1, <2>2, <2>3, Writers DEF OnPlan
<1>2. oldSchema' \in BOOLEAN
  <2>1. Upgrade \/ WipeOld \/ Wipe => oldSchema' \in {oldSchema, TRUE, FALSE}
    BY DEF Upgrade, WipeOld, Wipe
  <2> QED BY <2>1, Writers
<1>3. marker' \in BOOLEAN
  <2>1. Mark \/ Unmark \/ Wipe => marker' \in {marker, TRUE, FALSE} BY DEF Mark, Unmark, Wipe
  <2> QED BY <2>1, Writers
<1>4. undone' \in BOOLEAN
  <2>1. (\E m \in Model : Rebuild(m)) \/ Persist \/ Wipe => undone' \in {undone, TRUE, FALSE}
    BY DEF Rebuild, Persist, Wipe
  <2> QED BY <2>1, Writers
<1>5. remade' \in BOOLEAN /\ cut' \subseteq Doc /\ upsets' \in 0..MaxUpset
  <2> DEFINE Goal == remade' \in BOOLEAN /\ cut' \subseteq Doc /\ upsets' \in 0..MaxUpset
  <2>0. \A weight \in {1, 2} : Upset(weight) => upsets' \in 0..MaxUpset
    BY IndexBounds DEF Upset
  <2>1. CASE UNCHANGED indexVars \/ (\E d \in Doc : Edit(d) \/ Skip(d) \/ Take(d) \/ Reembed(d))
    BY <2>1 DEF indexVars, Edit, Skip, Take, Reembed
  <2>2. CASE Open \/ Mark \/ WipeOld \/ Unmark \/ FixLex \/ Close \/ Remake \/ ReembedFails
             \/ Persist \/ Query \/ End
    BY <2>2 DEF Open, Mark, WipeOld, Unmark, FixLex, Close, Remake, ReembedFails, Persist, Query, End
  <2>3. CASE Upgrade \/ (\E m \in Model : Rebuild(m)) \/ ForceReindex
    BY <2>0, <2>3 DEF Upgrade, Rebuild, ForceReindex
  <2>4. CASE Refill
    BY <2>4 DEF Refill
  <2>5. CASE Kill
    <3>1. engine.at # "forcing" /\ engine.steps # <<>> => engine.doc \in Doc
      BY DEF GInv, Midway
    <3>2. cut' \in {Doc, cut \union {engine.doc}, cut}
            /\ (cut' = cut \union {engine.doc} => engine.doc \in Doc \/ cut' = Doc)
      <4>1. cut' = CASE engine.at = "forcing" -> Doc
                     [] engine.at # "forcing" /\ engine.steps # <<>> -> cut \union {engine.doc}
                     [] OTHER -> cut
        BY <2>5 DEF Kill
      <4>2. CASE engine.at = "forcing" BY <4>1, <4>2
      <4>3. CASE engine.at # "forcing" /\ engine.steps # <<>> BY <3>1, <4>1, <4>3
      <4>4. CASE engine.at # "forcing" /\ engine.steps = <<>> BY <4>1, <4>4
      <4> QED BY <4>2, <4>3, <4>4
    <3> QED BY <2>0, <2>5, <3>2 DEF Kill
  <2>6. ASSUME NEW mode, NEW whole, NEW docs, Begin(mode, whole, docs) PROVE Goal
    BY <2>6 DEF Begin
  <2>7. CASE Unlex \/ Forget \/ Embed \/ Record \/ Publish \/ Hash
    <3>1. Advance /\ UNCHANGED <<remade, upsets>>
      BY <2>7 DEF Unlex, Forget, Embed, Record, Publish, Hash
    <3> QED BY <3>1 DEF Advance
  <2>8. CASE Failing
    <3>1. /\ \E step : At(step)
          /\ GiveUp /\ remade' = remade /\ \E weight \in {1, 2} : Upset(weight)
      BY <2>8 DEF Failing, UnlexFails, EmbedFails, Strand, PublishFails, StepFails
    <3>2. engine.doc \in Doc BY <3>1, Busy
    <3> QED BY <2>0, <3>1, <3>2 DEF GiveUp
  <2>9. CASE Wipe
    BY <2>9 DEF Wipe
  <2> QED BY <2>1, <2>2, <2>3, <2>4, <2>5, <2>6, <2>7, <2>8, <2>9 DEF IndexNext, Failing
<1> QED BY <1>1, <1>2, <1>3, <1>4, <1>5

TypeInv == Past /\ OnPlan /\ StoresTyped /\ FlagsTyped

LEMMA TypeInvAlways == IndexSpec => [](GInv /\ MemoInv /\ TypeInv)
<1>1. IndexInit => TypeInv
  <2> SUFFICES ASSUME IndexInit PROVE TypeInv
    OBVIOUS
  <2>1. 0 \in 0..edits /\ edits \in 0..MaxEdit BY IndexBounds DEF IndexInit
  <2>2. Past BY <2>1 DEF Past, IndexInit, Blank, Closed
  <2>3. OnPlan BY ModelsType DEF OnPlan, IndexInit, Closed
  <2>4. StoresTyped
    <3>1. <<>> \in Seq(1..MaxEdit) OBVIOUS
    <3> QED BY <3>1 DEF StoresTyped, IndexInit, Empty
  <2>5. FlagsTyped
    <3>1. width = 0 /\ upsets = 0 /\ cut = {} /\ 0 \in 0..MaxUpset
      BY IndexBounds DEF IndexInit
    <3>2. oldSchema = FALSE /\ marker = FALSE /\ undone = FALSE /\ remade = FALSE
      BY DEF IndexInit
    <3>3. 0 \in {Dims[m] : m \in Model} \union {0}
      OBVIOUS
    <3> QED BY ONLY <3>1, <3>2, <3>3 DEF FlagsTyped
  <2> QED BY <2>2, <2>3, <2>4, <2>5 DEF TypeInv
<1>2. GInv /\ TypeInv /\ [IndexNext]_indexVars => TypeInv'
  BY OnPlanStep, PastStep, StoresTypedStep, FlagsTypedStep DEF TypeInv
<1> QED BY <1>1, <1>2, MemoInvAlways, PTL DEF IndexSpec

\* For any documents, models and bounds, the index keeps its types.
THEOREM IndexTyping == IndexSpec => []IndexTypeOK
<1>1. GInv /\ MemoInv /\ TypeInv => IndexTypeOK
  <2> SUFFICES ASSUME GInv, MemoInv, TypeInv PROVE IndexTypeOK
    OBVIOUS
  <2>1. /\ MaxEdit \in Nat /\ edits \in 0..MaxEdit
        /\ 0..edits \subseteq Content \union {0}
    BY IndexBounds DEF TypeInv, Past, Content
  <2>2. /\ file \in [Doc -> Content \union {0}] /\ meta \in [Doc -> Content \union {0}]
        /\ docHash \in [Doc -> Content \union {0}] /\ lexHash \in [Doc -> Content \union {0}]
    BY <2>1 DEF TypeInv, Past
  <2>3. generation \in Nat /\ instance \in 0..minted /\ minted \in Nat
        /\ memo.generation \in Nat /\ memo.instance \in 0..minted
    BY DEF MemoInv, Counters
  <2>4. /\ \A d \in Doc : lex[d] \in Seq(Content) /\ draft[d] \in Seq(Content)
        /\ vec \in [Doc -> [text : Content, model : Model] \union {NoVector}]
    BY DEF TypeInv, StoresTyped, Content
  <2>5. engine.mode \in {"none", "full", "lex"} /\ engine.todo \subseteq Doc /\ embedModel \in Model
    BY DEF TypeInv, OnPlan, GInv, IndexShape
  <2>7. stray \subseteq Doc BY DEF GInv, IndexShape
  <2>6. engine.steps # <<>> => engine.at = "forcing" \/ engine.doc \in Doc
    BY DEF GInv, Midway
  <2> QED BY <2>1, <2>2, <2>3, <2>4, <2>5, <2>6, <2>7 DEF IndexTypeOK, TypeInv, FlagsTyped
<1> QED BY <1>1, TypeInvAlways, PTL

-----------------------------------------------------------------------------
(* What a reindex passes over.  A hash is written when its document is in   *)
(* the index: the last entry is then the hash's text, and so is the vector, *)
(* unless the hash is one of a keyword pass.  No step of another document   *)
(* disturbs that, and where one of its own fails, the document is cut.      *)

Mid(d) == engine.at = "reindexing" /\ engine.steps # <<>> /\ engine.doc = d

LastIs(s, text) == s # <<>> /\ s[Len(s)] = text

\* What the hashes say of a document.
FullClaim(d) ==
  docHash[d] # 0 /\ lexHash[d] = 0 /\ ~undone =>
    vec[d] = [text |-> docHash[d], model |-> embedModel]
LexClaim(d) ==
  EffectiveLexHash(d) # 0 =>
    /\ meta[d] = EffectiveLexHash(d)
    /\ ~marker => LastIs(lex[d], EffectiveLexHash(d))

Claimed(d) == d \notin cut /\ ~Mid(d) /\ engine.at # "forcing"

Claim(d) == Claimed(d) => FullClaim(d) /\ LexClaim(d) /\ draft[d] = lex[d]

\* What the last steps of a document may count on.
MidClaim(d) ==
  Mid(d) =>
    LET next == Head(engine.steps) IN
    /\ engine.mode = "full" /\ next \in {"record", "publish", "hash", "unhash"} =>
         vec[d] = [text |-> engine.text, model |-> embedModel]
    /\ next \in {"record", "publish"} => LastIs(draft[d], engine.text)
    /\ next \in {"publish", "hash", "unhash", "lexhash"} => meta[d] = engine.text
    /\ next \in {"hash", "unhash", "lexhash"} => LastIs(lex[d], engine.text)
    /\ next \in {"forget", "drop", "hash", "unhash", "lexhash"} => draft[d] = lex[d]
    /\ next = "unhash" => docHash[d] = engine.text

Refilled ==
  engine.at = "unmarking" =>
    \A d \in Doc : lex[d] = IF meta[d] = 0 THEN <<>> ELSE <<meta[d]>>

Switching ==
  engine.at = "rebuilding" =>
    /\ undone
    /\ \A d \in Doc \ engine.todo :
         meta[d] # 0 => vec[d] = [text |-> meta[d], model |-> engine.model]

WipedOut ==
  engine.at = "forcing" =>
    /\ engine.steps[Len(engine.steps)] = "marker"
    /\ Head(engine.steps) = "marker" => docHash = Blank /\ lexHash = Blank

SkipInv ==
  (\A d \in Doc : Claim(d) /\ MidClaim(d)) /\ Refilled /\ Switching /\ WipedOut

AllInv == GInv /\ MemoInv /\ TypeInv /\ SkipInv

\* One step of a document.
LEMMA NextStep ==
  ASSUME GInv, TypeInv, NEW step, At(step), Advance
  PROVE  LET d == engine.doc IN
         /\ d \in Doc /\ Mid(d) /\ engine'.at = "reindexing" /\ engine.mode \in {"full", "lex"}
         /\ UNCHANGED <<engine.mode, engine.text, engine.doc>>
         /\ step \in StepsOf(engine.mode, engine.text)
         /\ \A e \in Doc \ {d} : (e \in cut' <=> e \in cut) /\ ~Mid(e) /\ ~Mid(e)'
         /\ Len(engine.steps) = 1 =>
              step = LastOf(engine.mode, engine.text) /\ ~Mid(d)'
         /\ Len(engine.steps) # 1 =>
              /\ Mid(d)' /\ cut' = cut
              /\ <<step, Head(engine'.steps)>> \in Follows
              /\ Head(engine'.steps) \in StepsOf(engine.mode, engine.text)
<1> DEFINE d == engine.doc
<1>1. /\ d \in Doc /\ engine.at = "reindexing" /\ engine.steps # <<>> /\ Head(engine.steps) = step
  BY Busy
<1>2. engine'.steps = Tail(engine.steps) /\ UNCHANGED <<engine.mode, engine.text, engine.doc>>
  BY FieldsAtPass
<1>3. engine'.at = "reindexing"
  BY <1>1 DEF Advance, GInv, IndexShape, EngineIsRecord
<1>4. RestOf(engine.steps, engine.mode, engine.text) /\ engine.mode \in {"full", "lex"}
  BY <1>1 DEF TypeInv, OnPlan
<1>5. /\ step \in StepsOf(engine.mode, engine.text)
      /\ Len(engine.steps) = 1 <=> Tail(engine.steps) = <<>>
      /\ Len(engine.steps) = 1 => step = LastOf(engine.mode, engine.text)
      /\ Len(engine.steps) # 1 => RestOf(Tail(engine.steps), engine.mode, engine.text)
  BY <1>1, <1>4, TailIsRest
<1>6. Len(engine.steps) # 1 => Head(Tail(engine.steps)) \in StepsOf(engine.mode, engine.text)
  BY <1>5, TailIsRest
<1>7. Len(engine.steps) # 1 => <<step, Head(Tail(engine.steps))>> \in Follows
  BY <1>1, <1>5, TailInOrder DEF GInv, IndexShape
<1>8. /\ Len(engine.steps) # 1 => cut' = cut
      /\ Len(engine.steps) = 1 => cut' = cut \/ cut' = cut \ {d}
  BY DEF Advance
<1>9. \A e \in Doc \ {d} : (e \in cut' <=> e \in cut) /\ ~Mid(e) /\ ~Mid(e)'
  BY <1>2, <1>8 DEF Mid
<1> HIDE DEF d
<1>10. /\ Mid(engine.doc) /\ (Mid(engine.doc)' <=> Tail(engine.steps) # <<>>)
  BY <1>1, <1>2, <1>3 DEF Mid
<1> QED BY <1>1, <1>2, <1>3, <1>4, <1>5, <1>6, <1>7, <1>8, <1>9, <1>10 DEF d

\* A document that nothing has happened to.
LEMMA ClaimKept ==
  ASSUME NEW d \in Doc, Claim(d),
         UNCHANGED <<docHash[d], lexHash[d], meta[d], vec[d], embedModel, undone>>,
         ~marker' => ~marker,
         Claimed(d)' => Claimed(d),
         Claimed(d) /\ draft[d] = lex[d] => lex'[d] = lex[d] /\ draft'[d] = lex[d]
  PROVE  Claim(d)'
BY DEF Claim, FullClaim, LexClaim, EffectiveLexHash

LEMMA OneEntry == ASSUME NEW c \in Nat PROVE LastIs(<<c>>, c)
BY DEF LastIs

LEMMA ClaimAtOpening ==
  ASSUME AllInv, NEW d \in Doc,
         \/ UNCHANGED indexVars \/ (\E e \in Doc : Edit(e)) \/ Upgrade \/ Open \/ Mark \/ WipeOld
         \/ Refill \/ Unmark \/ FixLex \/ Close \/ Kill \/ Query
  PROVE  Claim(d)'
<1> USE DEF AllInv
<1>0. Claim(d) /\ meta[d] \in Nat BY DEF SkipInv, GInv, IndexShape
<1> DEFINE Kept == UNCHANGED <<docHash, lexHash, meta, lex, draft, vec, embedModel, undone, marker, cut>>
<1>1. CASE UNCHANGED indexVars \/ (\E e \in Doc : Edit(e)) \/ Upgrade \/ Query
  <2>1. UNCHANGED indexVars => Kept /\ engine' = engine BY DEF indexVars, stores, redb, keyword
  <2>2. (\E e \in Doc : Edit(e)) \/ Query => Kept /\ engine' = engine
    BY DEF Edit, Query, stores, redb, keyword
  <2>3. Upgrade => Kept /\ engine' = engine BY DEF Upgrade, redb, keyword
  <2>4. Kept /\ engine' = engine BY <1>1, <2>1, <2>2, <2>3
  <2>5. Claimed(d)' => Claimed(d) BY <2>4 DEF Claimed, Mid
  <2> QED BY <1>0, <2>4, <2>5, ClaimKept
<1>2. CASE FixLex \/ Open
  <2>1. FixLex => Kept BY DEF FixLex, stores, redb, keyword
  <2>2. Open => Kept BY DEF Open, keyword
  <2>3. engine.at \in {"ready", "closed"} BY <1>2, AtOpening
  <2>4. Claimed(d)' => Claimed(d) BY <1>2, <2>1, <2>2, <2>3 DEF Claimed, Mid
  <2> QED BY <1>0, <1>2, <2>1, <2>2, <2>4, ClaimKept
<1>3. CASE Close
  <2>1. /\ UNCHANGED <<docHash, lexHash, meta, lex, vec, embedModel, undone, marker, cut>>
        /\ draft' = lex /\ engine.at = "ready"
    BY <1>3 DEF Close, Discard, redb
  <2>2. Claimed(d)' => Claimed(d) BY <2>1 DEF Claimed, Mid
  <2> QED BY <1>0, <2>1, <2>2, ClaimKept
<1>4. CASE Mark
  <2>1. /\ UNCHANGED <<docHash, lexHash, meta, lex, draft, vec, embedModel, undone, cut>>
        /\ marker' /\ engine.at = "marking"
    BY <1>4 DEF Mark, redb, keyword
  <2>2. Claimed(d)' => Claimed(d) BY <2>1 DEF Claimed, Mid
  <2> QED BY <1>0, <2>1, <2>2, ClaimKept
<1>5. CASE WipeOld
  <2>1. /\ UNCHANGED <<docHash, lexHash, meta, vec, embedModel, undone, cut>> /\ marker'
        /\ engine.at = "wiping" /\ lex' = Empty /\ draft' = Empty
    BY <1>5 DEF WipeOld, Replace, redb, MemoInv, Positions
  <2>2. Claimed(d)' => Claimed(d) BY <2>1 DEF Claimed, Mid
  <2> QED BY <1>0, <2>1, <2>2 DEF Claim, FullClaim, LexClaim, EffectiveLexHash
<1>6. CASE Refill
  <2>1. /\ UNCHANGED <<docHash, lexHash, meta, vec, embedModel, undone, cut, marker>>
        /\ engine.at = "refilling"
    BY <1>6 DEF Refill, redb
  <2>2. Claimed(d)' => Claimed(d) BY <2>1 DEF Claimed, Mid
  <2>3. CASE UNCHANGED keyword
    <3>1. UNCHANGED <<lex, draft>> BY <2>3 DEF keyword
    <3> QED BY <1>0, <2>1, <2>2, <3>1, ClaimKept
  <2>4. CASE Replace(Remade)
    <3>1. lex' = Remade /\ draft' = lex' BY <2>4 DEF Replace
    <3>2. meta[d] # 0 => LastIs(lex'[d], meta[d]) BY <1>0, <3>1, OneEntry DEF Remade
    <3> QED BY <1>0, <2>1, <2>2, <3>1, <3>2 DEF Claim, FullClaim, LexClaim, EffectiveLexHash
  <2> QED BY <1>6, <2>3, <2>4, AtOpening
<1>7. CASE Unmark
  <2>1. /\ UNCHANGED <<docHash, lexHash, meta, lex, draft, vec, embedModel, undone, cut>>
        /\ engine.at = "unmarking"
    BY <1>7 DEF Unmark, redb, keyword
  <2>2. Claimed(d)' => Claimed(d) BY <2>1 DEF Claimed, Mid
  <2>3. meta[d] # 0 => LastIs(lex[d], meta[d])
    BY <1>0, <2>1, OneEntry DEF SkipInv, Refilled
  <2> QED BY <1>0, <2>1, <2>2, <2>3 DEF Claim, FullClaim, LexClaim, EffectiveLexHash
<1>8. CASE Kill
  <2>1. /\ UNCHANGED <<docHash, lexHash, meta, lex, vec, embedModel, undone, marker>>
        /\ draft' = lex
    BY <1>8 DEF Kill, Discard, redb
  <2>2. cut' = CASE engine.at = "forcing" -> Doc
                 [] engine.at # "forcing" /\ engine.steps # <<>> -> cut \union {engine.doc}
                 [] OTHER -> cut
    BY <1>8 DEF Kill
  <2>3. CASE engine.at = "forcing" BY <2>2, <2>3 DEF Claim, Claimed
  <2>4. CASE engine.at # "forcing"
    <3>1. d \notin cut' => d \notin cut /\ ~Mid(d)
      <4>1. CASE engine.steps # <<>> BY <2>2, <2>4, <4>1 DEF Mid
      <4>2. CASE engine.steps = <<>> BY <2>2, <2>4, <4>2 DEF Mid
      <4> QED BY <4>1, <4>2
    <3>2. Claimed(d)' => Claimed(d) BY <2>4, <3>1 DEF Claimed
    <3> QED BY <1>0, <2>1, <3>2, ClaimKept
  <2> QED BY <2>3, <2>4
<1> QED BY <1>1, <1>2, <1>3, <1>4, <1>5, <1>6, <1>7, <1>8

LEMMA ClaimAtSwitch ==
  ASSUME AllInv, NEW d \in Doc,
         \/ (\E m \in Model : Rebuild(m)) \/ Remake \/ (\E e \in Doc : Reembed(e)) \/ ReembedFails
         \/ Persist \/ ForceReindex \/ Wipe
  PROVE  Claim(d)'
<1> USE DEF AllInv
<1>0. Claim(d) BY DEF SkipInv
<1>1. CASE (\E m \in Model : Rebuild(m)) \/ (\E e \in Doc : Reembed(e))
  <2>1. UNCHANGED <<docHash, lexHash, meta, lex, draft, embedModel, marker, cut>>
    BY <1>1 DEF Rebuild, Reembed, redb, keyword
  <2>2. engine.at \in {"ready", "rebuilding"} BY <1>1, AtSwitch
  <2>3. (\E m \in Model : Rebuild(m)) => undone' BY DEF Rebuild
  <2>4. (\E e \in Doc : Reembed(e)) => undone' BY AtSwitch DEF Reembed, SkipInv, Switching
  <2>5. Claimed(d)' => Claimed(d) BY <2>1, <2>2 DEF Claimed, Mid
  <2> QED BY <1>0, <1>1, <2>1, <2>3, <2>4, <2>5 DEF Claim, FullClaim, LexClaim, EffectiveLexHash
<1>2. CASE Remake \/ ReembedFails
  <2>1. UNCHANGED <<docHash, lexHash, meta, lex, vec, embedModel, undone, marker, cut>>
        /\ draft' \in {draft, lex}
    BY <1>2 DEF Remake, ReembedFails, Discard, redb, keyword
  <2>2. engine.at = "rebuilding" BY <1>2, AtSwitch
  <2>3. Claimed(d)' => Claimed(d) BY <2>1, <2>2 DEF Claimed, Mid
  <2> QED BY <1>0, <2>1, <2>3, ClaimKept
<1>3. CASE Persist
  <2>1. UNCHANGED <<docHash, lexHash, meta, lex, vec, marker, cut>> /\ draft' = lex
    BY <1>3 DEF Persist, Discard, redb
  <2>2. engine.at = "rebuilding" /\ engine.todo = {} /\ embedModel' = engine.model
    BY <1>3 DEF Persist
  <2>3. meta[d] # 0 => vec[d] = [text |-> meta[d], model |-> engine.model]
    BY <2>2 DEF SkipInv, Switching
  <2>4. Claimed(d)' => Claimed(d) BY <2>1, <2>2 DEF Claimed, Mid
  <2>5. Claimed(d) => LexClaim(d) BY <1>0 DEF Claim
  <2>6. Claimed(d) /\ docHash[d] # 0 /\ lexHash[d] = 0 =>
          vec[d] = [text |-> docHash[d], model |-> engine.model]
    BY <2>3, <2>5 DEF LexClaim, EffectiveLexHash
  <2>7. Claimed(d) => LexClaim(d)'
    BY <2>1, <2>5 DEF LexClaim, EffectiveLexHash
  <2>8. Claimed(d) => FullClaim(d)'
    BY <2>1, <2>2, <2>6 DEF FullClaim
  <2> QED BY <2>1, <2>4, <2>7, <2>8 DEF Claim
<1>4. CASE ForceReindex
  BY <1>4, AtSwitch DEF Claim, Claimed
<1>5. CASE Wipe
  <2>1. CASE engine'.at = "forcing" BY <2>1 DEF Claim, Claimed
  <2>2. CASE engine'.at # "forcing"
    <3>1. engine.at = "forcing" /\ Len(engine.steps) = 1 /\ engine.steps # <<>>
      BY <1>5, <2>2, AtSwitch, FieldsAtSwitch
    <3>2. Head(engine.steps) = "marker"
      <4>1. engine.steps[1] = "marker" BY <3>1 DEF SkipInv, WipedOut
      <4> QED BY <3>1, <4>1, HeadIsFirst DEF GInv, IndexShape, InOrder
    <3>3. docHash = Blank /\ lexHash = Blank BY <3>1, <3>2 DEF SkipInv, WipedOut
    <3>4. UNCHANGED <<docHash, lexHash, lex, draft>>
      BY <1>5, <3>2 DEF Wipe, Wiping, redb, keyword
    <3>5. draft = lex BY <3>1 DEF GInv, Midway
    <3> QED BY <3>3, <3>4, <3>5 DEF Claim, FullClaim, LexClaim, EffectiveLexHash, Blank
  <2> QED BY <2>1, <2>2
<1> QED BY <1>1, <1>2, <1>3, <1>4, <1>5

\* Of another document than the one it is at, a step of a document changes
\* nothing, and publishes only what the writer was given for it.
LEMMA OthersKept ==
  ASSUME AllInv, Unlex \/ Forget \/ Embed \/ Record \/ Publish \/ Hash \/ Failing,
         NEW d \in Doc, d # engine.doc
  PROVE  /\ UNCHANGED <<docHash[d], lexHash[d], meta[d], vec[d], embedModel, undone, marker>>
         /\ draft[d] = lex[d] => lex'[d] = lex[d] /\ draft'[d] = lex[d]
<1> USE DEF AllInv
<1>0. /\ meta \in [Doc -> 0..edits] /\ docHash \in [Doc -> 0..edits]
      /\ lexHash \in [Doc -> 0..edits]
      /\ vec \in [Doc -> [text : 1..MaxEdit, model : Model] \union {NoVector}]
  BY DEF TypeInv, Past, StoresTyped
<1>a. Deleted[d] = draft[d] BY DeletedEntries
<1>b. Unvectored[d] = vec[d] BY <1>0 DEF Unvectored
<1>c. At("embed") => Added[d] = draft[d] BY Busy, AddedEntries
<1>1. UNCHANGED <<embedModel, undone, marker>>
  <2>1. Failing => UNCHANGED <<embedModel, undone, marker>>
    BY DEF Failing, UnlexFails, EmbedFails, Strand, PublishFails, StepFails, stores
  <2> QED BY <2>1 DEF Unlex, Forget, Embed, Record, Publish, Hash
<1> DEFINE Same == UNCHANGED <<docHash[d], lexHash[d], meta[d], vec[d]>>
           Shown == draft[d] = lex[d] => lex'[d] = lex[d] /\ draft'[d] = lex[d]
<1>2. Unlex => Same /\ Shown
  BY <1>a, <1>b DEF Unlex, redb
<1>3. Forget \/ Record => Same /\ Shown
  BY <1>0 DEF Forget, Record, keyword
<1>4. Embed => Same /\ Shown
  BY <1>0, <1>c DEF Embed, redb
<1>5. Publish => Same /\ Shown
  BY DEF Publish, redb
<1>6. Hash => Same /\ Shown
  BY <1>0 DEF Hash, keyword
<1>7. Failing => Same /\ Shown
  <2>1. UnlexFails => Same /\ Shown
    <3>1. UnlexFails => /\ lex' \in {lex, Deleted} /\ draft' \in {lex, Deleted}
                        /\ vec' \in {vec, Unvectored} /\ UNCHANGED <<docHash, lexHash, meta>>
      BY DEF UnlexFails, Uncommitted, redb
    <3> QED BY <1>a, <1>b, <3>1
  <2>2. EmbedFails \/ StepFails => Same /\ Shown
    BY DEF EmbedFails, StepFails, stores, redb, keyword
  <2>3. Strand => Same /\ Shown
    BY <1>c DEF Strand, redb
  <2>4. PublishFails => Same /\ Shown
    <3>1. PublishFails => /\ lex' \in {lex, draft} /\ draft' \in {lex, draft}
                          /\ UNCHANGED <<docHash, lexHash, meta, vec>>
      BY DEF PublishFails, Uncommitted, redb
    <3> QED BY <3>1
  <2> QED BY <2>1, <2>2, <2>3, <2>4 DEF Failing
<1> QED BY <1>1, <1>2, <1>3, <1>4, <1>5, <1>6, <1>7

\* The last step of a document writes the hash of what is in the index.
LEMMA ClaimAtHash ==
  ASSUME AllInv, Hash, NEW d \in Doc, d = engine.doc
  PROVE  Claim(d)'
<1> USE DEF AllInv
<1>1. PICK step \in {"hash", "unhash", "lexhash", "drop"} : At(step) BY DEF Hash
<1>2. Advance /\ UNCHANGED <<meta, lex, draft, vec, embedModel, undone, marker>>
  BY DEF Hash, keyword
<1>3. /\ Mid(d) /\ MidClaim(d) /\ Head(engine.steps) = step
      /\ engine.mode \in {"full", "lex"}
  BY <1>1, <1>2, NextStep, Busy DEF SkipInv
<1>4. Len(engine.steps) # 1 => Mid(d)' BY <1>1, <1>2, <1>3, NextStep DEF Mid
<1>5. CASE Len(engine.steps) # 1
  BY <1>4, <1>5 DEF Claim, Claimed
<1>6. CASE Len(engine.steps) = 1
  <2>1. step = LastOf(engine.mode, engine.text) /\ step \in StepsOf(engine.mode, engine.text)
    BY <1>1, <1>2, <1>6, NextStep
  <2>2. docHash \in [Doc -> 0..edits] /\ lexHash \in [Doc -> 0..edits]
    BY DEF TypeInv, Past
  <2>a. draft'[d] = lex'[d]
    <3>1. step # "hash" BY <2>1 DEF LastOf
    <3> QED BY <1>2, <1>3, <3>1 DEF MidClaim
  <2>3. CASE step = "unhash"
    <3>1. engine.mode = "full" /\ engine.text # 0
      BY <1>3, <2>1, <2>3 DEF LastOf
    <3>2. /\ vec[d] = [text |-> engine.text, model |-> embedModel] /\ meta[d] = engine.text
          /\ LastIs(lex[d], engine.text) /\ docHash[d] = engine.text
      BY <1>3, <2>3, <3>1 DEF MidClaim
    <3>3. docHash' = docHash /\ lexHash'[d] = 0
      BY <1>1, <1>3, <2>2, <2>3 DEF Hash, At
    <3> QED BY <1>2, <2>a, <3>2, <3>3 DEF Claim, FullClaim, LexClaim, EffectiveLexHash
  <2>4. CASE step = "lexhash"
    <3>1. engine.text # 0
      BY <1>3, <2>1, <2>4 DEF LastOf
    <3>2. meta[d] = engine.text /\ LastIs(lex[d], engine.text)
      BY <1>3, <2>4 DEF MidClaim
    <3>3. docHash' = docHash /\ lexHash'[d] = engine.text
      BY <1>1, <1>3, <2>2, <2>4 DEF Hash, At
    <3> QED BY <1>2, <2>a, <3>1, <3>2, <3>3 DEF Claim, FullClaim, LexClaim, EffectiveLexHash
  <2>5. CASE step = "drop"
    <3>1. docHash'[d] = 0 /\ lexHash'[d] = 0
      BY <1>1, <1>3, <2>2, <2>5 DEF Hash, At
    <3> QED BY <1>2, <2>a, <3>1 DEF Claim, FullClaim, LexClaim, EffectiveLexHash
  <2> QED BY <1>1, <2>1, <2>3, <2>4, <2>5 DEF LastOf
<1> QED BY <1>5, <1>6

LEMMA ClaimAtPass ==
  ASSUME AllInv, NEW d \in Doc,
         \/ \E mode, whole, docs : Begin(mode, whole, docs)
         \/ (\E e \in Doc : Skip(e) \/ Take(e))
         \/ Unlex \/ Forget \/ Embed \/ Record \/ Publish \/ Hash \/ Failing \/ End
  PROVE  Claim(d)'
<1> USE DEF AllInv
<1>0. Claim(d) BY DEF SkipInv
<1>1. CASE (\E mode, whole, docs : Begin(mode, whole, docs)) \/ End
           \/ (\E e \in Doc : Skip(e) \/ Take(e))
  <2>1. UNCHANGED <<docHash, lexHash, meta, lex, draft, vec, embedModel, undone, marker, cut>>
    BY <1>1 DEF Begin, End, Skip, Take, stores, redb, keyword
  <2>2. engine.steps = <<>> /\ engine.at # "forcing"
    BY <1>1, FieldsAtPass, AtPass DEF End
  <2>3. Claimed(d)' => Claimed(d) BY <2>1, <2>2 DEF Claimed, Mid
  <2> QED BY <1>0, <2>1, <2>3, ClaimKept
<1>2. CASE Failing
  <2>1. engine.at = "reindexing" /\ cut' = cut \union {engine.doc}
    BY <1>2, AtPass DEF Failing, UnlexFails, EmbedFails, Strand, PublishFails, StepFails, GiveUp
  <2>2. CASE d = engine.doc BY <2>1, <2>2 DEF Claim, Claimed
  <2>3. CASE d # engine.doc
    <3>1. Claimed(d)' => Claimed(d) BY <2>1, <2>3 DEF Claimed, Mid
    <3> QED BY <1>0, <1>2, <2>3, <3>1, OthersKept, ClaimKept
  <2> QED BY <2>2, <2>3
<1>3. CASE Unlex \/ Forget \/ Embed \/ Record \/ Publish \/ Hash
  <2>1. CASE d # engine.doc
    <3>1. PICK step : At(step) /\ Advance
      BY <1>3 DEF Unlex, Forget, Embed, Record, Publish, Hash
    <3>2. (d \in cut' <=> d \in cut) /\ ~Mid(d) /\ engine.at # "forcing"
      BY <2>1, <3>1, NextStep DEF At
    <3>3. Claimed(d)' => Claimed(d) BY <3>2 DEF Claimed
    <3> QED BY <1>0, <1>3, <2>1, <3>3, OthersKept, ClaimKept
  <2>2. CASE d = engine.doc /\ Hash
    BY <2>2, ClaimAtHash
  <2>3. CASE d = engine.doc /\ ~Hash
    <3>1. PICK step \in {"unlex", "forget", "embed", "record", "publish"} : At(step) /\ Advance
      BY <1>3, <2>3 DEF Unlex, Forget, Embed, Record, Publish
    <3>2. Len(engine.steps) # 1
      <4>1. step # LastOf(engine.mode, engine.text) BY <3>1 DEF LastOf
      <4> QED BY <3>1, <4>1, NextStep
    <3>3. Mid(d)' BY <2>3, <3>1, <3>2, NextStep DEF Mid
    <3> QED BY <3>3 DEF Claim, Claimed
  <2> QED BY <1>3, <2>1, <2>2, <2>3
<1> QED BY <1>1, <1>2, <1>3

LEMMA MidClaimStep ==
  ASSUME AllInv, [IndexNext]_indexVars, NEW d \in Doc
  PROVE  MidClaim(d)'
<1> USE DEF AllInv
<1>0. MidClaim(d) BY DEF SkipInv
<1>a. /\ meta \in [Doc -> 0..edits] /\ docHash \in [Doc -> 0..edits]
      /\ vec \in [Doc -> [text : 1..MaxEdit, model : Model] \union {NoVector}]
  BY DEF TypeInv, Past, StoresTyped
<1>1. CASE UNCHANGED indexVars \/ (\E e \in Doc : Edit(e))
  <2>1. UNCHANGED <<engine, docHash, meta, lex, draft, vec, embedModel>>
    BY <1>1 DEF indexVars, stores, redb, keyword, Edit
  <2> QED BY <1>0, <2>1 DEF MidClaim, Mid
<1>3. CASE engine'.at # "reindexing" \/ engine'.steps = <<>>
  BY <1>3 DEF MidClaim, Mid
<1>4. CASE Upgrade \/ Open \/ Mark \/ WipeOld \/ Refill \/ Unmark \/ FixLex \/ Close \/ Kill \/ Query
  <2>1. engine'.at # "reindexing"
    <3>1. Upgrade \/ Query => engine' = engine /\ engine.at # "reindexing" BY DEF Upgrade, Query
    <3> QED BY <1>4, <3>1, AtOpening
  <2> QED BY <1>3, <2>1
<1>5. CASE (\E m \in Model : Rebuild(m)) \/ Remake \/ (\E e \in Doc : Reembed(e)) \/ ReembedFails
           \/ Persist \/ ForceReindex \/ Wipe
  BY <1>3, <1>5, AtSwitch
<1>6. CASE (\E mode, whole, docs : Begin(mode, whole, docs)) \/ (\E e \in Doc : Skip(e))
           \/ Failing \/ End
  <2>1. engine'.at # "reindexing" \/ engine'.steps = <<>>
    BY <1>6, FieldsAtPass, AtPass
  <2> QED BY <1>3, <2>1
<1>7. ASSUME NEW e \in Doc, Take(e) PROVE MidClaim(d)'
  <2>1. /\ engine'.doc = e
        /\ engine'.steps = IF file[e] = 0 THEN RemoveSteps \o <<"drop">>
                           ELSE RemoveSteps \o IndexSteps \o HashSteps
    BY <1>7, FieldsAtPass
  <2>2. Head(engine'.steps) = "unlex"
    BY <2>1, DropSteps, WriteSteps
  <2> QED BY <2>2 DEF MidClaim
<1>8. CASE Unlex \/ Forget \/ Embed \/ Record \/ Publish \/ Hash
  <2>0. PICK step : At(step) /\ Advance
    BY <1>8 DEF Unlex, Forget, Embed, Record, Publish, Hash
  <2>1. CASE d # engine.doc
    <3>1. ~Mid(d)' BY <2>0, <2>1, NextStep
    <3> QED BY <3>1 DEF MidClaim
  <2>2. CASE d = engine.doc /\ Len(engine.steps) = 1
    <3>1. ~Mid(d)' BY <2>0, <2>2, NextStep
    <3> QED BY <3>1 DEF MidClaim
  <2>3. CASE d = engine.doc /\ Len(engine.steps) # 1
    <3> DEFINE next == Head(engine'.steps)
               text == engine.text
    <3>2. /\ <<step, next>> \in Follows
          /\ engine'.mode = engine.mode /\ engine'.text = text
          /\ Mid(d) /\ Head(engine.steps) = step
      BY <2>0, <2>3, NextStep, Busy
    <3>3. /\ engine.mode = "full" /\ step \in {"record", "publish", "hash", "unhash"} =>
               vec[d] = [text |-> text, model |-> embedModel]
          /\ step \in {"record", "publish"} => LastIs(draft[d], text)
          /\ step \in {"publish", "hash", "unhash", "lexhash"} => meta[d] = text
          /\ step \in {"hash", "unhash", "lexhash"} => LastIs(lex[d], text)
          /\ step \in {"forget", "drop", "hash", "unhash", "lexhash"} => draft[d] = lex[d]
          /\ step = "unhash" => docHash[d] = text
      BY <1>0, <3>2 DEF MidClaim
    <3> HIDE DEF next, text
    <3>4. /\ next \notin {"unlex", "lex"}
          /\ next = "forget" => step = "unlex"
          /\ next \in {"drop", "embed"} => step = "forget"
          /\ next = "record" => step = "embed"
          /\ next = "publish" => step = "record"
          /\ next \in {"hash", "lexhash"} => step = "publish"
          /\ next = "unhash" => step = "hash"
      BY <3>2 DEF Follows
    <3>a. /\ step = "unlex" => Unlex
          /\ step = "forget" => Forget
          /\ step = "embed" => Embed
          /\ step = "record" => Record
          /\ step = "publish" => Publish
          /\ step = "hash" => Hash
      BY <1>8, <2>0 DEF At, Unlex, Forget, Embed, Record, Publish, Hash
    <3>5. embedModel' = embedModel
      BY <1>8 DEF Unlex, Forget, Embed, Record, Publish, Hash
    <3>6. engine.mode = "full" /\ next \in {"record", "publish", "hash", "unhash"} =>
            vec'[d] = [text |-> text, model |-> embedModel]
      <4>1. step = "embed" /\ engine.mode = "full" => vec'[d] = [text |-> text, model |-> embedModel]
        BY <1>a, <2>3, <3>a DEF Embed, text
      <4>2. step \in {"record", "publish", "hash"} => vec' = vec
        BY <3>a DEF Record, Publish, Hash
      <4> QED BY <3>3, <3>4, <4>1, <4>2
    <3>7. next \in {"record", "publish"} => LastIs(draft'[d], text)
      <4>1. step = "embed" => LastIs(draft'[d], text)
        BY <2>3, <3>a, AddedEntries DEF Embed, LastIs, text
      <4>2. step = "record" => draft' = draft
        BY <3>a DEF Record, keyword
      <4> QED BY <3>3, <3>4, <4>1, <4>2
    <3>8. next \in {"publish", "hash", "unhash", "lexhash"} => meta'[d] = text
      <4>1. step = "record" => meta'[d] = text
        BY <1>a, <2>3, <3>a DEF Record, text
      <4>2. step \in {"publish", "hash"} => meta' = meta
        BY <3>a DEF Publish, Hash, redb
      <4> QED BY <3>3, <3>4, <4>1, <4>2
    <3>9. next \in {"hash", "unhash", "lexhash"} => LastIs(lex'[d], text)
      <4>1. step = "publish" => lex' = draft
        BY <3>a DEF Publish
      <4>2. step = "hash" => lex' = lex
        BY <3>a DEF Hash, keyword
      <4> QED BY <3>3, <3>4, <4>1, <4>2
    <3>10. next \in {"forget", "drop", "hash", "unhash", "lexhash"} => draft'[d] = lex'[d]
      <4>1. step = "unlex" => draft' = lex' BY <3>a DEF Unlex
      <4>2. step \in {"forget", "hash"} => draft' = draft /\ lex' = lex
        BY <3>a DEF Forget, Hash, keyword
      <4>3. step = "publish" => draft' = draft /\ lex' = draft BY <3>a DEF Publish
      <4> QED BY <3>3, <3>4, <4>1, <4>2, <4>3
    <3>11. next = "unhash" => docHash'[d] = text
      <4>1. step = "hash" => docHash'[d] = text
        BY <1>a, <2>0, <2>3, <3>a DEF Hash, At, text
      <4> QED BY <3>4, <4>1
    <3> QED BY <3>2, <3>5, <3>6, <3>7, <3>8, <3>9, <3>10, <3>11 DEF MidClaim, next
  <2> QED BY <2>1, <2>2, <2>3
<1> QED BY <1>1, <1>4, <1>5, <1>6, <1>7, <1>8 DEF IndexNext, Failing

LEMMA OthersOfSkipInv ==
  ASSUME AllInv, [IndexNext]_indexVars
  PROVE  Refilled' /\ Switching' /\ WipedOut'
<1> USE DEF AllInv
<1>1. Refilled'
  <2> SUFFICES ASSUME engine'.at = "unmarking", NEW d \in Doc
               PROVE  lex'[d] = IF meta'[d] = 0 THEN <<>> ELSE <<meta'[d]>>
    BY DEF Refilled
  <2>1. CASE UNCHANGED indexVars \/ (\E e \in Doc : Edit(e)) \/ Upgrade \/ Query
    <3>1. UNCHANGED <<engine, meta, lex>>
      BY <2>1 DEF indexVars, stores, redb, keyword, Edit, Upgrade, Query
    <3> QED BY <3>1 DEF SkipInv, Refilled
  <2>2. CASE Refill
    <3>1. meta' = meta /\ lex' = Remade BY <2>2, AtOpening DEF Refill, Replace, redb
    <3> QED BY <3>1 DEF Remade
  <2>3. CASE Open \/ Mark \/ WipeOld \/ Unmark \/ FixLex \/ Close \/ Kill
    BY <2>3, AtOpening
  <2>4. CASE \/ \E mode, whole, docs : Begin(mode, whole, docs)
             \/ (\E e \in Doc : Skip(e) \/ Take(e))
             \/ Unlex \/ Forget \/ Embed \/ Record \/ Publish \/ Hash \/ Failing \/ End
    BY <2>4, AtPass
  <2>5. CASE (\E m \in Model : Rebuild(m)) \/ Remake \/ (\E e \in Doc : Reembed(e)) \/ ReembedFails
             \/ Persist \/ ForceReindex \/ Wipe
    BY <2>5, AtSwitch
  <2> QED BY <2>1, <2>2, <2>3, <2>4, <2>5 DEF IndexNext, Failing
<1>2. Switching'
  <2>1. CASE UNCHANGED indexVars \/ (\E e \in Doc : Edit(e)) \/ Upgrade \/ Query \/ Remake
    <3>1. UNCHANGED <<engine, meta, vec, undone>>
      BY <2>1 DEF indexVars, stores, redb, keyword, Edit, Upgrade, Query, Remake
    <3> QED BY <3>1 DEF SkipInv, Switching
  <2>2. ASSUME NEW m \in Model, Rebuild(m) PROVE Switching'
    <3>1. engine'.todo = {d \in Doc : meta[d] # 0} BY <2>2, FieldsAtSwitch
    <3>2. undone' /\ meta' = meta BY <2>2 DEF Rebuild, redb
    <3> QED BY <3>1, <3>2 DEF Switching
  <2>3. ASSUME NEW d \in Doc, Reembed(d) PROVE Switching'
    <3>1. /\ engine'.todo = engine.todo \ {d} /\ engine'.model = engine.model
          /\ engine.at = "rebuilding"
      BY <2>3, FieldsAtSwitch, AtSwitch
    <3>2. /\ undone' = undone /\ meta' = meta
          /\ vec' = [vec EXCEPT ![d] = [text |-> meta[d], model |-> engine.model]]
      BY <2>3 DEF Reembed, redb
    <3>3. \A e \in Doc : vec'[e] = IF e = d THEN [text |-> meta[d], model |-> engine.model] ELSE vec[e]
      BY <3>2 DEF TypeInv, StoresTyped
    <3> QED BY <3>1, <3>2, <3>3 DEF SkipInv, Switching
  <2>4. CASE Open \/ Mark \/ WipeOld \/ Refill \/ Unmark \/ FixLex \/ Close \/ Kill
    BY <2>4, AtOpening DEF Switching
  <2>5. CASE \/ \E mode, whole, docs : Begin(mode, whole, docs)
             \/ (\E e \in Doc : Skip(e) \/ Take(e))
             \/ Unlex \/ Forget \/ Embed \/ Record \/ Publish \/ Hash \/ Failing \/ End
    BY <2>5, AtPass DEF Switching
  <2>6. CASE ReembedFails \/ Persist \/ ForceReindex \/ Wipe
    BY <2>6, AtSwitch DEF Switching
  <2> QED BY <2>1, <2>2, <2>3, <2>4, <2>5, <2>6 DEF IndexNext, Failing
<1>3. WipedOut'
  <2>1. CASE UNCHANGED indexVars \/ (\E e \in Doc : Edit(e)) \/ Upgrade \/ Query
    <3>1. UNCHANGED <<engine, docHash, lexHash>>
      BY <2>1 DEF indexVars, stores, redb, keyword, Edit, Upgrade, Query
    <3> QED BY <3>1 DEF SkipInv, WipedOut
  <2>2. CASE ForceReindex
    <3> DEFINE s == <<"lex", "vectors", "redb", "marker">>
    <3>1. s[Len(s)] = "marker" /\ Head(s) = "lex" OBVIOUS
    <3>2. engine'.steps = s BY <2>2, FieldsAtSwitch
    <3> HIDE DEF s
    <3> QED BY <3>1, <3>2 DEF WipedOut
  <2>3. CASE Wipe
    <3> SUFFICES ASSUME engine'.at = "forcing" PROVE WipedOut'
      BY DEF WipedOut
    <3>1. /\ engine.at = "forcing" /\ engine.steps # <<>> /\ Len(engine.steps) # 1
          /\ engine'.steps = Tail(engine.steps)
      BY <2>3, FieldsAtSwitch, AtSwitch DEF Rested
    <3>2. engine.steps[Len(engine.steps)] = "marker" BY <3>1 DEF SkipInv, WipedOut
    <3> DEFINE r == Tail(engine.steps)
    <3>3. /\ engine.steps \in Seq(Step) /\ Len(engine.steps) \in Nat \ {0}
          /\ Len(r) = Len(engine.steps) - 1
          /\ \A i \in 1..Len(r) : r[i] = engine.steps[i + 1]
      BY <3>1, HeadIsFirst, HeadTailProperties DEF GInv, IndexShape, InOrder
    <3>4. r \in Seq(Step) BY <3>1, <3>3, HeadTailProperties
    <3> HIDE DEF r
    <3>5. Len(r) \in 1..Len(r) /\ Len(r) + 1 = Len(engine.steps)
      <4> DEFINE n == Len(engine.steps)
                 k == Len(r)
      <4>1. n \in Nat \ {0} /\ n # 1 /\ k = n - 1 BY <3>1, <3>3
      <4> HIDE DEF n, k
      <4>2. k \in 1..k /\ k + 1 = n BY ONLY <4>1
      <4> QED BY <4>2 DEF n, k
    <3>6. r[Len(r)] = "marker" BY ONLY <3>2, <3>3, <3>5
    <3>7. r # <<>> BY ONLY <3>4, <3>5, EmptySeq
    <3>8. Head(r) = "marker" => Head(engine.steps) = "redb"
      <4>1. <<Head(engine.steps), Head(r)>> \in Follows
        BY <3>1, <3>7, TailInOrder DEF GInv, IndexShape, r
      <4> QED BY <4>1 DEF Follows
    <3>9. Head(r) = "marker" => docHash' = Blank /\ lexHash' = Blank
      BY <2>3, <3>8 DEF Wipe, Wiping
    <3> QED BY <3>1, <3>6, <3>9 DEF WipedOut, r
  <2>4. CASE Open \/ Mark \/ WipeOld \/ Refill \/ Unmark \/ FixLex \/ Close \/ Kill
    BY <2>4, AtOpening DEF WipedOut
  <2>5. CASE \/ \E mode, whole, docs : Begin(mode, whole, docs)
             \/ (\E e \in Doc : Skip(e) \/ Take(e))
             \/ Unlex \/ Forget \/ Embed \/ Record \/ Publish \/ Hash \/ Failing \/ End
    BY <2>5, AtPass DEF WipedOut
  <2>6. CASE (\E m \in Model : Rebuild(m)) \/ Remake \/ (\E e \in Doc : Reembed(e)) \/ ReembedFails
             \/ Persist
    BY <2>6, AtSwitch DEF WipedOut
  <2> QED BY <2>1, <2>2, <2>3, <2>4, <2>5, <2>6 DEF IndexNext, Failing
<1> QED BY <1>1, <1>2, <1>3

\* Of any documents, models and bounds, and whatever is killed or fails: what
\* a reindex passes over, because its hash is current, is in the index with its
\* text and its vector, but for the documents a pass was cut short on, for the
\* vector when the last pass was a keyword one, and for a change of the model
\* that was cut short (reindex_existing_doc, index_doc_mode, remove_doc).
THEOREM WhatIsSkippedIsIndexed == IndexSpec => []SkippedIsIndexed
<1>1. IndexInit => SkipInv
  BY Engines DEF IndexInit, SkipInv, Claim, Claimed, FullClaim, LexClaim, EffectiveLexHash, MidClaim,
                 Mid, Refilled, Switching, WipedOut, Blank
<1>2. ASSUME AllInv, [IndexNext]_indexVars PROVE SkipInv'
  <2>1. ASSUME NEW d \in Doc PROVE Claim(d)'
    BY <1>2, <2>1, ClaimAtOpening, ClaimAtSwitch, ClaimAtPass DEF IndexNext, Failing
  <2>2. \A d \in Doc : MidClaim(d)'
    BY <1>2, MidClaimStep
  <2>3. Refilled' /\ Switching' /\ WipedOut' BY <1>2, OthersOfSkipInv
  <2> QED BY <2>1, <2>2, <2>3 DEF SkipInv
<1>3. AllInv => SkippedIsIndexed
  <2> SUFFICES ASSUME AllInv, engine.at = "ready", NEW d \in Doc \ cut, file[d] # 0
               PROVE  /\ EffectiveLexHash(d) = file[d] =>
                           lex[d] # <<>> /\ lex[d][Len(lex[d])] = file[d]
                      /\ docHash[d] = file[d] /\ lexHash[d] = 0 /\ ~undone =>
                           vec[d] = [text |-> file[d], model |-> embedModel]
    BY DEF SkippedIsIndexed
  <2>1. FullClaim(d) /\ LexClaim(d) BY DEF AllInv, SkipInv, Claim, Claimed, Mid
  <2>2. ~marker BY DEF AllInv, MemoInv, Positions
  <2> QED BY <2>1, <2>2 DEF FullClaim, LexClaim, LastIs
<1> QED BY <1>1, <1>2, <1>3, TypeInvAlways, PTL DEF IndexSpec, AllInv
-----------------------------------------------------------------------------
(***************************************************************************)
(* Notes.  An editor that is not misled holds a rev that is no later than  *)
(* that of the note at its path, and has seen the text if it is the same   *)
(* one: a PUT makes the rev advance, and every other write that leaves a   *)
(* rev some editor holds makes it one of the misled.  No assumption about  *)
(* the clock is needed.                                                    *)
(***************************************************************************)

Moving == move.at \in {"rewriting", "undoing"}

Seen(t) ==
  LET p == tab[t].path
  IN  Exists(p) => /\ tab[t].rev <= note[p].rev
                   /\ tab[t].rev = note[p].rev => note[p].pieces = tab[t].pieces

SeenUnlessMisled == \A t \in Tab \ misled : Seen(t)

MovedAway == Moving => ~Exists(move.from) /\ Exists(move.to)

KInv == NotesTypeOK /\ SeenUnlessMisled /\ MovedAway /\ NothingLost

\* What a move has done to the vault so far, and will do.
NothingIsNoNote == \A p \in Path : ~Exists(p) => note[p].links = {}

Linked(p) == Base(move.from) \in move.before[p].links

PlanOf ==
  {p \in Path \ {move.from} :
     Renames(move.from, move.to, move.update) /\ p \notin move.skipped /\ Linked(p)}

Reads(p, pieces, links) == note[p].pieces = pieces /\ note[p].links = links
AsBefore(p) == Reads(p, move.before[p].pieces, move.before[p].links)
AsRewritten(p) == Reads(p, move.before[p].pieces, Relinked(move.before[p].links))

BeforeIsText ==
  \A p \in Path : /\ move.before[p].rev = 0
                  /\ move.before[p].pieces = {} => move.before[p].links = {}

Progress ==
  Moving =>
    /\ move.from # move.to /\ BeforeIsText /\ move.before[move.to].pieces = {}
    /\ move.todo \subseteq PlanOf /\ move.done \subseteq PlanOf /\ move.unrestored \subseteq move.done
    /\ Reads(move.from, {}, {})
    /\ Reads(move.to, move.before[move.from].pieces, move.before[move.from].links)
    /\ move.at = "rewriting" =>
         /\ move.todo = PlanOf \ move.done /\ move.unrestored = {}
         /\ \A p \in Path \ {move.from, move.to} :
              IF p \in move.done THEN AsRewritten(p) ELSE AsBefore(p)
    /\ move.at = "undoing" =>
         /\ move.todo \subseteq move.done
         /\ \A p \in Path \ {move.from, move.to} :
              \/ AsBefore(p)
              \/ p \in move.todo \union move.unrestored /\ AsRewritten(p)

MInv == NotesTypeOK /\ NothingIsNoNote /\ Progress /\ MoveTellsTheTruth

-----------------------------------------------------------------------------
(* What the operations write *)

LEMMA TickSpans ==
  /\ TickSpan \in Nat
  /\ \A c \in Nat : TickSpan * c \in Nat
  <1>1. TickSpan \in Nat
    BY BoundsNat DEF TickSpan
  <1>2. \A k, c \in Nat : k * c \in Nat
    OBVIOUS
  <1> QED BY <1>1, <1>2

LEMMA TickTyped ==
  ASSUME NotesTypeOK, Ticks
  PROVE  tick' \in 0..MaxTick /\ TickSpan * tick' \in Nat
  <1>1. tick' \in 0..MaxTick /\ tick' \in Nat
    BY BoundsNat DEF NotesTypeOK, Ticks
  <1> QED BY <1>1, TickSpans

\* ensure_rev_advanced is what its name says, when it succeeds.
LEMMA StampTyped ==
  ASSUME NotesTypeOK, NEW p \in Path, NEW advances \in BOOLEAN, Ticks
  PROVE  Stamped(p, advances) \in Nat /\ (advances => note[p].rev < Stamped(p, advances))
  <1>1. TickSpan * tick' \in Nat /\ note[p].rev \in Nat
    BY TickTyped DEF NotesTypeOK, Note
  <1> DEFINE stamp == TickSpan * tick'
             rev == note[p].rev
  <1> HIDE DEF stamp, rev
  <1>2. stamp \in Nat /\ rev \in Nat
    BY <1>1 DEF stamp, rev
  <1>3. Advanced(rev, stamp) \in Nat /\ rev < Advanced(rev, stamp)
    BY <1>2 DEF Advanced
  <1>4. Stamped(p, advances) = IF advances THEN Advanced(rev, stamp) ELSE stamp
    BY DEF Stamped, stamp, rev
  <1> QED BY <1>2, <1>3, <1>4 DEF rev

\* What a rewritten note, and one that was added to, reads.
LEMMA LinksEdited ==
  ASSUME NEW n \in Note, NEW links \in SUBSET Name, NEW rev \in Nat
  PROVE  /\ [n EXCEPT !.links = links, !.rev = rev] \in Note
         /\ [n EXCEPT !.links = links, !.rev = rev].pieces = n.pieces
         /\ [n EXCEPT !.links = links, !.rev = rev].links = links
         /\ [n EXCEPT !.links = links, !.rev = rev].rev = rev
  BY DEF Note

LEMMA PiecesEdited ==
  ASSUME NEW n \in Note, NEW pieces \in SUBSET Piece, NEW rev \in Nat
  PROVE  /\ [n EXCEPT !.pieces = pieces, !.rev = rev] \in Note
         /\ [n EXCEPT !.pieces = pieces, !.rev = rev].pieces = pieces
         /\ [n EXCEPT !.pieces = pieces, !.rev = rev].links = n.links
         /\ [n EXCEPT !.pieces = pieces, !.rev = rev].rev = rev
  BY DEF Note

LEMMA WritesTyped ==
  ASSUME NotesTypeOK, NEW p \in Path, NEW rev \in Nat, NEW seen, Writes(p, rev, seen)
  PROVE  /\ note' \in [Path -> Note] /\ written' \in 0..MaxPiece /\ kept' \subseteq Piece
         /\ note'[p] = [pieces |-> {<<p, written'>>}, links |-> {}, rev |-> rev]
         /\ note' = [note EXCEPT ![p] = note'[p]] /\ note'[p] \in Note
  <1>1. written' \in 0..MaxPiece /\ written' \in -1..MaxPiece
    BY BoundsNat DEF Writes, NotesTypeOK
  <1>2. <<p, written'>> \in Piece
    BY <1>1 DEF Piece
  <1>3. [pieces |-> {<<p, written'>>}, links |-> {}, rev |-> rev] \in Note
    BY <1>2 DEF Note
  <1> QED BY <1>1, <1>2, <1>3 DEF Writes, NotesTypeOK

LEMMA NoNoteTyped == NoNote \in Note /\ NoMove \in {NoMove} \union Move
  BY DEF NoNote, Note

LEMMA SuffixTyped ==
  ASSUME NotesTypeOK, NEW p \in Path, Ticks
  PROVE  <<p, Suffix(p)>> \in Path \X (0..MaxTick)
  <1>1. SecondOf[tick'] \in 1..MaxTick
    BY TickTyped, SecondsType
  <1> QED BY <1>1, BoundsNat DEF Suffix

\* Each operation that writes one note replaces it by another.
LEMMA AddWrites ==
  ASSUME NotesTypeOK, NEW p \in Path, Add(p)
  PROVE  \E n \in Note : /\ note' = [note EXCEPT ![p] = n] /\ n.rev = TickSpan * tick'
                         /\ n.pieces = note[p].pieces \union {<<p, written'>>}
                         /\ n.links = note[p].links
  <1> DEFINE n == [note[p] EXCEPT !.pieces = note[p].pieces \union {<<p, written'>>},
                                  !.rev = TickSpan * tick']
  <1>1. TickSpan * tick' \in Nat /\ note[p] \in Note
    BY TickTyped DEF Add, NotesTypeOK
  <1>2. written' \in -1..MaxPiece
    BY BoundsNat DEF Add, NotesTypeOK
  <1>3. note[p].pieces \union {<<p, written'>>} \in SUBSET Piece
    BY <1>1, <1>2 DEF Piece, Note
  <1>4. /\ n \in Note /\ n.rev = TickSpan * tick' /\ n.links = note[p].links
        /\ n.pieces = note[p].pieces \union {<<p, written'>>}
    <2>1. n \in Note
      BY <1>1, <1>3, PiecesEdited
    <2>2. n.rev = TickSpan * tick'
      BY <1>1 DEF Note
    <2>3. n.pieces = note[p].pieces \union {<<p, written'>>}
      BY <1>1 DEF Note
    <2>4. n.links = note[p].links
      BY <1>1 DEF Note
    <2> QED BY <2>1, <2>2, <2>3, <2>4
  <1>5. note' = [note EXCEPT ![p] = n]
    BY DEF Add
  <1> QED BY <1>4, <1>5

LEMMA RewriteWrites ==
  ASSUME NotesTypeOK, NEW p \in Path, Rewrite(p)
  PROVE  \E n \in Note : /\ note' = [note EXCEPT ![p] = n] /\ n.rev = TickSpan * tick'
                         /\ n.pieces = note[p].pieces /\ n.links = Relinked(note[p].links)
  <1> DEFINE n == [note[p] EXCEPT !.links = Relinked(note[p].links), !.rev = TickSpan * tick']
  <1>1. TickSpan * tick' \in Nat /\ note[p] \in Note
    BY TickTyped DEF Rewrite, NotesTypeOK
  <1>2. Relinked(note[p].links) \in SUBSET Name
    <2>1. move \in Move
      BY DEF NotesTypeOK, Rewrite, NoMove
    <2> QED BY <1>1, <2>1 DEF Relinked, Base, Path, Move, Note
  <1>3. /\ n \in Note /\ n.rev = TickSpan * tick' /\ n.pieces = note[p].pieces
        /\ n.links = Relinked(note[p].links)
    <2>1. n \in Note
      BY <1>1, <1>2, LinksEdited
    <2>2. n.rev = TickSpan * tick'
      BY <1>1 DEF Note
    <2>3. n.pieces = note[p].pieces
      BY <1>1 DEF Note
    <2>4. n.links = Relinked(note[p].links)
      BY <1>1 DEF Note
    <2> QED BY <2>1, <2>2, <2>3, <2>4
  <1>4. note' = [note EXCEPT ![p] = n]
    BY DEF Rewrite
  <1> QED BY <1>3, <1>4

LEMMA RestoreWrites ==
  ASSUME NotesTypeOK, NEW p \in Path, Restore(p)
  PROVE  \/ /\ UNCHANGED <<note, tick, misled>>
            /\ move' = [move EXCEPT !.todo = @ \ {p}, !.unrestored = @ \union {p}]
         \/ /\ Ticks /\ move' = [move EXCEPT !.todo = @ \ {p}]
            /\ misled' = Misled(p, TickSpan * tick', FALSE)
            /\ \E n \in Note : /\ note' = [note EXCEPT ![p] = n] /\ n.rev = TickSpan * tick'
                               /\ n.pieces = note[p].pieces /\ n.links = move.before[p].links
  <1> DEFINE n == [note[p] EXCEPT !.links = move.before[p].links, !.rev = TickSpan * tick']
  <1> SUFFICES ASSUME Ticks, note' = [note EXCEPT ![p] = n], move' = [move EXCEPT !.todo = @ \ {p}]
               PROVE  \E m \in Note : /\ note' = [note EXCEPT ![p] = m] /\ m.rev = TickSpan * tick'
                                      /\ m.pieces = note[p].pieces /\ m.links = move.before[p].links
    BY DEF Restore
  <1>1. TickSpan * tick' \in Nat /\ note[p] \in Note
    BY TickTyped DEF NotesTypeOK
  <1>2. move.before[p].links \in SUBSET Name
    <2>1. move \in Move
      BY DEF NotesTypeOK, Restore, NoMove
    <2> QED BY <2>1 DEF Move, Note
  <1>3. /\ n \in Note /\ n.rev = TickSpan * tick' /\ n.pieces = note[p].pieces
        /\ n.links = move.before[p].links
    <2>1. n \in Note
      BY <1>1, <1>2, LinksEdited
    <2>2. n.rev = TickSpan * tick'
      BY <1>1 DEF Note
    <2>3. n.pieces = note[p].pieces
      BY <1>1 DEF Note
    <2>4. n.links = move.before[p].links
      BY <1>1 DEF Note
    <2> QED BY <2>1, <2>2, <2>3, <2>4
  <1> QED BY <1>3

\* A create, and an overwrite, which may advance the rev.
LEMMA CreateWrites ==
  ASSUME NotesTypeOK, NEW p \in Path, Create(p)
  PROVE  \E n \in Note : /\ note' = [note EXCEPT ![p] = n] /\ n.rev = TickSpan * tick'
                         /\ n.pieces = {<<p, written'>>} /\ n.links = {}
                         /\ misled' = Misled(p, n.rev, FALSE)
  <1>1. Ticks /\ Writes(p, TickSpan * tick', {}) /\ misled' = Misled(p, TickSpan * tick', FALSE)
    BY DEF Create
  <1>2. TickSpan * tick' \in Nat
    BY <1>1, TickTyped
  <1>3. /\ note'[p] = [pieces |-> {<<p, written'>>}, links |-> {}, rev |-> TickSpan * tick']
        /\ note' = [note EXCEPT ![p] = note'[p]] /\ note'[p] \in Note
    BY <1>1, <1>2, WritesTyped
  <1>4. /\ note'[p].rev = TickSpan * tick' /\ note'[p].pieces = {<<p, written'>>}
        /\ note'[p].links = {}
    BY <1>3
  <1> QED BY <1>1, <1>3, <1>4

LEMMA OverwriteWrites ==
  ASSUME NotesTypeOK, NEW p \in Path, Overwrite(p)
  PROVE  \E n \in Note, advances \in BOOLEAN :
           /\ note' = [note EXCEPT ![p] = n] /\ (advances => note[p].rev < n.rev)
           /\ n.pieces = {<<p, written'>>} /\ n.links = {}
           /\ misled' = Misled(p, n.rev, advances)
  <1>1. Ticks
    BY DEF Overwrite
  <1>2. PICK advances \in BOOLEAN : /\ Writes(p, Stamped(p, advances), note[p].pieces)
                                    /\ misled' = Misled(p, Stamped(p, advances), advances)
    BY DEF Overwrite
  <1>3. Stamped(p, advances) \in Nat /\ (advances => note[p].rev < Stamped(p, advances))
    BY <1>1, StampTyped
  <1> HIDE DEF Stamped
  <1>4. /\ note'[p] = [pieces |-> {<<p, written'>>}, links |-> {}, rev |-> Stamped(p, advances)]
        /\ note' = [note EXCEPT ![p] = note'[p]] /\ note'[p] \in Note
    BY <1>2, <1>3, WritesTyped
  <1>5. note'[p].rev = Stamped(p, advances) /\ note'[p].pieces = {<<p, written'>>} /\ note'[p].links = {}
    BY <1>4
  <1> QED BY <1>2, <1>3, <1>4, <1>5

\* A save of an editor over the text it has, or believes it has, loaded.
LEMMA SaveWrites ==
  ASSUME NotesTypeOK, NEW t \in Tab, SaveLoaded(t)
  PROVE  LET p == tab[t].path
         IN  /\ p \in Path /\ Exists(p) /\ note[p].rev = tab[t].rev
             /\ \E n \in Note, advances \in BOOLEAN :
                  /\ note' = [note EXCEPT ![p] = n] /\ (advances => note[p].rev < n.rev)
                  /\ n.pieces = {<<p, written'>>} /\ n.links = {}
                  /\ misled' = Misled(p, n.rev, advances) \ {t}
                  /\ tab' = [tab EXCEPT ![t] = [path |-> p, rev |-> n.rev, pieces |-> n.pieces]]
             /\ kept' = (kept \ tab[t].pieces) \union {<<p, written'>>}
             /\ written' \in 0..MaxPiece /\ kept' \subseteq Piece
  <1> DEFINE p == tab[t].path
  <1>1. Ticks /\ p \in Path /\ Exists(p) /\ note[p].rev = tab[t].rev
    BY DEF SaveLoaded, NotesTypeOK
  <1>2. PICK advances \in BOOLEAN : /\ Writes(p, Stamped(p, advances), tab[t].pieces)
                                    /\ misled' = Misled(p, Stamped(p, advances), advances) \ {t}
    BY DEF SaveLoaded
  <1>3. tab' = [tab EXCEPT ![t] = [path |-> p, rev |-> note'[p].rev, pieces |-> note'[p].pieces]]
    BY DEF SaveLoaded
  <1> HIDE DEF p
  <1>4. Stamped(p, advances) \in Nat /\ (advances => note[p].rev < Stamped(p, advances))
    BY <1>1, StampTyped
  <1>5. /\ note'[p] = [pieces |-> {<<p, written'>>}, links |-> {}, rev |-> Stamped(p, advances)]
        /\ note' = [note EXCEPT ![p] = note'[p]] /\ note'[p] \in Note
        /\ written' \in 0..MaxPiece /\ kept' \subseteq Piece
    BY <1>1, <1>2, <1>4, WritesTyped
  <1>6. note'[p].rev = Stamped(p, advances) /\ note'[p].pieces = {<<p, written'>>} /\ note'[p].links = {}
    BY <1>5
  <1>7. kept' = (kept \ tab[t].pieces) \union {<<p, written'>>}
    BY <1>2 DEF Writes
  <1> QED BY <1>1, <1>2, <1>3, <1>4, <1>5, <1>6, <1>7 DEF p

-----------------------------------------------------------------------------
(* Types *)

LEMMA NotesTypeStep == NotesTypeOK /\ [NotesNext]_noteVars => NotesTypeOK'
  <1> SUFFICES ASSUME NotesTypeOK, [NotesNext]_noteVars PROVE NotesTypeOK'
    OBVIOUS
  <1>0. \A p, rev, advances : Misled(p, rev, advances) \subseteq Tab
    BY DEF Misled
  <1>1. ASSUME NEW t \in Tab, SaveLoaded(t)
        PROVE  NotesTypeOK'
    <2> DEFINE p == tab[t].path
    <2>1. PICK n \in Note, advances \in BOOLEAN :
            /\ note' = [note EXCEPT ![p] = n]
            /\ misled' = Misled(p, n.rev, advances) \ {t}
            /\ tab' = [tab EXCEPT ![t] = [path |-> p, rev |-> n.rev, pieces |-> n.pieces]]
      BY <1>1, SaveWrites
    <2>2. p \in Path /\ written' \in 0..MaxPiece /\ kept' \subseteq Piece
      BY <1>1, SaveWrites
    <2>3. tick' \in 0..MaxTick
      BY <1>1, TickTyped DEF SaveLoaded
    <2>4. forfeit' \subseteq Piece
      BY <1>1, <2>2 DEF SaveLoaded, NotesTypeOK, Note
    <2>5. /\ move' = NoMove /\ ops' = ops + 1 /\ ops < MaxOps /\ UNCHANGED <<archived, trash>>
      BY <1>1 DEF SaveLoaded, Begins, Enters
    <2>6. ops' \in 0..MaxOps
      BY <2>5, BoundsNat DEF NotesTypeOK
    <2>7. note' \in [Path -> Note]
      BY <2>1, <2>2 DEF NotesTypeOK
    <2>8. tab' \in [Tab -> [path : Path, rev : Nat \union {-1}, pieces : SUBSET Piece]]
      BY <2>1, <2>2 DEF NotesTypeOK, Note
    <2> QED BY <1>0, <2>1, <2>2, <2>3, <2>4, <2>5, <2>6, <2>7, <2>8 DEF NotesTypeOK
  <1>2. ASSUME NEW t \in Tab, NEW p \in Path, Load(t, p)
        PROVE  NotesTypeOK'
    BY <1>2, BoundsNat DEF Load, Begins, Enters, NotesTypeOK, Note
  <1>3. ASSUME NEW p \in Path, Create(p) \/ Overwrite(p)
        PROVE  NotesTypeOK'
    <2>1. Ticks
      BY <1>3 DEF Create, Overwrite
    <2>2. tick' \in 0..MaxTick
      BY <2>1, TickTyped
    <2>3. \E rev \in Nat : \E seen : Writes(p, rev, seen)
      <3>1. CASE Create(p)
        BY <2>1, <3>1, TickTyped DEF Create
      <3>2. CASE Overwrite(p)
        BY <2>1, <3>2, StampTyped DEF Overwrite
      <3> QED BY <1>3, <3>1, <3>2
    <2>4. /\ note' \in [Path -> Note] /\ written' \in 0..MaxPiece /\ kept' \subseteq Piece
      BY <2>3, WritesTyped
    <2>5. misled' \subseteq Tab
      BY <1>3 DEF Create, Overwrite, Misled
    <2>6. /\ move' = NoMove /\ ops' = ops + 1 /\ ops < MaxOps
          /\ UNCHANGED <<archived, trash, tab, forfeit>>
      BY <1>3 DEF Create, Overwrite, Begins, Enters
    <2>7. ops' \in 0..MaxOps
      BY <2>6, BoundsNat DEF NotesTypeOK
    <2> QED BY <2>2, <2>4, <2>5, <2>6, <2>7 DEF NotesTypeOK
  <1>4. ASSUME NEW p \in Path, Add(p)
        PROVE  NotesTypeOK'
    <2>1. tick' \in 0..MaxTick
      BY <1>4, TickTyped DEF Add
    <2>2. written' \in 0..MaxPiece /\ written' \in -1..MaxPiece
      BY <1>4, BoundsNat DEF Add, NotesTypeOK
    <2>3. <<p, written'>> \in Piece
      BY <2>2 DEF Piece
    <2>4. note' \in [Path -> Note]
      BY <1>4, AddWrites DEF NotesTypeOK
    <2>5. misled' \subseteq Tab
      BY <1>0, <1>4 DEF Add
    <2>6. /\ move' = NoMove /\ ops' = ops + 1 /\ ops < MaxOps
          /\ UNCHANGED <<archived, trash, tab, forfeit>>
      BY <1>4 DEF Add, Begins, Enters
    <2>7. ops' \in 0..MaxOps
      BY <2>6, BoundsNat DEF NotesTypeOK
    <2>8. kept' \subseteq Piece
      BY <1>4, <2>3 DEF Add, NotesTypeOK
    <2> QED BY <2>1, <2>2, <2>4, <2>5, <2>6, <2>7, <2>8 DEF NotesTypeOK
  <1>5. ASSUME NEW p \in Path, Archive(p)
        PROVE  NotesTypeOK'
    <2>1. Base(p) \in Name
      BY DEF Base, Path
    <2> QED BY <1>5, <2>1, NoNoteTyped, BoundsNat DEF Archive, Begins, Enters, NotesTypeOK, Note
  <1>6. ASSUME NEW p \in Path, Delete(p)
        PROVE  NotesTypeOK'
    <2> DEFINE key == <<p, Suffix(p)>>
    <2>1. tick' \in 0..MaxTick /\ key \in Path \X (0..MaxTick)
      BY <1>6, TickTyped, SuffixTyped DEF Delete
    <2>2. /\ trash' = [trash EXCEPT ![key] = note[p].pieces]
          /\ forfeit' = forfeit \union trash[key] /\ note' = [note EXCEPT ![p] = NoNote]
          /\ move' = NoMove /\ ops' = ops + 1 /\ ops < MaxOps
          /\ UNCHANGED <<archived, tab, written, kept, misled>>
      BY <1>6 DEF Delete, Begins, Enters
    <2> HIDE DEF key
    <2>3. ops' \in 0..MaxOps
      BY <2>2, BoundsNat DEF NotesTypeOK
    <2>4. /\ trash' \in [Path \X (0..MaxTick) -> SUBSET Piece] /\ forfeit' \subseteq Piece
          /\ note' \in [Path -> Note]
      BY <2>1, <2>2, NoNoteTyped DEF NotesTypeOK, Note
    <2> QED BY <2>1, <2>2, <2>3, <2>4 DEF NotesTypeOK
  <1>7. ASSUME NEW p \in Path, NEW q \in Path, NEW update \in BOOLEAN, BeginMove(p, q, update)
        PROVE  NotesTypeOK'
    <2>1. [r \in Path |-> Text(note[r])] \in [Path -> Note]
      BY DEF Text, NotesTypeOK, Note
    <2>2. Read(p, q, update) \subseteq Path
      BY DEF Read
    <2>3. move' \in Move
      BY <1>7, <2>1, <2>2 DEF BeginMove, Planned, Move
    <2>4. note' \in [Path -> Note]
      BY <1>7, NoNoteTyped DEF BeginMove, NotesTypeOK
    <2>5. ops' = ops + 1 /\ ops < MaxOps /\ misled' \subseteq Tab
          /\ UNCHANGED <<archived, trash, tick, tab, written, kept, forfeit>>
      BY <1>0, <1>7 DEF BeginMove, Enters
    <2>6. ops' \in 0..MaxOps
      BY <2>5, BoundsNat DEF NotesTypeOK
    <2> QED BY <2>3, <2>4, <2>5, <2>6 DEF NotesTypeOK
  <1>8. ASSUME NEW p \in Path, Rewrite(p)
        PROVE  NotesTypeOK'
    <2>1. move \in Move
      BY <1>8 DEF NotesTypeOK, Rewrite, NoMove
    <2>2. tick' \in 0..MaxTick /\ misled' \subseteq Tab
      BY <1>0, <1>8, TickTyped DEF Rewrite
    <2>3. move' \in Move
      BY <1>8, <2>1 DEF Rewrite, Move
    <2>4. note' \in [Path -> Note]
      BY <1>8, RewriteWrites DEF NotesTypeOK
    <2> QED BY <1>8, <2>2, <2>3, <2>4 DEF Rewrite, NotesTypeOK
  <1>9. ASSUME NEW p \in Path, Restore(p)
        PROVE  NotesTypeOK'
    <2>1. move \in Move
      BY <1>9 DEF NotesTypeOK, Restore, NoMove
    <2>2. UNCHANGED <<archived, trash, tab, written, ops, kept, forfeit>>
      BY <1>9 DEF Restore
    <2>3. CASE /\ UNCHANGED <<note, tick, misled>>
               /\ move' = [move EXCEPT !.todo = @ \ {p}, !.unrestored = @ \union {p}]
      <3>1. move' \in Move
        BY <2>1, <2>3 DEF Move
      <3> QED BY <2>2, <2>3, <3>1 DEF NotesTypeOK
    <2>4. CASE /\ Ticks /\ move' = [move EXCEPT !.todo = @ \ {p}]
               /\ misled' = Misled(p, TickSpan * tick', FALSE)
               /\ \E n \in Note : note' = [note EXCEPT ![p] = n]
      <3>1. move' \in Move
        BY <2>1, <2>4 DEF Move
      <3>2. tick' \in 0..MaxTick /\ note' \in [Path -> Note]
        BY <2>4, TickTyped DEF NotesTypeOK
      <3> QED BY <1>0, <2>2, <2>4, <3>1, <3>2 DEF NotesTypeOK
    <2> QED BY <1>9, <2>3, <2>4, RestoreWrites
  <1>10. CASE EndMove \/ RewriteFails
    <2>1. move \in Move
      BY <1>10 DEF NotesTypeOK, EndMove, RewriteFails, NoMove
    <2>2. move' \in Move
      BY <1>10, <2>1 DEF EndMove, RewriteFails, ToRestore, Move
    <2> QED BY <1>10, <2>2 DEF EndMove, RewriteFails, NotesTypeOK
  <1>11. CASE MoveBack
    <2>1. move \in Move
      BY <1>11 DEF NotesTypeOK, MoveBack, NoMove
    <2>2. move' \in Move
      <3>1. CASE move' = [move EXCEPT !.at = "failed"] \/ move' = [move EXCEPT !.at = "incomplete"]
        BY <2>1, <3>1 DEF Move
      <3>2. CASE move' = [move EXCEPT !.at = "incomplete", !.unrestored = @ \union {move.to}]
        BY <2>1, <3>2 DEF Move
      <3> QED BY <1>11, <3>1, <3>2 DEF MoveBack
    <2>3. move.from \in Path /\ move.to \in Path
      BY <2>1 DEF Move
    <2>4. note' \in [Path -> Note]
      BY <1>11, <2>3, NoNoteTyped DEF MoveBack, NotesTypeOK
    <2>5. misled' \subseteq Tab
      BY <1>11 DEF MoveBack, NotesTypeOK, Misled
    <2> QED BY <1>11, <2>2, <2>4, <2>5 DEF MoveBack, NotesTypeOK
  <1>12. CASE KilledMoving
    BY <1>12 DEF KilledMoving, NotesTypeOK
  <1>13. CASE UNCHANGED noteVars
    BY <1>13 DEF noteVars, NotesTypeOK
  <1> QED BY <1>1, <1>2, <1>3, <1>4, <1>5, <1>6, <1>7, <1>8, <1>9, <1>10, <1>11, <1>12, <1>13
          DEF NotesNext

-----------------------------------------------------------------------------
(* What an editor has seen *)

\* A write: who holds a rev that the note now has, or may get, is misled.
LEMMA WriteIsSeen ==
  ASSUME NotesTypeOK, SeenUnlessMisled, NEW p \in Path, NEW n \in Note, NEW advances \in BOOLEAN,
         note' = [note EXCEPT ![p] = n], advances => Exists(p) /\ note[p].rev < n.rev,
         NEW t \in Tab, tab'[t] = tab[t], t \notin Misled(p, n.rev, advances)
  PROVE  Seen(t)'
  <1>1. note'[p] = n /\ \A q \in Path \ {p} : note'[q] = note[q]
    BY DEF NotesTypeOK
  <1>2. tab[t].path \in Path /\ tab[t].rev \in Nat \union {-1} /\ n.rev \in Nat /\ note[p].rev \in Nat
    BY DEF NotesTypeOK, Note
  <1>3. CASE tab[t].path # p
    <2>1. t \notin misled /\ note'[tab[t].path] = note[tab[t].path]
      BY <1>1, <1>2, <1>3 DEF Misled
    <2> QED BY <2>1 DEF SeenUnlessMisled, Seen, Exists
  <1>4. CASE tab[t].path = p
    <2>1. tab[t].rev < n.rev
      <3> SUFFICES ASSUME tab[t].rev >= n.rev PROVE FALSE
        BY <1>2
      <3>1. t \notin misled /\ advances
        BY <1>4 DEF Misled
      <3>2. tab[t].rev <= note[p].rev
        BY <1>4, <3>1 DEF SeenUnlessMisled, Seen
      <3> QED BY <1>2, <3>1, <3>2
    <2> QED BY <1>1, <1>2, <1>4, <2>1 DEF Seen
  <1> QED BY <1>3, <1>4

\* A note is gone, and may be where none was.
LEMMA RelocationIsSeen ==
  ASSUME NotesTypeOK, SeenUnlessMisled, NEW p \in Path, NEW q \in Path, p # q, tab' = tab,
         note' = [note EXCEPT ![q] = note[p], ![p] = NoNote], misled' = Misled(q, note[p].rev, FALSE)
  PROVE  SeenUnlessMisled'
  <1>1. note'[p] = NoNote /\ note'[q] = note[p] /\ \A r \in Path \ {p, q} : note'[r] = note[r]
    BY DEF NotesTypeOK
  <1> SUFFICES ASSUME NEW t \in Tab, t \notin misled'
               PROVE  Seen(t)'
    BY DEF SeenUnlessMisled
  <1>2. tab[t].path \in Path /\ tab[t].rev \in Nat \union {-1} /\ note[p].rev \in Nat
    BY DEF NotesTypeOK, Note
  <1>3. CASE tab[t].path = q
    <2>1. tab[t].rev < note[p].rev
      BY <1>2, <1>3 DEF Misled
    <2> QED BY <1>1, <1>2, <1>3, <2>1 DEF Seen
  <1>4. CASE tab[t].path = p
    <2>1. ~Exists(p)'
      BY <1>1 DEF Exists, NoNote
    <2> QED BY <1>4, <2>1 DEF Seen
  <1>5. CASE tab[t].path \notin {p, q}
    <2>1. t \notin misled /\ note'[tab[t].path] = note[tab[t].path]
      BY <1>1, <1>2, <1>5 DEF Misled
    <2> QED BY <2>1 DEF SeenUnlessMisled, Seen, Exists
  <1> QED BY <1>3, <1>4, <1>5

LEMMA SameIsSeen ==
  ASSUME SeenUnlessMisled, UNCHANGED <<note, tab, misled>>
  PROVE  SeenUnlessMisled'
  BY DEF SeenUnlessMisled, Seen, Exists

LEMMA SeenStep ==
  ASSUME KInv, [NotesNext]_noteVars
  PROVE  SeenUnlessMisled'
  <1>0. NotesTypeOK /\ SeenUnlessMisled
    BY DEF KInv
  <1>1. ASSUME NEW p \in Path, NEW n \in Note, NEW advances \in BOOLEAN,
               note' = [note EXCEPT ![p] = n], advances => Exists(p) /\ note[p].rev < n.rev,
               tab' = tab, misled' = Misled(p, n.rev, advances)
        PROVE  SeenUnlessMisled'
    BY <1>0, <1>1, WriteIsSeen DEF SeenUnlessMisled
  <1>2. ASSUME NEW t \in Tab, SaveLoaded(t)
        PROVE  SeenUnlessMisled'
    <2> DEFINE p == tab[t].path
    <2>1. p \in Path /\ Exists(p)
      BY <1>0, <1>2, SaveWrites
    <2>2. PICK n \in Note, advances \in BOOLEAN :
            /\ note' = [note EXCEPT ![p] = n] /\ (advances => note[p].rev < n.rev)
            /\ misled' = Misled(p, n.rev, advances) \ {t}
            /\ tab' = [tab EXCEPT ![t] = [path |-> p, rev |-> n.rev, pieces |-> n.pieces]]
      BY <1>0, <1>2, SaveWrites
    <2>3. note'[p] = n
      BY <1>0, <2>1, <2>2 DEF NotesTypeOK
    <2>4. /\ tab'[t].path = p /\ tab'[t].rev = n.rev /\ tab'[t].pieces = n.pieces
          /\ \A u \in Tab \ {t} : tab'[u] = tab[u]
      BY <1>0, <2>2 DEF NotesTypeOK
    <2>5. n.rev \in Nat
      BY DEF Note
    <2> HIDE DEF p
    <2>6. Seen(t)'
      BY <2>3, <2>4, <2>5 DEF Seen
    <2>7. ASSUME NEW u \in Tab \ misled', u # t
          PROVE  Seen(u)'
      BY <1>0, <2>1, <2>2, <2>4, <2>7, WriteIsSeen
    <2> QED BY <2>6, <2>7 DEF SeenUnlessMisled
  <1>3. ASSUME NEW t \in Tab, NEW p \in Path, Load(t, p)
        PROVE  SeenUnlessMisled'
    <2>1. /\ UNCHANGED note /\ misled' = misled \ {t}
          /\ tab'[t] = [path |-> p, rev |-> note[p].rev, pieces |-> note[p].pieces]
          /\ \A u \in Tab \ {t} : tab'[u] = tab[u]
      BY <1>0, <1>3 DEF Load, NotesTypeOK
    <2>2. Seen(t)'
      <3>1. note[p].rev \in Nat
        BY <1>0 DEF NotesTypeOK, Note
      <3> QED BY <2>1, <3>1 DEF Seen
    <2>3. ASSUME NEW u \in Tab \ misled', u # t
          PROVE  Seen(u)'
      BY <1>0, <2>1, <2>3 DEF SeenUnlessMisled, Seen, Exists
    <2> QED BY <2>2, <2>3 DEF SeenUnlessMisled
  <1>4. ASSUME NEW p \in Path, Create(p)
        PROVE  SeenUnlessMisled'
    <2>1. tab' = tab
      BY <1>4 DEF Create
    <2> QED BY <1>0, <1>1, <1>4, <2>1, CreateWrites
  <1>5. ASSUME NEW p \in Path, Overwrite(p)
        PROVE  SeenUnlessMisled'
    <2>1. tab' = tab /\ Exists(p)
      BY <1>5 DEF Overwrite
    <2> QED BY <1>0, <1>1, <1>5, <2>1, OverwriteWrites
  <1>6. ASSUME NEW p \in Path, Add(p)
        PROVE  SeenUnlessMisled'
    <2>1. tab' = tab /\ misled' = Misled(p, TickSpan * tick', FALSE)
      BY <1>6 DEF Add
    <2> QED BY <1>0, <1>1, <1>6, <2>1, AddWrites
  <1>7. ASSUME NEW p \in Path, Rewrite(p)
        PROVE  SeenUnlessMisled'
    <2>1. tab' = tab /\ misled' = Misled(p, TickSpan * tick', FALSE)
      BY <1>7 DEF Rewrite
    <2> QED BY <1>0, <1>1, <1>7, <2>1, RewriteWrites
  <1>8. ASSUME NEW p \in Path, Restore(p)
        PROVE  SeenUnlessMisled'
    <2>1. tab' = tab
      BY <1>8 DEF Restore
    <2> QED BY <1>0, <1>1, <1>8, <2>1, RestoreWrites, SameIsSeen
  <1>9. ASSUME NEW p \in Path, Archive(p) \/ Delete(p)
        PROVE  SeenUnlessMisled'
    <2>1. /\ note'[p] = NoNote /\ \A q \in Path \ {p} : note'[q] = note[q]
          /\ UNCHANGED <<tab, misled>>
      BY <1>0, <1>9 DEF Archive, Delete, NotesTypeOK
    <2>2. \A q \in Path : Exists(q)' => Exists(q) /\ note'[q] = note[q]
      BY <2>1 DEF Exists, NoNote
    <2>3. \A t \in Tab : tab[t].path \in Path
      BY <1>0 DEF NotesTypeOK
    <2> QED BY <1>0, <2>1, <2>2, <2>3 DEF SeenUnlessMisled, Seen
  <1>10. ASSUME NEW p \in Path, NEW q \in Path, NEW update \in BOOLEAN, BeginMove(p, q, update)
        PROVE  SeenUnlessMisled'
    <2>1. /\ note' = [note EXCEPT ![q] = note[p], ![p] = NoNote]
          /\ p # q /\ tab' = tab /\ misled' = Misled(q, note[p].rev, FALSE)
      BY <1>10 DEF BeginMove
    <2> QED BY <1>0, <2>1, RelocationIsSeen
  <1>11. CASE MoveBack
    <2>1. move.from \in Path /\ move.to \in Path /\ move.from # move.to /\ tab' = tab
      BY <1>11 DEF MoveBack, KInv, MovedAway, Moving, NotesTypeOK, Move, NoMove
    <2>2. CASE /\ note' = [note EXCEPT ![move.from] = note[move.to], ![move.to] = NoNote]
               /\ misled' = Misled(move.from, note[move.to].rev, FALSE)
      BY <1>0, <2>1, <2>2, RelocationIsSeen
    <2>3. CASE UNCHANGED <<note, misled>>
      BY <1>0, <2>1, <2>3, SameIsSeen
    <2> QED BY <1>11, <2>2, <2>3 DEF MoveBack
  <1>12. CASE EndMove \/ RewriteFails \/ KilledMoving \/ UNCHANGED noteVars
    BY <1>0, <1>12, SameIsSeen DEF EndMove, RewriteFails, KilledMoving, noteVars
  <1> QED BY <1>2, <1>3, <1>4, <1>5, <1>6, <1>7, <1>8, <1>9, <1>10, <1>11, <1>12 DEF NotesNext

-----------------------------------------------------------------------------
(* What is kept *)

LEMMA AtRest == ASSUME move' = NoMove PROVE ~Moving'
  BY DEF NoMove, Moving

Held(i) ==
  \/ \E p \in Path : i \in note[p].pieces
  \/ \E n \in Name : i \in archived[n]
  \/ \E k \in DOMAIN trash : i \in trash[k]

\* A write keeps all that was there, but for what its writer had seen, or
\* forfeits.
LEMMA EditKeeps ==
  ASSUME NotesTypeOK, NothingLost, NEW p \in Path, NEW n \in Note,
         note' = [note EXCEPT ![p] = n], UNCHANGED <<archived, trash>>, forfeit \subseteq forfeit',
         \A i \in kept' \ forfeit' : i \in n.pieces \/ (i \in kept /\ (i \in note[p].pieces => i \in n.pieces))
  PROVE  NothingLost'
  <1>1. note'[p] = n /\ \A q \in Path \ {p} : note'[q] = note[q]
    BY DEF NotesTypeOK
  <1> SUFFICES ASSUME NEW i \in kept' \ forfeit', i \notin n.pieces
               PROVE  \/ \E q \in Path : i \in note'[q].pieces
                      \/ \E m \in Name : i \in archived[m]
                      \/ \E k \in DOMAIN trash : i \in trash[k]
    BY <1>1 DEF NothingLost
  <1>2. i \in kept \ forfeit /\ i \notin note[p].pieces
    OBVIOUS
  <1> QED BY <1>1, <1>2 DEF NothingLost

LEMMA RelocationKeeps ==
  ASSUME NotesTypeOK, NothingLost, NEW p \in Path, NEW q \in Path, p # q, ~Exists(q),
         note' = [note EXCEPT ![q] = note[p], ![p] = NoNote], UNCHANGED <<archived, trash, kept, forfeit>>
  PROVE  NothingLost'
  <1>1. note'[q] = note[p] /\ \A r \in Path \ {p, q} : note'[r] = note[r]
    BY DEF NotesTypeOK
  <1>2. note[q].pieces = {}
    BY DEF Exists
  <1> QED BY <1>1, <1>2 DEF NothingLost

LEMMA SameKeeps ==
  ASSUME NothingLost, UNCHANGED <<note, archived, trash, kept, forfeit>>
  PROVE  NothingLost'
  BY DEF NothingLost

\* What each operation replaces has been seen, is kept elsewhere, or is
\* forfeit.
LEMMA KeepsStep ==
  ASSUME KInv, [NotesNext]_noteVars
  PROVE  NothingLost'
  <1>0. NotesTypeOK /\ NothingLost
    BY DEF KInv
  <1>1. ASSUME NEW t \in Tab, SaveLoaded(t)
        PROVE  NothingLost'
    <2> DEFINE p == tab[t].path
    <2>1. p \in Path /\ Exists(p) /\ note[p].rev = tab[t].rev
      BY <1>0, <1>1, SaveWrites
    <2>2. PICK n \in Note : note' = [note EXCEPT ![p] = n] /\ n.pieces = {<<p, written'>>}
      BY <1>0, <1>1, SaveWrites
    <2>3. kept' = (kept \ tab[t].pieces) \union {<<p, written'>>}
      BY <1>0, <1>1, SaveWrites
    <2>4. forfeit \subseteq forfeit' /\ note[p].pieces \subseteq tab[t].pieces \union forfeit'
      <3>1. CASE t \in misled
        BY <1>1, <3>1 DEF SaveLoaded
      <3>2. CASE t \notin misled
        BY <1>1, <2>1, <3>2 DEF SaveLoaded, KInv, SeenUnlessMisled, Seen
      <3> QED BY <3>1, <3>2
    <2>5. UNCHANGED <<archived, trash>>
      BY <1>1 DEF SaveLoaded
    <2>6. \A i \in kept' \ forfeit' : i \in n.pieces \/ (i \in kept /\ (i \in note[p].pieces => i \in n.pieces))
      BY <2>2, <2>3, <2>4
    <2> HIDE DEF p
    <2> QED BY <1>0, <2>1, <2>2, <2>4, <2>5, <2>6, EditKeeps
  <1>2. ASSUME NEW p \in Path, Create(p)
        PROVE  NothingLost'
    <2>1. PICK n \in Note : note' = [note EXCEPT ![p] = n] /\ n.pieces = {<<p, written'>>}
      BY <1>0, <1>2, CreateWrites
    <2>2. /\ note[p].pieces = {} /\ kept' = (kept \ {}) \union {<<p, written'>>}
          /\ UNCHANGED <<archived, trash, forfeit>>
      BY <1>2 DEF Create, Writes, Exists
    <2>3. \A i \in kept' : i \in n.pieces \/ (i \in kept /\ (i \in note[p].pieces => i \in n.pieces))
      BY <2>1, <2>2
    <2> QED BY <1>0, <2>1, <2>2, <2>3, EditKeeps
  <1>3. ASSUME NEW p \in Path, Overwrite(p)
        PROVE  NothingLost'
    <2>1. PICK n \in Note : note' = [note EXCEPT ![p] = n] /\ n.pieces = {<<p, written'>>}
      BY <1>0, <1>3, OverwriteWrites
    <2>2. /\ kept' = (kept \ note[p].pieces) \union {<<p, written'>>}
          /\ UNCHANGED <<archived, trash, forfeit>>
      BY <1>3 DEF Overwrite, Writes
    <2>3. \A i \in kept' : i \in n.pieces \/ (i \in kept /\ (i \in note[p].pieces => i \in n.pieces))
      BY <2>1, <2>2
    <2> QED BY <1>0, <2>1, <2>2, <2>3, EditKeeps
  <1>4. ASSUME NEW p \in Path, Add(p)
        PROVE  NothingLost'
    <2>1. PICK n \in Note : /\ note' = [note EXCEPT ![p] = n]
                            /\ n.pieces = note[p].pieces \union {<<p, written'>>}
      BY <1>0, <1>4, AddWrites
    <2>2. kept' = kept \union {<<p, written'>>} /\ UNCHANGED <<archived, trash, forfeit>>
      BY <1>4 DEF Add
    <2>3. \A i \in kept' : i \in n.pieces \/ (i \in kept /\ (i \in note[p].pieces => i \in n.pieces))
      BY <2>1, <2>2
    <2> QED BY <1>0, <2>1, <2>2, <2>3, EditKeeps
  <1>5. ASSUME NEW p \in Path, Rewrite(p)
        PROVE  NothingLost'
    <2>1. UNCHANGED <<archived, trash, kept, forfeit>>
      BY <1>5 DEF Rewrite
    <2>2. PICK n \in Note : note' = [note EXCEPT ![p] = n] /\ n.pieces = note[p].pieces
      BY <1>0, <1>5, RewriteWrites
    <2> QED BY <1>0, <2>1, <2>2, EditKeeps
  <1>6. ASSUME NEW p \in Path, Restore(p)
        PROVE  NothingLost'
    <2>1. UNCHANGED <<archived, trash, kept, forfeit>>
      BY <1>6 DEF Restore
    <2>2. \/ UNCHANGED note
          \/ \E n \in Note : note' = [note EXCEPT ![p] = n] /\ n.pieces = note[p].pieces
      BY <1>0, <1>6, RestoreWrites
    <2> QED BY <1>0, <2>1, <2>2, EditKeeps, SameKeeps
  <1>7. ASSUME NEW p \in Path, Archive(p)
        PROVE  NothingLost'
    <2>1. Base(p) \in Name
      BY DEF Base, Path
    <2>2. /\ archived'[Base(p)] = note[p].pieces /\ archived[Base(p)] = {}
          /\ \A m \in Name \ {Base(p)} : archived'[m] = archived[m]
          /\ \A q \in Path \ {p} : note'[q] = note[q]
          /\ UNCHANGED <<trash, kept, forfeit>>
      BY <1>0, <1>7, <2>1 DEF Archive, NotesTypeOK
    <2> QED BY <1>0, <2>1, <2>2 DEF NothingLost
  <1>8. ASSUME NEW p \in Path, Delete(p)
        PROVE  NothingLost'
    <2> DEFINE key == <<p, Suffix(p)>>
    <2>1. /\ key \in DOMAIN trash /\ DOMAIN trash' = DOMAIN trash /\ trash'[key] = note[p].pieces
          /\ \A k \in DOMAIN trash : k # key => trash'[k] = trash[k]
      <3>1. key \in Path \X (0..MaxTick)
        BY <1>0, <1>8, SuffixTyped DEF Delete
      <3>2. trash' = [trash EXCEPT ![key] = note[p].pieces]
        BY <1>8 DEF Delete
      <3> HIDE DEF key
      <3> QED BY <1>0, <3>1, <3>2 DEF NotesTypeOK
    <2>2. /\ \A q \in Path \ {p} : note'[q] = note[q]
          /\ forfeit' = forfeit \union trash[key] /\ UNCHANGED <<archived, kept>>
      BY <1>0, <1>8 DEF Delete, NotesTypeOK
    <2> HIDE DEF key
    <2> SUFFICES ASSUME NEW i \in kept \ forfeit' PROVE Held(i)'
      BY <2>2 DEF NothingLost, Held
    <2>3. Held(i) /\ i \notin trash[key]
      BY <1>0, <2>2 DEF NothingLost, Held
    <2>4. CASE \E q \in Path : i \in note[q].pieces
      BY <2>1, <2>2, <2>4 DEF Held
    <2>5. CASE \E m \in Name : i \in archived[m]
      BY <2>2, <2>5 DEF Held
    <2>6. CASE \E k \in DOMAIN trash : i \in trash[k]
      BY <2>1, <2>3, <2>6 DEF Held
    <2> QED BY <2>3, <2>4, <2>5, <2>6 DEF Held
  <1>9. ASSUME NEW p \in Path, NEW q \in Path, NEW update \in BOOLEAN, BeginMove(p, q, update)
        PROVE  NothingLost'
    <2>1. /\ p # q /\ ~Exists(q) /\ UNCHANGED <<archived, trash, kept, forfeit>>
          /\ note' = [note EXCEPT ![q] = note[p], ![p] = NoNote]
      BY <1>9 DEF BeginMove
    <2> QED BY <1>0, <2>1, RelocationKeeps
  <1>10. CASE MoveBack
    <2>1. /\ move.from \in Path /\ move.to \in Path /\ move.from # move.to
          /\ ~Exists(move.from) /\ UNCHANGED <<archived, trash, kept, forfeit>>
      BY <1>10 DEF MoveBack, KInv, MovedAway, Moving, NotesTypeOK, Move, NoMove
    <2>2. CASE note' = [note EXCEPT ![move.from] = note[move.to], ![move.to] = NoNote]
      BY <1>0, <2>1, <2>2, RelocationKeeps
    <2>3. CASE UNCHANGED note
      BY <1>0, <2>1, <2>3, SameKeeps
    <2> QED BY <1>10, <2>2, <2>3 DEF MoveBack
  <1>11. CASE EndMove \/ RewriteFails \/ KilledMoving \/ UNCHANGED noteVars \/ \E t \in Tab, p \in Path : Load(t, p)
    BY <1>0, <1>11, SameKeeps DEF EndMove, RewriteFails, KilledMoving, noteVars, Load
  <1> QED BY <1>1, <1>2, <1>3, <1>4, <1>5, <1>6, <1>7, <1>8, <1>9, <1>10, <1>11 DEF NotesNext

\* While a move is under way no other operation puts a note at its old path.
LEMMA MovedAwayStep ==
  ASSUME KInv, [NotesNext]_noteVars
  PROVE  MovedAway'
  <1>0. NotesTypeOK /\ MovedAway
    BY DEF KInv
  <1>1. ASSUME move' = NoMove
        PROVE  MovedAway'
    BY <1>1, AtRest DEF MovedAway
  <1>2. ASSUME NEW p \in Path,
               Create(p) \/ Overwrite(p) \/ Add(p) \/ Archive(p) \/ Delete(p) \/ \E t \in Tab : Load(t, p)
        PROVE  MovedAway'
    BY <1>1, <1>2 DEF Create, Overwrite, Add, Archive, Delete, Load, Begins
  <1>3. ASSUME NEW t \in Tab, SaveLoaded(t)
        PROVE  MovedAway'
    BY <1>1, <1>3 DEF SaveLoaded, Begins
  <1>4. ASSUME NEW p \in Path, NEW q \in Path, NEW update \in BOOLEAN, BeginMove(p, q, update)
        PROVE  MovedAway'
    <2>1. p # q /\ move'.from = p /\ move'.to = q /\ Exists(p)
      BY <1>4 DEF BeginMove
    <2>2. note'[p] = NoNote /\ note'[q] = note[p]
      BY <1>0, <1>4, <2>1 DEF BeginMove, NotesTypeOK
    <2> QED BY <2>1, <2>2 DEF MovedAway, Exists, NoNote
  <1>5. ASSUME NEW p \in Path, Rewrite(p) \/ Restore(p)
        PROVE  MovedAway'
    <2>0. Moving
      BY <1>5 DEF Rewrite, Restore, Moving
    <2>1. move \in Move
      BY <1>0, <2>0 DEF NotesTypeOK, NoMove, Moving
    <2>2. move'.from = move.from /\ move'.to = move.to
      BY <1>5, <2>1 DEF Rewrite, Restore, Move
    <2>3. \/ UNCHANGED note
          \/ \E n \in Note : note' = [note EXCEPT ![p] = n] /\ n.pieces = note[p].pieces
      BY <1>0, <1>5, RewriteWrites, RestoreWrites
    <2>4. \A q \in Path : note'[q].pieces = note[q].pieces
      BY <1>0, <2>3 DEF NotesTypeOK
    <2>5. move.from \in Path /\ move.to \in Path
      BY <2>1 DEF Move
    <2> QED BY <1>0, <2>0, <2>2, <2>4, <2>5 DEF MovedAway, Exists
  <1>6. CASE EndMove \/ MoveBack
    <2>0. Moving
      BY <1>6 DEF EndMove, MoveBack, Moving
    <2>1. move \in Move
      BY <1>0, <2>0 DEF NotesTypeOK, NoMove, Moving
    <2>2. move'.at \in {"ok", "failed", "incomplete"}
      BY <1>6, <2>1 DEF EndMove, MoveBack, Move
    <2> QED BY <2>2 DEF MovedAway, Moving
  <1>7. CASE RewriteFails
    <2>1. move \in Move /\ Moving
      BY <1>0, <1>7 DEF NotesTypeOK, RewriteFails, NoMove, Moving
    <2>2. move'.from = move.from /\ move'.to = move.to /\ UNCHANGED note
      BY <1>7, <2>1 DEF RewriteFails, Move
    <2> QED BY <1>0, <2>1, <2>2 DEF MovedAway, Exists
  <1>8. CASE KilledMoving
    BY <1>1, <1>8 DEF KilledMoving
  <1>9. CASE UNCHANGED noteVars
    BY <1>0, <1>9 DEF noteVars, MovedAway, Moving, Exists
  <1> QED BY <1>2, <1>3, <1>4, <1>5, <1>6, <1>7, <1>8, <1>9 DEF NotesNext

-----------------------------------------------------------------------------
(* Theorems *)

\* The vaults to begin with.
LEMMA NotesStarts ==
  ASSUME NotesInit
  PROVE  KInv /\ MInv
  <1>0. PICK age \in Ages :
          /\ \E links \in [DOMAIN age -> OneLink] :
               note = [p \in Path |->
                 IF p \in DOMAIN age
                 THEN [pieces |-> {<<p, 0>>}, links |-> links[p], rev |-> TickSpan * age[p]]
                 ELSE NoNote]
          /\ \E paths \in Trashed :
               /\ trash = [k \in Path \X (0..MaxTick) |->
                             IF k \in paths \X {0} THEN {<<k[1], -1>>} ELSE {}]
               /\ kept = ((DOMAIN age) \X {0}) \union (paths \X {-1})
          /\ tick \in 0..MaxTick
    BY DEF NotesInit
  <1>1. PICK links \in [DOMAIN age -> OneLink], paths \in Trashed :
          /\ note = [p \in Path |->
               IF p \in DOMAIN age
               THEN [pieces |-> {<<p, 0>>}, links |-> links[p], rev |-> TickSpan * age[p]]
               ELSE NoNote]
          /\ trash = [k \in Path \X (0..MaxTick) |->
                        IF k \in paths \X {0} THEN {<<k[1], -1>>} ELSE {}]
          /\ kept = ((DOMAIN age) \X {0}) \union (paths \X {-1})
          /\ tick \in 0..MaxTick
    BY <1>0
  <1>2. /\ archived = [n \in Name |-> {}]
        /\ tab = [t \in Tab |-> [path |-> CHOOSE p \in Path : TRUE, rev |-> -1, pieces |-> {}]]
        /\ move = NoMove /\ written = 0 /\ ops = 0 /\ misled = {} /\ forfeit = {}
    BY DEF NotesInit
  <1>3. DOMAIN age \subseteq Path /\ paths \subseteq Path /\ \A p \in DOMAIN age : age[p] \in Nat
    BY AgesType, TrashedType, BoundsNat DEF Path
  <1>4. \A p \in DOMAIN age : /\ note[p].pieces = {<<p, 0>>} /\ note[p].rev = TickSpan * age[p]
                              /\ note[p].links = links[p]
    BY <1>1, <1>3
  <1>5. \A p \in Path \ DOMAIN age : note[p] = NoNote
    BY <1>1
  <1>6. \A p \in Path : Exists(p) => p \in DOMAIN age
    BY <1>5 DEF NoNote, Exists
  <1>7. \A p \in DOMAIN age : TickSpan * age[p] \in Nat
    BY <1>3, TickSpans
  <1>8. NotesTypeOK
    <2>1. 0 \in 0..MaxPiece /\ 0 \in -1..MaxPiece /\ -1 \in -1..MaxPiece /\ 0 \in 0..MaxOps
      BY BoundsNat
    <2>2. \A p \in Path : <<p, 0>> \in Piece /\ <<p, -1>> \in Piece
      BY <2>1 DEF Piece
    <2>3. \A p \in DOMAIN age : links[p] \subseteq Name
      BY DEF OneLink
    <2>4. \A p \in DOMAIN age : [pieces |-> {<<p, 0>>}, links |-> links[p], rev |-> TickSpan * age[p]] \in Note
      BY <1>3, <1>7, <2>2, <2>3 DEF Note
    <2>5. note \in [Path -> Note]
      BY <1>1, <2>4, NoNoteTyped
    <2>6. kept \subseteq Piece
      <3>1. (DOMAIN age) \X {0} \subseteq Piece
        BY <1>3, <2>1 DEF Piece
      <3>2. paths \X {-1} \subseteq Piece
        BY <1>3, <2>1 DEF Piece
      <3> QED BY <1>1, <3>1, <3>2
    <2>7. trash \in [Path \X (0..MaxTick) -> SUBSET Piece]
      <3>1. \A k \in Path \X (0..MaxTick) : {<<k[1], -1>>} \subseteq Piece
        BY <2>2
      <3> QED BY <1>1, <3>1
    <2>8. (CHOOSE p \in Path : TRUE) \in Path
      <3>1. PICK d \in Dir, n \in Name : TRUE
        BY SomePath
      <3>2. <<d, n>> \in Path
        BY DEF Path
      <3> QED BY <3>2
    <2>9. tab \in [Tab -> [path : Path, rev : Nat \union {-1}, pieces : SUBSET Piece]]
      BY <1>2, <2>8
    <2> QED BY <1>1, <1>2, <2>1, <2>5, <2>6, <2>7, <2>9 DEF NotesTypeOK
  <1>9. SeenUnlessMisled
    <2>1. \A p \in Path : note[p].rev \in Nat
      BY <1>8 DEF NotesTypeOK, Note
    <2>2. \A t \in Tab : tab[t].path \in Path /\ tab[t].rev = -1
      BY <1>2, <1>8 DEF NotesTypeOK
    <2> QED BY <2>1, <2>2 DEF SeenUnlessMisled, Seen
  <1>10. MovedAway /\ Progress
    BY <1>2 DEF MovedAway, Moving, Progress, NoMove
  <1>11. NothingLost
    <2> SUFFICES ASSUME NEW i \in kept PROVE Held(i)
      BY DEF NothingLost, Held
    <2>1. CASE i \in (DOMAIN age) \X {0}
      <3>1. PICK p \in DOMAIN age : i = <<p, 0>>
        BY <2>1
      <3> QED BY <1>3, <1>4, <3>1 DEF Held
    <2>2. CASE i \in paths \X {-1}
      <3>1. PICK p \in paths : i = <<p, -1>>
        BY <2>2
      <3> DEFINE key == <<p, 0>>
      <3>2. 0 \in 0..MaxTick
        BY BoundsNat
      <3>3. key \in Path \X (0..MaxTick) /\ key \in paths \X {0} /\ key[1] = p
        BY <1>3, <3>2
      <3>4. key \in DOMAIN trash /\ trash[key] = {<<p, -1>>}
        BY <1>1, <3>3
      <3> QED BY <3>1, <3>4 DEF Held
    <2> QED BY <1>1, <2>1, <2>2
  <1>12. NothingIsNoNote
    <2>1. \A p \in DOMAIN age : <<p, 0>> \in note[p].pieces
      BY <1>4
    <2>2. \A p \in DOMAIN age : Exists(p)
      BY <2>1 DEF Exists
    <2>3. \A p \in Path \ DOMAIN age : note[p].links = {}
      BY <1>5 DEF NoNote
    <2> QED BY <2>2, <2>3 DEF NothingIsNoNote
  <1>13. MoveTellsTheTruth
    BY <1>2 DEF MoveTellsTheTruth, NoMove
  <1> QED BY <1>8, <1>9, <1>10, <1>11, <1>12, <1>13 DEF KInv, MInv

\* Whatever ticks the writes fall into, no text is lost that nobody had seen:
\* not by an editor that saves over a text it has not loaded (If-Match and
\* ensure_rev_advanced), nor by a create, a move that succeeds, fails or is
\* killed (move_note), an archive or a delete.  The two ways the code does have
\* of losing one are named, and are all there are: a save by an editor whose rev
\* some write without an advance left standing, and a delete that takes a name
\* in the trash for the second time in a second.
THEOREM NothingIsLost == NotesSpec => []NothingLost
  <1>1. NotesInit => KInv
    BY NotesStarts
  <1>2. KInv /\ [NotesNext]_noteVars => KInv'
    <2> SUFFICES ASSUME KInv, [NotesNext]_noteVars PROVE KInv'
      OBVIOUS
    <2>1. NotesTypeOK'
      BY NotesTypeStep DEF KInv
    <2> QED BY <2>1, SeenStep, KeepsStep, MovedAwayStep DEF KInv
  <1>3. KInv => NothingLost
    BY DEF KInv
  <1> QED BY <1>1, <1>2, <1>3, PTL DEF NotesSpec

\* The vault, the bucket and the trash hold what they should.
THEOREM NotesTyped == NotesSpec => []NotesTypeOK
  <1>1. NotesInit => NotesTypeOK
    BY NotesStarts DEF KInv
  <1> QED BY <1>1, NotesTypeStep, PTL DEF NotesSpec

\* Two notes are the same text.
LEMMA TextIs ==
  /\ \A m, b \in Note : b.rev = 0 /\ m.pieces = b.pieces /\ m.links = b.links => Text(m) = b
  /\ \A m \in Note : Text(m) \in Note /\ Text(m).pieces = m.pieces /\ Text(m).links = m.links /\ Text(m).rev = 0
  BY DEF Text, Note

\* Of a move that is no longer looked at nothing is claimed.
LEMMA NotMoving ==
  ASSUME move' = NoMove
  PROVE  Progress' /\ MoveTellsTheTruth'
  BY DEF NoMove, Progress, Moving, MoveTellsTheTruth

\* No operation leaves links where there is no note.
LEMMA NothingIsNoNoteStep ==
  ASSUME MInv, [NotesNext]_noteVars
  PROVE  NothingIsNoNote'
  <1>0. NotesTypeOK /\ NothingIsNoNote /\ Progress
    BY DEF MInv
  <1>1. ASSUME NEW p \in Path, NEW n \in Note, note' = [note EXCEPT ![p] = n], n.pieces # {}
        PROVE  NothingIsNoNote'
    BY <1>0, <1>1 DEF NothingIsNoNote, NotesTypeOK, Exists
  <1>2. ASSUME NEW p \in Path, Create(p) \/ Overwrite(p)
        PROVE  NothingIsNoNote'
    <2>1. PICK n \in Note : note' = [note EXCEPT ![p] = n] /\ n.pieces = {<<p, written'>>}
      BY <1>0, <1>2, CreateWrites, OverwriteWrites
    <2> QED BY <1>1, <2>1
  <1>3. ASSUME NEW p \in Path, Add(p)
        PROVE  NothingIsNoNote'
    <2>1. PICK n \in Note : /\ note' = [note EXCEPT ![p] = n]
                            /\ n.pieces = note[p].pieces \union {<<p, written'>>}
      BY <1>0, <1>3, AddWrites
    <2> QED BY <1>1, <2>1
  <1>4. ASSUME NEW t \in Tab, SaveLoaded(t)
        PROVE  NothingIsNoNote'
    <2> DEFINE p == tab[t].path
    <2>1. p \in Path
      BY <1>0, <1>4, SaveWrites
    <2>2. PICK n \in Note : note' = [note EXCEPT ![p] = n] /\ n.pieces = {<<p, written'>>}
      BY <1>0, <1>4, SaveWrites
    <2> HIDE DEF p
    <2> QED BY <1>1, <2>1, <2>2
  <1>5. ASSUME NEW p \in Path, Archive(p) \/ Delete(p)
        PROVE  NothingIsNoNote'
    <2>1. note' = [note EXCEPT ![p] = NoNote]
      BY <1>5 DEF Archive, Delete
    <2> QED BY <1>0, <2>1 DEF NothingIsNoNote, NotesTypeOK, Exists, NoNote
  <1>6. ASSUME NEW p \in Path, NEW q \in Path, p # q,
               note' = [note EXCEPT ![q] = note[p], ![p] = NoNote]
        PROVE  NothingIsNoNote'
    BY <1>0, <1>6 DEF NothingIsNoNote, NotesTypeOK, Exists, NoNote
  <1>7. ASSUME NEW p \in Path, NEW q \in Path, NEW update \in BOOLEAN, BeginMove(p, q, update)
        PROVE  NothingIsNoNote'
    BY <1>6, <1>7 DEF BeginMove
  <1>8. CASE MoveBack
    <2>1. move.from \in Path /\ move.to \in Path /\ move.from # move.to
      BY <1>0, <1>8 DEF MoveBack, Progress, Moving, NotesTypeOK, Move, NoMove
    <2>2. CASE note' = [note EXCEPT ![move.from] = note[move.to], ![move.to] = NoNote]
      BY <1>6, <2>1, <2>2
    <2>3. CASE UNCHANGED note
      BY <1>0, <2>3 DEF NothingIsNoNote, Exists
    <2> QED BY <1>8, <2>2, <2>3 DEF MoveBack
  \* What a move writes is a note that had a link.
  <1>9. ASSUME NEW p \in Path, Rewrite(p) \/ Restore(p)
        PROVE  NothingIsNoNote'
    <2>1. Moving /\ p \in PlanOf
      BY <1>0, <1>9 DEF Rewrite, Restore, Moving, Progress
    <2>2. move.before[p].links # {} /\ move.before[p].pieces # {} /\ p # move.from /\ p # move.to
      BY <1>0, <2>1 DEF PlanOf, Linked, Progress, BeforeIsText
    <2>3. note[p].pieces = move.before[p].pieces
      BY <1>0, <1>9, <2>1, <2>2 DEF Progress, Moving, AsBefore, AsRewritten, Reads
    <2>4. \/ UNCHANGED note
          \/ \E n \in Note : note' = [note EXCEPT ![p] = n] /\ n.pieces = note[p].pieces
      BY <1>0, <1>9, RewriteWrites, RestoreWrites
    <2>5. CASE UNCHANGED note
      BY <1>0, <2>5 DEF NothingIsNoNote, Exists
    <2> QED BY <1>1, <2>2, <2>3, <2>4, <2>5
  <1>10. CASE \/ EndMove \/ RewriteFails \/ KilledMoving \/ UNCHANGED noteVars
              \/ \E t \in Tab, p \in Path : Load(t, p)
    <2>1. UNCHANGED note
      BY <1>10 DEF EndMove, RewriteFails, KilledMoving, noteVars, Load
    <2> QED BY <1>0, <2>1 DEF NothingIsNoNote, Exists
  <1> QED BY <1>2, <1>3, <1>4, <1>5, <1>7, <1>8, <1>9, <1>10 DEF NotesNext

LEMMA MoveBegins ==
  ASSUME MInv, NEW p \in Path, NEW q \in Path, NEW update \in BOOLEAN, BeginMove(p, q, update)
  PROVE  Progress'
  <1>0. NotesTypeOK /\ NothingIsNoNote
    BY DEF MInv
  <1>1. p # q /\ Exists(p) /\ ~Exists(q)
    BY DEF BeginMove
  <1>2. /\ move'.at = "rewriting" /\ move'.from = p /\ move'.to = q /\ move'.update = update
        /\ move'.todo = Planned(p, q, update, move'.skipped) /\ move'.done = {} /\ move'.unrestored = {}
        /\ \A r \in Path : move'.before[r] = Text(note[r])
    BY DEF BeginMove
  <1>3. \A r \in Path : note[r] \in Note
    BY <1>0 DEF NotesTypeOK
  <1>4. \A r \in Path : /\ move'.before[r].pieces = note[r].pieces
                        /\ move'.before[r].links = note[r].links /\ move'.before[r].rev = 0
    BY <1>2, <1>3, TextIs
  <1>5. /\ note'[p].pieces = {} /\ note'[p].links = {} /\ note'[q] = note[p]
        /\ \A r \in Path \ {p, q} : note'[r] = note[r]
    BY <1>0, <1>1 DEF BeginMove, NotesTypeOK, NoNote
  <1>6. Planned(p, q, update, move'.skipped) = PlanOf'
    <2>1. \A r \in Path : r \in Planned(p, q, update, move'.skipped) <=>
            /\ r # p /\ Exists(r) /\ Renames(p, q, update) /\ r \notin move'.skipped
            /\ Base(p) \in note[r].links
      BY DEF Planned, Read
    <2>2. \A r \in Path : r \in PlanOf' <=>
            /\ r # p /\ Renames(p, q, update) /\ r \notin move'.skipped
            /\ Base(p) \in note[r].links
      BY <1>2, <1>4 DEF PlanOf, Linked, Renames
    <2>3. \A r \in Path : Base(p) \in note[r].links => Exists(r)
      BY <1>0 DEF NothingIsNoNote
    <2>4. Planned(p, q, update, move'.skipped) \subseteq Path /\ PlanOf' \subseteq Path
      BY DEF Planned, Read, PlanOf
    <2> QED BY <2>1, <2>2, <2>3, <2>4
  <1>7. BeforeIsText'
    BY <1>0, <1>4 DEF BeforeIsText, NothingIsNoNote, Exists
  <1>8. move'.before[q].pieces = {}
    BY <1>1, <1>4 DEF Exists
  <1>9. /\ Reads(move.from, {}, {})'
        /\ Reads(move.to, move.before[move.from].pieces, move.before[move.from].links)'
    BY <1>2, <1>4, <1>5 DEF Reads
  <1>10. \A r \in Path \ {p, q} : AsBefore(r)'
    BY <1>4, <1>5 DEF AsBefore, Reads
  <1>11. /\ move'.todo = PlanOf' /\ move'.todo = PlanOf' \ move'.done
    BY <1>2, <1>6
  <1> QED BY <1>1, <1>2, <1>7, <1>8, <1>9, <1>10, <1>11 DEF Progress

\* The move that is under way is the one that was begun.
SameMove ==
  /\ move'.from = move.from /\ move'.to = move.to
  /\ move'.update = move.update /\ move'.skipped = move.skipped /\ move'.before = move.before

LEMMA SamePlan ==
  ASSUME SameMove
  PROVE  /\ PlanOf' = PlanOf /\ (BeforeIsText => BeforeIsText')
         /\ \A p \in Path : note'[p] = note[p] =>
              (AsBefore(p)' <=> AsBefore(p)) /\ (AsRewritten(p)' <=> AsRewritten(p))
  BY DEF SameMove, PlanOf, Linked, Renames, BeforeIsText, AsBefore, AsRewritten, Reads, Relinked

\* One more note has been rewritten.
LEMMA MoveRewrites ==
  ASSUME MInv, NEW p \in Path, Rewrite(p)
  PROVE  Progress'
  <1>0. NotesTypeOK /\ Progress /\ Moving /\ move.at = "rewriting" /\ move \in Move
    BY DEF MInv, Rewrite, Moving, NotesTypeOK, NoMove
  <1>1. /\ move.from # move.to /\ BeforeIsText /\ move.before[move.to].pieces = {}
        /\ Reads(move.from, {}, {})
        /\ Reads(move.to, move.before[move.from].pieces, move.before[move.from].links)
        /\ move.todo = PlanOf \ move.done /\ move.done \subseteq PlanOf /\ move.unrestored = {}
        /\ \A q \in Path \ {move.from, move.to} :
             IF q \in move.done THEN AsRewritten(q) ELSE AsBefore(q)
    BY <1>0 DEF Progress
  <1>2. /\ SameMove /\ move'.at = "rewriting" /\ move'.todo = move.todo \ {p}
        /\ move'.done = move.done \union {p} /\ move'.unrestored = move.unrestored
    BY <1>0 DEF Rewrite, Move, SameMove
  <1>3. p \in PlanOf /\ p \notin move.done
    BY <1>1 DEF Rewrite
  <1>4. p # move.from /\ p # move.to
    BY <1>1, <1>3 DEF PlanOf, Linked, BeforeIsText
  <1>5. PICK n \in Note : /\ note' = [note EXCEPT ![p] = n]
                          /\ n.pieces = note[p].pieces /\ n.links = Relinked(note[p].links)
    BY <1>0, RewriteWrites
  <1>6. note'[p] = n /\ \A q \in Path \ {p} : note'[q] = note[q]
    BY <1>0, <1>5 DEF NotesTypeOK
  <1>7. AsRewritten(p)'
    <2>1. note[p].pieces = move.before[p].pieces /\ note[p].links = move.before[p].links
      BY <1>1, <1>3, <1>4 DEF AsBefore, Reads
    <2>2. note'[p].pieces = move.before[p].pieces /\ note'[p].links = Relinked(move.before[p].links)
      BY <1>5, <1>6, <2>1
    <2> QED BY <1>2, <2>2 DEF AsRewritten, Reads, SameMove, Relinked
  <1>8. \A q \in Path \ {move.from, move.to} :
          IF q \in move'.done THEN AsRewritten(q)' ELSE AsBefore(q)'
    BY <1>1, <1>2, <1>6, <1>7, SamePlan
  <1>9. /\ Reads(move.from, {}, {})'
        /\ Reads(move.to, move.before[move.from].pieces, move.before[move.from].links)'
    <2>1. move.from \in Path /\ move.to \in Path
      BY <1>0 DEF Move
    <2> QED BY <1>1, <1>2, <1>4, <1>6, <2>1 DEF Reads, SameMove
  <1>10. /\ move'.todo = PlanOf' \ move'.done /\ move'.todo \subseteq PlanOf'
         /\ move'.done \subseteq PlanOf' /\ move'.unrestored = {} /\ BeforeIsText'
    BY <1>1, <1>2, <1>3, SamePlan
  <1>11. move'.from # move'.to /\ move'.before[move'.to].pieces = {}
    BY <1>1, <1>2 DEF SameMove
  <1>12. \A q \in Path \ {move'.from, move'.to} :
          IF q \in move'.done THEN AsRewritten(q)' ELSE AsBefore(q)'
    BY <1>2, <1>8 DEF SameMove
  <1> QED BY <1>2, <1>9, <1>10, <1>11, <1>12 DEF Progress

\* From here on what was rewritten is what there is to restore.
LEMMA MoveFails ==
  ASSUME MInv, RewriteFails
  PROVE  Progress'
  <1>0. NotesTypeOK /\ Progress /\ Moving /\ move.at = "rewriting" /\ move \in Move
    BY DEF MInv, RewriteFails, Moving, NotesTypeOK, NoMove
  <1>1. /\ SameMove /\ move'.at = "undoing" /\ move'.todo = move.done /\ UNCHANGED note
        /\ move'.done = move.done /\ move'.unrestored = move.unrestored
    BY <1>0 DEF RewriteFails, ToRestore, Move, SameMove
  <1>2. /\ PlanOf' = PlanOf /\ (BeforeIsText => BeforeIsText')
        /\ \A p \in Path : (AsBefore(p)' <=> AsBefore(p)) /\ (AsRewritten(p)' <=> AsRewritten(p))
    BY <1>1, SamePlan
  <1>3. /\ Reads(move.from, {}, {})'
        /\ Reads(move.to, move.before[move.from].pieces, move.before[move.from].links)'
    BY <1>0, <1>1 DEF Progress, Reads, SameMove
  <1>4. /\ move.from # move.to /\ BeforeIsText /\ move.before[move.to].pieces = {}
        /\ move.done \subseteq PlanOf /\ move.unrestored = {}
        /\ \A p \in Path \ {move.from, move.to} :
             IF p \in move.done THEN AsRewritten(p) ELSE AsBefore(p)
    BY <1>0 DEF Progress
  <1>5. /\ move'.from # move'.to /\ move'.before[move'.to].pieces = {}
        /\ \A p \in Path \ {move'.from, move'.to} : AsBefore(p)' \/ (p \in move'.todo /\ AsRewritten(p)')
    BY <1>1, <1>2, <1>4 DEF SameMove
  <1> QED BY <1>1, <1>2, <1>3, <1>4, <1>5 DEF Progress

\* One note less to restore, restored or named.
LEMMA MoveRestores ==
  ASSUME MInv, NEW p \in Path, Restore(p)
  PROVE  Progress'
  <1>0. NotesTypeOK /\ Progress /\ Moving /\ move.at = "undoing" /\ move \in Move /\ p \in move.todo
    BY DEF MInv, Restore, Moving, NotesTypeOK, NoMove
  <1>1. /\ move.from # move.to /\ BeforeIsText /\ move.before[move.to].pieces = {}
        /\ Reads(move.from, {}, {})
        /\ Reads(move.to, move.before[move.from].pieces, move.before[move.from].links)
        /\ move.todo \subseteq move.done /\ move.done \subseteq PlanOf
        /\ move.unrestored \subseteq move.done
        /\ \A q \in Path \ {move.from, move.to} :
             AsBefore(q) \/ (q \in move.todo \union move.unrestored /\ AsRewritten(q))
    BY <1>0 DEF Progress
  <1>2. p # move.from /\ p # move.to
    BY <1>0, <1>1 DEF PlanOf, Linked, BeforeIsText
  <1>3. /\ SameMove /\ move'.at = "undoing" /\ move'.todo = move.todo \ {p} /\ move'.done = move.done
        /\ move'.unrestored \in {move.unrestored, move.unrestored \union {p}}
        /\ \A q \in Path \ {p} : note'[q] = note[q]
        /\ AsBefore(p)' \/ (p \in move'.unrestored /\ note'[p] = note[p])
    <2>1. CASE UNCHANGED <<note, tick, misled>> /\ move' = [move EXCEPT !.todo = @ \ {p}, !.unrestored = @ \union {p}]
      BY <1>0, <2>1 DEF SameMove, Move
    <2>2. ASSUME move' = [move EXCEPT !.todo = @ \ {p}], NEW n \in Note, note' = [note EXCEPT ![p] = n],
                 n.pieces = note[p].pieces, n.links = move.before[p].links
          PROVE  /\ SameMove /\ move'.at = "undoing" /\ move'.todo = move.todo \ {p} /\ move'.done = move.done
                 /\ move'.unrestored = move.unrestored
                 /\ \A q \in Path \ {p} : note'[q] = note[q]
                 /\ AsBefore(p)'
      <3>1. /\ SameMove /\ move'.at = "undoing" /\ move'.todo = move.todo \ {p} /\ move'.done = move.done
            /\ move'.unrestored = move.unrestored
        BY <1>0, <2>2 DEF SameMove, Move
      <3>2. note'[p] = n /\ \A q \in Path \ {p} : note'[q] = note[q]
        BY <1>0, <2>2 DEF NotesTypeOK
      <3>3. note[p].pieces = move.before[p].pieces
        BY <1>1, <1>2 DEF AsBefore, AsRewritten, Reads
      <3>4. AsBefore(p)'
        BY <2>2, <3>1, <3>2, <3>3 DEF AsBefore, Reads, SameMove
      <3> QED BY <3>1, <3>2, <3>4
    <2> QED BY <1>0, <2>1, <2>2, RestoreWrites
  <1>4. /\ PlanOf' = PlanOf /\ BeforeIsText'
        /\ \A q \in Path : note'[q] = note[q] =>
             (AsBefore(q)' <=> AsBefore(q)) /\ (AsRewritten(q)' <=> AsRewritten(q))
    BY <1>1, <1>3, SamePlan
  <1>5. \A q \in Path \ {move'.from, move'.to} :
          AsBefore(q)' \/ (q \in move'.todo \union move'.unrestored /\ AsRewritten(q)')
    BY <1>1, <1>3, <1>4 DEF SameMove
  <1>6. /\ Reads(move.from, {}, {})'
        /\ Reads(move.to, move.before[move.from].pieces, move.before[move.from].links)'
    <2>1. move.from \in Path /\ move.to \in Path
      BY <1>0 DEF Move
    <2> QED BY <1>1, <1>2, <1>3, <2>1 DEF Reads, SameMove
  <1>7. move'.from # move'.to /\ move'.before[move'.to].pieces = {}
    BY <1>1, <1>3 DEF SameMove
  <1>8. /\ move'.todo \subseteq move'.done /\ move'.todo \subseteq PlanOf' /\ move'.done \subseteq PlanOf'
        /\ move'.unrestored \subseteq move'.done
    BY <1>0, <1>1, <1>3, <1>4
  <1> QED BY <1>3, <1>4, <1>5, <1>6, <1>7, <1>8 DEF Progress

\* A move that is done has rewritten its whole plan.
LEMMA MoveEnds ==
  ASSUME MInv, EndMove
  PROVE  MoveTellsTheTruth'
  <1>0. NotesTypeOK /\ Progress /\ Moving /\ move.at = "rewriting" /\ move \in Move /\ move.todo = {}
    BY DEF MInv, EndMove, Moving, NotesTypeOK, NoMove
  <1>1. /\ move.from # move.to /\ BeforeIsText
        /\ Reads(move.from, {}, {})
        /\ Reads(move.to, move.before[move.from].pieces, move.before[move.from].links)
        /\ move.done = PlanOf
        /\ \A q \in Path \ {move.from, move.to} :
             IF q \in PlanOf THEN AsRewritten(q) ELSE AsBefore(q)
    BY <1>0 DEF Progress
  <1>2. SameMove /\ move'.at = "ok" /\ UNCHANGED note /\ move.from \in Path /\ move.to \in Path
    BY <1>0 DEF EndMove, Move, SameMove
  <1>3. \A p \in Path : /\ note[p] \in Note /\ move.before[p] \in Note
                        /\ Relinked(move.before[p].links) \subseteq Name
    BY <1>0 DEF NotesTypeOK, Move, Relinked, Base, Path, Note
  <1>4. Text(note[move.from]) = NoNote
    BY <1>1, <1>2, <1>3, TextIs, NoNoteTyped DEF Reads, NoNote
  <1>5. Text(note[move.to]) = move.before[move.from]
    BY <1>1, <1>2, <1>3, TextIs DEF Reads, BeforeIsText
  <1>6. ASSUME NEW p \in Path \ {move.from, move.to}
        PROVE  Text(note[p]) = Moved(p)
    <2> DEFINE after == IF p \in PlanOf THEN Relinked(move.before[p].links) ELSE move.before[p].links
    <2>1. p \in PlanOf <=>
            Renames(move.from, move.to, move.update) /\ p \notin move.skipped /\ Linked(p)
      BY DEF PlanOf
    <2>2. note[p].pieces = move.before[p].pieces /\ note[p].links = after
      BY <1>1 DEF AsRewritten, AsBefore, Reads
    <2>3. Moved(p) = IF p \in PlanOf THEN [move.before[p] EXCEPT !.links = Relinked(move.before[p].links)]
                     ELSE move.before[p]
      BY <2>1 DEF Moved, Linked
    <2>4. CASE p \notin PlanOf
      BY <1>1, <1>3, <2>2, <2>3, <2>4, TextIs DEF BeforeIsText
    <2>5. CASE p \in PlanOf
      <3> DEFINE links == Relinked(move.before[p].links)
      <3>1. links \subseteq Name
        BY <1>3
      <3>2. Moved(p) = [move.before[p] EXCEPT !.links = links] /\ note[p].links = links
        BY <2>2, <2>3, <2>5
      <3> HIDE DEF links
      <3>3. /\ Moved(p) \in Note /\ Moved(p).pieces = move.before[p].pieces /\ Moved(p).links = links
            /\ Moved(p).rev = 0
        BY <1>1, <1>3, <3>1, <3>2 DEF Note, BeforeIsText
      <3>4. note[p] \in Note /\ note[p].pieces = Moved(p).pieces /\ note[p].links = Moved(p).links
        BY <1>3, <2>2, <3>2, <3>3
      <3> QED BY <3>3, <3>4, TextIs, Zenon
    <2> QED BY <2>4, <2>5
  <1>7. \A p \in Path : Text(note'[p]) = Text(note[p]) /\ Moved(p)' = Moved(p)
    BY <1>2 DEF SameMove, Text, Moved, Renames, Relinked
  <1>8. \A p \in Path : Text(note'[p]) =
          CASE p = move'.from -> NoNote
            [] p = move'.to -> move'.before[move'.from]
            [] OTHER -> Moved(p)'
    <2> SUFFICES ASSUME NEW p \in Path
                 PROVE  Text(note[p]) =
                          CASE p = move.from -> NoNote
                            [] p = move.to -> move.before[move.from]
                            [] OTHER -> Moved(p)
      BY <1>2, <1>7 DEF SameMove
    <2>1. CASE p = move.from
      BY <1>1, <1>4, <2>1
    <2>2. CASE p = move.to
      BY <1>1, <1>5, <2>2
    <2>3. CASE p # move.from /\ p # move.to
      BY <1>6, <2>3
    <2> QED BY <2>1, <2>2, <2>3
  <1> QED BY <1>2, <1>8 DEF MoveTellsTheTruth

\* A move that failed has restored all, or names what it has not.
LEMMA MoveGoesBack ==
  ASSUME MInv, MoveBack
  PROVE  MoveTellsTheTruth'
  <1>0. NotesTypeOK /\ Progress /\ Moving /\ move.at = "undoing" /\ move \in Move /\ move.todo = {}
    BY DEF MInv, MoveBack, Moving, NotesTypeOK, NoMove
  <1>1. /\ move.from # move.to /\ BeforeIsText /\ move.before[move.to].pieces = {}
        /\ Reads(move.from, {}, {})
        /\ Reads(move.to, move.before[move.from].pieces, move.before[move.from].links)
        /\ \A q \in Path \ {move.from, move.to} : AsBefore(q) \/ q \in move.unrestored
    BY <1>0 DEF Progress
  <1>2. \A p \in Path : note[p] \in Note /\ move.before[p] \in Note
    BY <1>0 DEF NotesTypeOK, Move
  <1>3. \A p \in Path \ ({move.from, move.to} \union move.unrestored) : Text(note[p]) = move.before[p]
    BY <1>1, <1>2, TextIs DEF AsBefore, Reads, BeforeIsText
  <1>4. move.from \in Path /\ move.to \in Path
    BY <1>0 DEF Move
  <1>5. CASE /\ note' = [note EXCEPT ![move.from] = note[move.to], ![move.to] = NoNote]
             /\ move' = [move EXCEPT !.at = IF move.unrestored = {} THEN "failed" ELSE "incomplete"]
    <2>1. /\ move'.at = IF move.unrestored = {} THEN "failed" ELSE "incomplete"
          /\ move'.before = move.before /\ move'.unrestored = move.unrestored
      BY <1>0, <1>5 DEF Move
    <2>2. /\ note'[move.from] = note[move.to] /\ note'[move.to] = NoNote
          /\ \A p \in Path \ {move.from, move.to} : note'[p] = note[p]
      BY <1>0, <1>1, <1>4, <1>5 DEF NotesTypeOK
    <2>3. Text(note[move.to]) = move.before[move.from]
      BY <1>1, <1>2, <1>4, TextIs DEF Reads, BeforeIsText
    <2>4. Text(NoNote) = move.before[move.to]
      BY <1>1, <1>2, <1>4, TextIs, NoNoteTyped DEF BeforeIsText, NoNote
    <2>5. \A p \in Path \ move'.unrestored : Text(note'[p]) = move'.before[p]
      BY <1>3, <2>1, <2>2, <2>3, <2>4
    <2> QED BY <2>1, <2>5 DEF MoveTellsTheTruth
  <1>6. CASE /\ move' = [move EXCEPT !.at = "incomplete", !.unrestored = @ \union {move.to}]
             /\ UNCHANGED note
    <2>1. /\ move'.at = "incomplete" /\ move'.before = move.before /\ move'.from = move.from
          /\ move'.to = move.to /\ move'.unrestored = move.unrestored \union {move.to}
      BY <1>0, <1>6 DEF Move
    <2>2. \A p \in Path \ move'.unrestored :
            Text(note'[p]) = move'.before[p] \/ (p = move'.from /\ move'.to \in move'.unrestored)
      BY <1>3, <1>6, <2>1
    <2> QED BY <2>1, <2>2 DEF MoveTellsTheTruth
  <1> QED BY <1>5, <1>6 DEF MoveBack

LEMMA MInvStep == MInv /\ [NotesNext]_noteVars => MInv'
  <1> SUFFICES ASSUME MInv, [NotesNext]_noteVars PROVE Progress' /\ MoveTellsTheTruth'
    BY NotesTypeStep, NothingIsNoNoteStep DEF MInv
  <1>0. NotesTypeOK /\ Progress /\ MoveTellsTheTruth
    BY DEF MInv
  <1>1. ASSUME move'.at \in {"rewriting", "undoing"}
        PROVE  MoveTellsTheTruth'
    BY <1>1 DEF MoveTellsTheTruth
  <1>2. ASSUME move'.at \in {"ok", "failed", "incomplete"}
        PROVE  Progress'
    BY <1>2 DEF Progress, Moving
  <1>3. ASSUME NEW p \in Path,
               Create(p) \/ Overwrite(p) \/ Add(p) \/ Archive(p) \/ Delete(p) \/ \E t \in Tab : Load(t, p)
        PROVE  Progress' /\ MoveTellsTheTruth'
    BY <1>3, NotMoving DEF Create, Overwrite, Add, Archive, Delete, Load, Begins
  <1>4. ASSUME NEW t \in Tab, SaveLoaded(t)
        PROVE  Progress' /\ MoveTellsTheTruth'
    BY <1>4, NotMoving DEF SaveLoaded, Begins
  <1>5. ASSUME NEW p \in Path, NEW q \in Path, NEW update \in BOOLEAN, BeginMove(p, q, update)
        PROVE  Progress' /\ MoveTellsTheTruth'
    <2>1. move'.at = "rewriting"
      BY <1>5 DEF BeginMove
    <2> QED BY <1>1, <1>5, <2>1, MoveBegins
  <1>6. ASSUME NEW p \in Path, Rewrite(p)
        PROVE  Progress' /\ MoveTellsTheTruth'
    <2>1. move'.at = "rewriting"
      BY <1>0, <1>6 DEF Rewrite, NotesTypeOK, Move, NoMove
    <2> QED BY <1>1, <1>6, <2>1, MoveRewrites
  <1>7. CASE RewriteFails
    <2>1. move'.at = "undoing"
      BY <1>0, <1>7 DEF RewriteFails, NotesTypeOK, Move, NoMove
    <2> QED BY <1>1, <1>7, <2>1, MoveFails
  <1>8. ASSUME NEW p \in Path, Restore(p)
        PROVE  Progress' /\ MoveTellsTheTruth'
    <2>1. move'.at = "undoing"
      <3>1. move \in Move /\ move.at = "undoing"
        BY <1>0, <1>8 DEF Restore, NotesTypeOK, NoMove
      <3> QED BY <1>0, <1>8, <3>1, RestoreWrites DEF Move
    <2> QED BY <1>1, <1>8, <2>1, MoveRestores
  <1>9. CASE EndMove
    <2>1. move'.at = "ok"
      BY <1>0, <1>9 DEF EndMove, NotesTypeOK, Move, NoMove
    <2> QED BY <1>2, <1>9, <2>1, MoveEnds
  <1>10. CASE MoveBack
    <2>1. move \in Move
      BY <1>0, <1>10 DEF MoveBack, NotesTypeOK, NoMove
    <2>2. move'.at \in {"failed", "incomplete"}
      BY <1>10, <2>1 DEF MoveBack, Move
    <2> QED BY <1>2, <1>10, <2>2, MoveGoesBack
  <1>11. CASE KilledMoving
    BY <1>11, NotMoving DEF KilledMoving
  <1>12. CASE UNCHANGED noteVars
    <2>1. /\ PlanOf' = PlanOf /\ UNCHANGED <<note, move>>
      BY <1>12 DEF noteVars, PlanOf, Linked, Renames
    <2>2. Progress'
      BY <1>0, <2>1 DEF Progress, Moving, BeforeIsText, Reads, AsBefore, AsRewritten, Relinked
    <2>3. MoveTellsTheTruth'
      BY <1>0, <2>1 DEF MoveTellsTheTruth, Text, Moved, Renames, Relinked
    <2> QED BY <2>2, <2>3
  <1> QED BY <1>3, <1>4, <1>5, <1>6, <1>7, <1>8, <1>9, <1>10, <1>11, <1>12 DEF NotesNext

\* What a move reports is what has become of the vault (move_note,
\* build_edit_plan, attempt_rollback): done but for the links in the notes it
\* could not read and reports as skipped, failed, or rolled back in part but for
\* the notes that it names; however many notes link to the one that moves.
THEOREM MovesTellTheTruth == NotesSpec => []MoveTellsTheTruth
  <1>1. NotesInit => MInv
    BY NotesStarts
  <1>2. MInv => MoveTellsTheTruth
    BY DEF MInv
  <1> QED BY <1>1, <1>2, MInvStep, PTL DEF NotesSpec

-----------------------------------------------------------------------------
(* The sync of a vault.  Whatever earlier syncs left behind, a copy that    *)
(* goes through puts every file of its release in place; what the pin then  *)
(* names is read from there.  Only syncs that overlap can come between.     *)

\* The sync has its release, and has not failed.
UnderWay(v) == syncing[v] \notin {"idle", "failed"}

FetchedIsRelease == \A v \in Vault : UnderWay(v) => fetched[v] \in Release

CopiedIsFetched ==
  \A v \in Vault : syncing[v] = "copying" => \A f \in copied[v] : files[v][f] = fetched[v]

LaidOver == \A v \in Vault : UnderWay(v) /\ syncing[v] # "copying" => Whole(v, fetched[v])

ChannelSet ==
  \A v \in Vault :
    UnderWay(v) /\ syncing[v] \notin {"copying", "merging", "config"} => channel[v]

\* What a sync knows of its own vault, whoever else syncs.
FilesInv == SyncTypeOK /\ FetchedIsRelease /\ CopiedIsFetched /\ LaidOver /\ ChannelSet

\* The entries of v's project, and those of its copy, name what v has fetched.
Names(v) ==
  \A w \in Entries : w = v \/ registry[w].path = v =>
     registry[w].path = v /\ registry[w].version = fetched[v]

OneSyncs == \A v, w \in Vault : Inactive(v) \/ Inactive(w) \/ v = w
PlanIsPinned == \A v \in Vault : syncing[v] = "writing" => plan[v] = Pinned(v)
TornIsPlan == \A v \in Vault : syncing[v] = "torn" => registry = plan[v] /\ Names(v)
PinnedNames == \A v \in Vault : syncing[v] = "pinned" => readable /\ Names(v)

\* With one sync at a time, what it read of the registry is still so.
PinInv == OneSyncs /\ PlanIsPinned /\ TornIsPlan /\ PinnedNames

\* A refreshed entry is of its project still, and names the vault's copy.
LEMMA RefreshedIs ==
  ASSUME NEW v \in Vault, NEW w \in Vault, registry[w] \in Entry, registry[w] # NoEntry,
         files[v][Meta] \in Release \union {0}
  PROVE  /\ Refreshed(v, w) \in Entry
         /\ Refreshed(v, w).path = v
         /\ Refreshed(v, w).version = files[v][Meta]
<1>1. registry[w] \in [path : Vault \union CacheDir \union {Elsewhere},
                       version : Release \union {0}, source : {"local", "marketplace"}]
  BY DEF Entry
<1> QED BY <1>1 DEF Refreshed, Entry

\* The version a pin reads is the one of the release that was laid over.
LEMMA VersionRead ==
  ASSUME NEW v \in Vault, fetched[v] \in Release, Whole(v, fetched[v])
  PROVE  files[v][Meta] = fetched[v] /\ files[v][Meta] \in Release /\ files[v][Meta] # 0
BY ManifestShipped DEF Whole

LEMMA PinnedTyped ==
  ASSUME SyncTypeOK, NEW v \in Vault, fetched[v] \in Release, Whole(v, fetched[v])
  PROVE  Pinned(v) \in Registry
<1>1. NoEntry \in Entry BY DEF Entry
<1>2. \A w \in Vault : registry[w] \in Entry BY DEF SyncTypeOK, Registry
<1>3. \A w \in Entries : Refreshed(v, w) \in Entry
  BY <1>2, VersionRead, RefreshedIs DEF Entries
<1> QED BY <1>1, <1>2, <1>3 DEF Pinned, Registry

\* What a pin writes: every entry is as it was, gone, or of the vault's copy
\* and at the release that was laid over; those of this project and this copy
\* are among the last.
LEMMA PinnedSays ==
  ASSUME SyncTypeOK, NEW v \in Vault, fetched[v] \in Release, Whole(v, fetched[v]), NEW w \in Vault
  PROVE  /\ Pinned(v)[w] = registry[w] \/ Pinned(v)[w] = NoEntry
            \/ (Pinned(v)[w].path = v /\ Pinned(v)[w].version = fetched[v])
         /\ Pinned(v)[w] # NoEntry /\ (w = v \/ Pinned(v)[w].path = v) =>
              Pinned(v)[w].path = v /\ Pinned(v)[w].version = fetched[v]
<1>1. registry[w] \in Entry BY DEF SyncTypeOK, Registry
<1>2. Pinned(v)[w] = IF w \notin Entries \/ w \notin present THEN NoEntry
                     ELSE IF Mine(v, w) THEN Refreshed(v, w) ELSE registry[w]
  BY DEF Pinned
<1>3. w \in Entries => Refreshed(v, w).path = v /\ Refreshed(v, w).version = fetched[v]
  BY <1>1, VersionRead, RefreshedIs DEF Entries
<1> QED BY <1>2, <1>3 DEF Mine

LEMMA SyncTyped ==
  ASSUME FilesInv, [SyncNext]_syncVars
  PROVE  SyncTypeOK'
<1>0. SyncTypeOK BY DEF FilesInv
<1>1. CASE UNCHANGED syncVars BY <1>0, <1>1 DEF syncVars, SyncTypeOK
<1>2. ASSUME NEW v \in Vault, NEW r \in Release, Download(v, r) PROVE SyncTypeOK'
  <2>1. syncing' \in [Vault -> {"idle", "copying", "merging", "config", "pinning",
                                "writing", "torn", "skipped", "pinned", "failed", "ok"}]
    BY <1>0, <1>2 DEF Download, SyncTypeOK
  <2>2. fetched' \in [Vault -> Release \union {0}] BY <1>0, <1>2 DEF Download, SyncTypeOK
  <2> QED BY <1>0, <1>2, <2>1, <2>2 DEF Download, SyncTypeOK
<1>3. ASSUME NEW v \in Vault, NEW f \in File, Copy(v, f) PROVE SyncTypeOK'
  BY <1>0, <1>3 DEF Copy, SyncTypeOK
<1>4. ASSUME NEW v \in Vault, PruneFiles(v) PROVE SyncTypeOK'
  <2>1. PICK left \in SUBSET (File \ Ships[fetched[v]]) :
          files' = [files EXCEPT ![v] =
                      [f \in File |-> IF f \in Ships[fetched[v]] \union left THEN files[v][f] ELSE 0]]
    BY <1>4 DEF PruneFiles
  <2>2. files' \in [Vault -> [File -> Release \union {0}]] BY <1>0, <2>1 DEF SyncTypeOK
  <2> QED BY <1>0, <1>4, <2>2 DEF PruneFiles, Steps, SyncTypeOK
<1>5. ASSUME NEW v \in Vault,
             Merge(v) \/ UpdateConfig(v) \/ Fail(v) \/ SyncKilled(v) \/ PinFails(v) \/ CleanCache(v)
      PROVE  SyncTypeOK'
  BY <1>0, <1>5 DEF Merge, UpdateConfig, Fail, SyncKilled, PinFails, CleanCache, Steps, SyncTypeOK
<1>6. ASSUME NEW v \in Vault, ReadRegistry(v) PROVE SyncTypeOK'
  <2>1. syncing[v] = "pinning" BY <1>6 DEF ReadRegistry, Steps
  <2>2. Pinned(v) \in Registry
    BY <1>0, <2>1, PinnedTyped DEF FilesInv, FetchedIsRelease, LaidOver, UnderWay
  <2> QED BY <1>0, <1>6, <2>2 DEF ReadRegistry, Steps, SyncTypeOK
<1>7. ASSUME NEW v \in Vault, WriteRegistry(v) \/ WriteEnds(v) PROVE SyncTypeOK'
  <2>1. plan[v] \in Registry BY <1>0 DEF SyncTypeOK
  <2>2. registry' \in Registry /\ readable' \in BOOLEAN BY <1>7, <2>1 DEF WriteRegistry, WriteEnds
  <2>3. syncing' \in [Vault -> {"idle", "copying", "merging", "config", "pinning",
                                "writing", "torn", "skipped", "pinned", "failed", "ok"}]
    BY <1>0, <1>7 DEF WriteRegistry, WriteEnds, Steps, SyncTypeOK
  <2>4. UNCHANGED <<files, channel, cache, present, fetched, copied, plan, started>>
    BY <1>7 DEF WriteRegistry, WriteEnds
  <2> QED BY <1>0, <2>2, <2>3, <2>4 DEF SyncTypeOK
<1> QED BY <1>1, <1>2, <1>3, <1>4, <1>5, <1>6, <1>7 DEF SyncNext

\* What FilesInv says of one vault.
VaultInv(v) ==
  UnderWay(v) =>
    /\ fetched[v] \in Release
    /\ IF syncing[v] = "copying" THEN \A f \in copied[v] : files[v][f] = fetched[v]
       ELSE Whole(v, fetched[v])
    /\ syncing[v] \notin {"copying", "merging", "config"} => channel[v]

LEMMA FilesInvByVault == FilesInv <=> SyncTypeOK /\ \A v \in Vault : VaultInv(v)
BY DEF FilesInv, FetchedIsRelease, CopiedIsFetched, LaidOver, ChannelSet, VaultInv, UnderWay

\* A sync works on its own vault.
LEMMA OtherVaults ==
  ASSUME SyncTypeOK, NEW v \in Vault, NEW u \in Vault, u # v, VaultInv(u),
         \/ \E r \in Release : Download(v, r)
         \/ \E f \in File : Copy(v, f)
         \/ PruneFiles(v) \/ Merge(v) \/ UpdateConfig(v) \/ Fail(v) \/ SyncKilled(v)
         \/ ReadRegistry(v) \/ PinFails(v) \/ WriteRegistry(v) \/ WriteEnds(v) \/ CleanCache(v)
  PROVE  VaultInv(u)'
<1>1. /\ syncing'[u] = syncing[u] /\ fetched'[u] = fetched[u] /\ copied'[u] = copied[u]
      /\ channel'[u] = channel[u]
  BY DEF Download, Copy, PruneFiles, Merge, UpdateConfig, Fail, SyncKilled, ReadRegistry, PinFails,
         WriteRegistry, WriteEnds, CleanCache, Steps, SyncTypeOK
<1>2. files'[u] = files[u]
  BY DEF Download, Copy, PruneFiles, Merge, UpdateConfig, Fail, SyncKilled, ReadRegistry, PinFails,
         WriteRegistry, WriteEnds, CleanCache, SyncTypeOK
<1> QED BY <1>1, <1>2 DEF VaultInv, UnderWay, Whole

\* A step of the vault's own sync.
LEMMA OwnVault ==
  ASSUME SyncTypeOK, NEW v \in Vault, VaultInv(v),
         \/ \E r \in Release : Download(v, r)
         \/ \E f \in File : Copy(v, f)
         \/ PruneFiles(v) \/ Merge(v) \/ UpdateConfig(v) \/ Fail(v) \/ SyncKilled(v)
         \/ ReadRegistry(v) \/ PinFails(v) \/ WriteRegistry(v) \/ WriteEnds(v) \/ CleanCache(v)
  PROVE  VaultInv(v)'
<1>1. ASSUME NEW r \in Release, Download(v, r) PROVE VaultInv(v)'
  BY <1>1 DEF Download, VaultInv, UnderWay, SyncTypeOK
<1>2. ASSUME NEW f \in File, Copy(v, f) PROVE VaultInv(v)'
  <2>1. /\ files'[v] = [files[v] EXCEPT ![f] = fetched[v]]
        /\ copied'[v] = copied[v] \union {f}
        /\ syncing' = syncing /\ fetched' = fetched /\ syncing[v] = "copying"
    BY <1>2 DEF Copy, SyncTypeOK
  <2>2. files[v] \in [File -> Release \union {0}] /\ copied[v] \subseteq File
    BY DEF SyncTypeOK
  <2> QED BY <2>1, <2>2 DEF VaultInv, UnderWay
<1>3. CASE PruneFiles(v)
  <2>1. PICK left \in SUBSET (File \ Ships[fetched[v]]) :
          files' = [files EXCEPT ![v] =
                      [f \in File |-> IF f \in Ships[fetched[v]] \union left THEN files[v][f] ELSE 0]]
    BY <1>3 DEF PruneFiles
  <2>2. /\ syncing[v] = "copying" /\ syncing'[v] = "merging" /\ fetched' = fetched
        /\ Ships[fetched[v]] \subseteq copied[v]
    BY <1>3 DEF PruneFiles, Steps, ToCopy, SyncTypeOK
  <2>3. fetched[v] \in Release /\ \A f \in copied[v] : files[v][f] = fetched[v]
    BY <2>2 DEF VaultInv, UnderWay
  <2>4. Ships[fetched[v]] \subseteq File BY <2>3, ManifestShipped
  <2>5. \A f \in Ships[fetched[v]] : files'[v][f] = fetched[v]
    BY <2>1, <2>2, <2>3, <2>4 DEF SyncTypeOK
  <2> QED BY <2>2, <2>3, <2>5 DEF VaultInv, UnderWay, Whole
<1>4. CASE Merge(v) \/ UpdateConfig(v) \/ Fail(v) \/ SyncKilled(v)
  BY <1>4 DEF Merge, UpdateConfig, Fail, SyncKilled, Steps, VaultInv, UnderWay, Whole, SyncTypeOK
<1>5. CASE ReadRegistry(v) \/ PinFails(v) \/ WriteRegistry(v) \/ WriteEnds(v) \/ CleanCache(v)
  <2>1. /\ files' = files /\ fetched' = fetched /\ channel' = channel
        /\ syncing[v] \in {"pinning", "writing", "torn", "skipped", "pinned"}
        /\ syncing'[v] \in {"skipped", "pinned", "writing", "torn", "ok"}
    BY <1>5 DEF ReadRegistry, PinFails, WriteRegistry, WriteEnds, CleanCache, Steps, SyncTypeOK
  <2> QED BY <2>1 DEF VaultInv, UnderWay, Whole
<1> QED BY <1>1, <1>2, <1>3, <1>4, <1>5

LEMMA FilesInvInit == SyncInit => FilesInv
<1> SUFFICES ASSUME SyncInit PROVE FilesInv OBVIOUS
<1>1. \A w \in Vault : registry[w] \in Entry /\ NoEntry \in Entry BY DEF SyncInit, Entry
<1>2. registry \in Registry BY <1>1 DEF SyncInit, Registry
<1>3. plan \in [Vault -> Registry] BY <1>1 DEF SyncInit, Registry
<1>4. SyncTypeOK BY <1>2, <1>3 DEF SyncInit, SyncTypeOK
<1>5. \A v \in Vault : VaultInv(v) BY DEF SyncInit, VaultInv, UnderWay
<1> QED BY <1>4, <1>5, FilesInvByVault

LEMMA FilesInvStep == FilesInv /\ [SyncNext]_syncVars => FilesInv'
<1> SUFFICES ASSUME FilesInv, [SyncNext]_syncVars PROVE FilesInv' OBVIOUS
<1>0. SyncTypeOK /\ \A v \in Vault : VaultInv(v) BY FilesInvByVault
<1>1. SyncTypeOK' BY SyncTyped
<1>2. ASSUME NEW u \in Vault PROVE VaultInv(u)'
  <2>1. CASE UNCHANGED syncVars BY <1>0, <2>1 DEF syncVars, VaultInv, UnderWay, Whole
  <2>2. CASE SyncNext
    <3>1. PICK v \in Vault :
            \/ \E r \in Release : Download(v, r)
            \/ \E f \in File : Copy(v, f)
            \/ PruneFiles(v) \/ Merge(v) \/ UpdateConfig(v) \/ Fail(v) \/ SyncKilled(v)
            \/ ReadRegistry(v) \/ PinFails(v) \/ WriteRegistry(v) \/ WriteEnds(v) \/ CleanCache(v)
      BY <2>2 DEF SyncNext
    <3>2. CASE u = v BY <1>0, <3>1, <3>2, OwnVault
    <3>3. CASE u # v BY <1>0, <3>1, <3>3, OtherVaults
    <3> QED BY <3>2, <3>3
  <2> QED BY <2>1, <2>2
<1>3. FilesInv' <=> (SyncTypeOK /\ \A v \in Vault : VaultInv(v))' BY FilesInvByVault, PTL
<1> QED BY <1>1, <1>2, <1>3

LEMMA FilesInvAlways == SyncSpec => []FilesInv
<1> QED BY FilesInvInit, FilesInvStep, PTL DEF SyncSpec

\* A registry worked out by Pinned names what was fetched.
LEMMA PinnedIsNamed ==
  ASSUME SyncTypeOK, NEW v \in Vault, fetched[v] \in Release, Whole(v, fetched[v]),
         registry' = Pinned(v), fetched' = fetched
  PROVE  Names(v)'
BY PinnedSays DEF Names, Entries

\* One step of the sync of v, of whatever kind.
SyncOf(v) ==
  \/ \E r \in Release : Download(v, r)
  \/ \E f \in File : Copy(v, f)
  \/ PruneFiles(v) \/ Merge(v) \/ UpdateConfig(v) \/ Fail(v) \/ SyncKilled(v)
  \/ ReadRegistry(v) \/ PinFails(v) \/ WriteRegistry(v) \/ WriteEnds(v) \/ CleanCache(v)

\* Where syncs do not overlap, whoever moves is alone in it.
LEMMA AloneInSync ==
  ASSUME ~Overlapping, SyncTypeOK, OneSyncs, NEW v \in Vault, SyncOf(v)
  PROVE  \A u \in Vault : u # v => Inactive(u) /\ syncing'[u] = syncing[u]
<1>1. \A u \in Vault : u # v => syncing'[u] = syncing[u]
  BY DEF SyncOf, Download, Copy, PruneFiles, Merge, UpdateConfig, Fail, SyncKilled, ReadRegistry,
         PinFails, WriteRegistry, WriteEnds, CleanCache, Steps, SyncTypeOK
<1>2. CASE \E r \in Release : Download(v, r) BY <1>1, <1>2 DEF Download
<1>3. CASE ~\E r \in Release : Download(v, r)
  <2>1. ~Inactive(v)
    BY <1>3 DEF SyncOf, Copy, PruneFiles, Merge, UpdateConfig, Fail, SyncKilled, ReadRegistry,
           PinFails, WriteRegistry, WriteEnds, CleanCache, Steps, Inactive
  <2> QED BY <1>1, <2>1 DEF OneSyncs
<1> QED BY <1>2, <1>3

\* What PinInv says of a sync that has got to its pin.
PinOf(v) ==
  /\ syncing[v] = "writing" => plan[v] = Pinned(v)
  /\ syncing[v] = "torn" => registry = plan[v] /\ Names(v)
  /\ syncing[v] = "pinned" => readable /\ Names(v)

LEMMA PinOfStep ==
  ASSUME FilesInv, NEW v \in Vault, PinOf(v), SyncOf(v)
  PROVE  PinOf(v)'
<1>0. SyncTypeOK /\ VaultInv(v) BY FilesInvByVault
<1>1. CASE ReadRegistry(v)
  <2>1. /\ syncing[v] = "pinning" /\ syncing'[v] \in {"skipped", "pinned", "writing"}
        /\ UNCHANGED <<files, registry, readable, present, fetched>>
    BY <1>0, <1>1 DEF ReadRegistry, Steps, SyncTypeOK
  <2>2. fetched[v] \in Release /\ Whole(v, fetched[v]) BY <1>0, <2>1 DEF VaultInv, UnderWay
  <2>3. syncing'[v] # "skipped" =>
          /\ readable /\ plan'[v] = Pinned(v)
          /\ syncing'[v] = "pinned" => registry = Pinned(v)
    BY <1>0, <1>1 DEF ReadRegistry, Steps, SyncTypeOK
  <2>4. Pinned(v)' = Pinned(v)
    BY <2>1 DEF Pinned, Entries, Mine, Refreshed
  <2>5. syncing'[v] = "pinned" => Names(v)' BY <1>0, <2>1, <2>2, <2>3, PinnedIsNamed
  <2> QED BY <2>1, <2>3, <2>4, <2>5 DEF PinOf
<1>2. CASE WriteRegistry(v)
  <2>1. /\ syncing[v] = "writing" /\ registry' = plan[v] /\ fetched' = fetched /\ plan' = plan
        /\ syncing'[v] = "torn" \/ (syncing'[v] = "pinned" /\ readable')
    BY <1>0, <1>2 DEF WriteRegistry, Steps, SyncTypeOK
  <2>2. fetched[v] \in Release /\ Whole(v, fetched[v]) /\ plan[v] = Pinned(v)
    BY <1>0, <2>1 DEF VaultInv, UnderWay, PinOf
  <2>3. Names(v)' BY <1>0, <2>1, <2>2, PinnedIsNamed
  <2> QED BY <2>1, <2>3 DEF PinOf
<1>3. CASE WriteEnds(v)
  <2>1. /\ syncing[v] = "torn" /\ registry' = plan[v] /\ fetched' = fetched
        /\ syncing'[v] = "pinned" /\ readable'
    BY <1>0, <1>3 DEF WriteEnds, Steps, SyncTypeOK
  <2>2. registry' = registry /\ Names(v) BY <2>1 DEF PinOf
  <2>3. Names(v)' BY <2>1, <2>2 DEF Names, Entries
  <2> QED BY <2>1, <2>3 DEF PinOf
<1>4. CASE ~ReadRegistry(v) /\ ~WriteRegistry(v) /\ ~WriteEnds(v)
  <2>1. syncing'[v] \notin {"writing", "torn", "pinned"}
    BY <1>0, <1>4 DEF SyncOf, Download, Copy, PruneFiles, Merge, UpdateConfig, Fail, SyncKilled,
           PinFails, CleanCache, Steps, SyncTypeOK
  <2> QED BY <2>1 DEF PinOf
<1> QED BY <1>1, <1>2, <1>3, <1>4

LEMMA PinInvByVault == PinInv <=> OneSyncs /\ \A v \in Vault : PinOf(v)
BY DEF PinInv, PlanIsPinned, TornIsPlan, PinnedNames, PinOf

LEMMA PinInvStep ==
  ASSUME ~Overlapping
  PROVE  FilesInv /\ PinInv /\ [SyncNext]_syncVars => PinInv'
<1> SUFFICES ASSUME FilesInv, PinInv, [SyncNext]_syncVars PROVE PinInv' OBVIOUS
<1>0. SyncTypeOK /\ OneSyncs /\ \A v \in Vault : PinOf(v)
  BY PinInvByVault DEF FilesInv
<1>4. PinInv' <=> (OneSyncs /\ \A v \in Vault : PinOf(v))' BY PinInvByVault, PTL
<1>1. CASE UNCHANGED syncVars
  <2>1. ASSUME NEW v \in Vault PROVE PinOf(v)'
    <3>1. Pinned(v)' = Pinned(v) BY <1>1 DEF syncVars, Pinned, Entries, Mine, Refreshed
    <3>2. Names(v)' <=> Names(v) BY <1>1 DEF syncVars, Names, Entries
    <3> QED BY <1>0, <1>1, <3>1, <3>2 DEF syncVars, PinOf
  <2>2. OneSyncs' BY <1>0, <1>1 DEF syncVars, OneSyncs, Inactive
  <2> QED BY <1>4, <2>1, <2>2
<1>2. CASE SyncNext
  <2>1. PICK v \in Vault : SyncOf(v) BY <1>2 DEF SyncNext, SyncOf
  <2>2. \A u \in Vault : u # v => Inactive(u) /\ syncing'[u] = syncing[u]
    BY <1>0, <2>1, AloneInSync
  <2>3. OneSyncs' BY <2>2 DEF OneSyncs, Inactive
  <2>4. ASSUME NEW u \in Vault PROVE PinOf(u)'
    <3>1. CASE u = v BY <1>0, <2>1, <3>1, PinOfStep
    <3>2. CASE u # v BY <2>2, <3>2 DEF Inactive, PinOf
    <3> QED BY <3>1, <3>2
  <2> QED BY <1>4, <2>3, <2>4
<1> QED BY <1>1, <1>2

LEMMA PinInvAlways == ASSUME ~Overlapping PROVE SyncSpec => [](FilesInv /\ PinInv)
<1>1. SyncInit => PinInv
  BY DEF SyncInit, PinInv, OneSyncs, Inactive, PlanIsPinned, TornIsPlan, PinnedNames
<1> QED BY <1>1, FilesInvInit, FilesInvStep, PinInvStep, PTL DEF SyncSpec

\* The state of the syncs is always of its types.
THEOREM SyncTyping == SyncSpec => []SyncTypeOK
<1>1. FilesInv => SyncTypeOK BY DEF FilesInv
<1> QED BY <1>1, FilesInvAlways, PTL

\* The first half of SyncTakesEffect.
LaidOverAtEnd == \A v \in Vault : syncing[v] = "ok" => Whole(v, fetched[v]) /\ channel[v]

\* A sync that ends well (run_vault_sync) leaves every file of its release in
\* place, whatever syncs that failed or were killed had left behind: for any
\* releases, and for syncs of other vaults at the same time as well.
THEOREM SyncLaysOver == SyncSpec => []LaidOverAtEnd
<1>1. FilesInv => LaidOverAtEnd BY DEF FilesInv, LaidOver, ChannelSet, UnderWay, LaidOverAtEnd
<1> QED BY <1>1, FilesInvAlways, PTL

\* Where syncs of two vaults do not overlap, the registry also names what the
\* sync has put in place (pin_to_vault).
THEOREM SyncsTakeEffect == ASSUME ~Overlapping PROVE SyncSpec => []SyncTakesEffect
<1>1. FilesInv /\ PinInv => SyncTakesEffect
  BY DEF FilesInv, LaidOver, ChannelSet, UnderWay, PinInv, PinnedNames, Names, SyncTakesEffect
<1> QED BY <1>1, PinInvAlways, PTL

\* No step makes the registry name a release for a vault's copy that is not
\* there as a whole.
THEOREM PinsNameWhole == ASSUME ~Overlapping PROVE SyncSpec => PinNamesWhole
<1>1. ASSUME FilesInv, PinInv, [SyncNext]_syncVars
      PROVE  \A w, v \in Vault :
               LET e == registry'[w]
               IN  e # registry[w] /\ e.path = v => e.version # 0 /\ Whole(v, e.version)
  <2> SUFFICES ASSUME NEW w \in Vault, NEW v \in Vault,
                      registry'[w] # registry[w], registry'[w].path = v
               PROVE  registry'[w].version # 0 /\ Whole(v, registry'[w].version)
    OBVIOUS
  <2>1. PICK u \in Vault : SyncOf(u) BY <1>1 DEF SyncNext, SyncOf, syncVars
  <2>2. WriteRegistry(u) \/ WriteEnds(u)
    BY <2>1 DEF SyncOf, Download, Copy, PruneFiles, Merge, UpdateConfig, Fail, SyncKilled,
           ReadRegistry, PinFails, CleanCache
  <2>3. ~WriteEnds(u)
    BY <1>1 DEF WriteEnds, Steps, PinInv, TornIsPlan
  <2>4. syncing[u] = "writing" /\ registry' = plan[u] BY <2>2, <2>3 DEF WriteRegistry, Steps
  <2>5. registry' = Pinned(u) BY <1>1, <2>4 DEF PinInv, PlanIsPinned
  <2>6. SyncTypeOK /\ fetched[u] \in Release /\ Whole(u, fetched[u])
    BY <1>1, <2>4 DEF FilesInv, FetchedIsRelease, LaidOver, UnderWay
  <2>7. NoEntry.path \notin Vault BY ElsewhereIsNoVault DEF NoEntry
  <2>8. registry'[w].path = u /\ registry'[w].version = fetched[u]
    BY <2>5, <2>6, <2>7, PinnedSays
  <2> QED BY <2>6, <2>8, ManifestShipped
<1>2. FilesInv /\ PinInv /\ [SyncNext]_syncVars =>
        \A w, v \in Vault :
           LET e == registry'[w]
           IN  e # registry[w] /\ e.path = v => e.version # 0 /\ Whole(v, e.version)
  BY <1>1
<1> QED BY <1>2, PinInvAlways, PTL DEF SyncSpec, PinNamesWhole
=============================================================================
