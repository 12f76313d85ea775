-------------------------------- MODULE Index --------------------------------
(***************************************************************************)
(* The search index of one collection (onebrain-search/src/engine.rs): a   *)
(* keyword index (tantivy), a vector store and engine.redb, three stores   *)
(* that are committed one after the other, kept in step with the vault's   *)
(* files by reindexing what its hashes call changed.  A process that has   *)
(* opened the engine holds the collection lock, so there is one at a time; *)
(* it may be killed between any two of the commits.                        *)
(*                                                                         *)
(* A document is one chunk.  Contents are numbered in the order in which   *)
(* they are first written and stand for their own hashes.                  *)
(***************************************************************************)
EXTENDS Integers, Sequences, FiniteSets

CONSTANTS Doc,
          Model,        \* the embedding models
          Dims,         \* the width of each model's vectors
          FirstModel,   \* search.embed_model to begin with
          \* Bounds of the exploration.
          MaxEdit, MaxGeneration,
          MaxUpset      \* kills, texts not embedded, updates of the program, changes of
                        \* model and forced wipes; a failed write counts twice

ASSUME ModelsType == FirstModel \in Model /\ Dims \in [Model -> Nat \ {0}]
ASSUME IndexBounds == MaxEdit \in Nat /\ MaxUpset \in Nat

VARIABLES
  file,         \* the vault's file of each document; 0 when there is none
  edits,        \* contents written so far
  meta,         \* CHUNK_META and DOC_CHUNKS: the text of the document's chunk
  docHash,      \* DOC_HASHES
  lexHash,      \* LEX_HASHES
  generation,   \* ENGINE_HEADER: generation
  instance,     \* ENGINE_HEADER: index_nonce; 0 when engine.redb has no header
  minted,       \* the ids handed out so far
  lex,          \* the keyword index: the entries with the document's chunk id
  draft,        \* the same as its writer would commit it
  stray,        \* history: documents with entries that were added and not recorded
  oldSchema,    \* whether it was written under an earlier schema
  marker,       \* the rebuild marker next to it
  vec,          \* the vector store: text and model of the document's vector
  width,        \* the width the vector store was created with; 0 when there is none
  embedModel,   \* search.embed_model in onebrain.yml
  undone,       \* history: the vectors were wiped for another model, and it has not been persisted
  memo,         \* the last query memoized, with what it answered
  engine,       \* the process with the engine: what it is at, and what is left
  remade,       \* history: a store was rebuilt or wiped since the last reindex began
  cut,          \* history: documents a pass was cut short on, until another completes them
  upsets        \* what has been counted against MaxUpset

redb == <<meta, docHash, lexHash, generation, instance>>
keyword == <<lex, draft, stray>>
stores == <<redb, keyword, oldSchema, marker, vec, width>>
indexVars == <<file, edits, stores, minted, embedModel, undone, memo, engine, remade,
               cut, upsets>>

Content == 1..MaxEdit
NoVector == [text |-> 0, model |-> FirstModel]
NoMemo == [generation |-> 0, instance |-> 0, answer |-> <<>>]
Blank == [d \in Doc |-> 0]
Empty == [d \in Doc |-> <<>>]

\* at: "closed", "marking", "wiping", "refilling" or "unmarking" while the
\* engine opens, "ready", "reindexing", "rebuilding" or "forcing".
\* todo: the documents left; steps: what is left to do for doc, with its text.
Closed == [at |-> "closed", mode |-> "none", whole |-> FALSE, todo |-> {}, doc |-> "none",
           text |-> 0, steps |-> <<>>, model |-> FirstModel]
Ready == [Closed EXCEPT !.at = "ready"]

IndexTypeOK ==
  /\ file \in [Doc -> Content \union {0}] /\ edits \in 0..MaxEdit
  /\ meta \in [Doc -> Content \union {0}]
  /\ docHash \in [Doc -> Content \union {0}] /\ lexHash \in [Doc -> Content \union {0}]
  /\ generation \in Nat /\ instance \in 0..minted /\ minted \in Nat
  /\ \A d \in Doc : lex[d] \in Seq(Content) /\ draft[d] \in Seq(Content)
  /\ stray \subseteq Doc
  /\ oldSchema \in BOOLEAN /\ marker \in BOOLEAN
  /\ vec \in [Doc -> [text : Content, model : Model] \union {NoVector}]
  /\ width \in {Dims[m] : m \in Model} \union {0}
  /\ embedModel \in Model
  /\ memo.generation \in Nat /\ memo.instance \in 0..minted
  /\ engine.mode \in {"none", "full", "lex"} /\ engine.todo \subseteq Doc
  /\ engine.steps # <<>> => engine.at = "forcing" \/ engine.doc \in Doc
  /\ undone \in BOOLEAN /\ remade \in BOOLEAN /\ cut \subseteq Doc /\ upsets \in 0..MaxUpset

IndexInit ==
  /\ file = Blank /\ edits = 0
  /\ meta = Blank /\ docHash = Blank /\ lexHash = Blank
  /\ generation = 0 /\ instance = 0 /\ minted = 0
  /\ lex = Empty /\ draft = Empty /\ stray = {} /\ oldSchema = FALSE /\ marker = FALSE
  /\ vec = [d \in Doc |-> NoVector] /\ width = 0
  /\ embedModel = FirstModel /\ undone = FALSE /\ memo = NoMemo /\ engine = Closed
  /\ remade = FALSE /\ cut = {} /\ upsets = 0

Upset(weight) == upsets + weight <= MaxUpset /\ upsets' = upsets + weight

-----------------------------------------------------------------------------
(* The vault, and the program itself *)

\* A file may get back a content it has had: an edit that is undone.
Edit(d) ==
  /\ \/ /\ edits < MaxEdit
        /\ edits' = edits + 1 /\ file' = [file EXCEPT ![d] = edits + 1]
     \/ /\ \E c \in 1..edits : c # file[d] /\ file' = [file EXCEPT ![d] = c]
        /\ UNCHANGED edits
     \/ /\ file[d] # 0
        /\ file' = [file EXCEPT ![d] = 0]
        /\ UNCHANGED edits
  /\ UNCHANGED <<stores, minted, embedModel, undone, memo, engine, remade, cut, upsets>>

\* A release with another keyword schema finds an index that it did not write.
Upgrade ==
  /\ engine.at = "closed" /\ ~oldSchema /\ instance # 0
  /\ oldSchema' = TRUE
  /\ Upset(1)
  /\ UNCHANGED <<file, edits, redb, keyword, marker, vec, width, minted, embedModel, undone, memo,
                 engine, remade, cut>>

-----------------------------------------------------------------------------
(* The keyword index has one writer: what it was given and has not committed *)
(* is kept until a commit, of whichever document, or lost with the process.  *)

Strays(entries) == {d \in stray : entries[d] # <<>>}

Discard == draft' = lex /\ stray' = Strays(lex) /\ UNCHANGED lex

Replace(entries) == lex' = entries /\ draft' = entries /\ stray' = {}

-----------------------------------------------------------------------------
(* Opening, closing, being killed *)

\* Mutant: the rebuild happens only in the process that wiped the index.
WipedHere == FALSE

\* lex::rebuild_pending
RebuildPending == marker

\* The vector store is opened first and refuses another width; then the header
\* gets its id, unless it has one; then the keyword index.
Open ==
  /\ engine.at = "closed"
  /\ width \in {0, Dims[embedModel]}
  /\ width' = Dims[embedModel]
  /\ IF instance = 0 THEN minted' = minted + 1 /\ instance' = minted + 1
                     ELSE UNCHANGED <<minted, instance>>
  /\ engine' = [Ready EXCEPT !.at = IF oldSchema THEN "marking"
                                    ELSE IF RebuildPending THEN "refilling" ELSE "ready"]
  /\ UNCHANGED <<file, edits, meta, docHash, lexHash, generation, keyword, oldSchema, marker,
                 vec, embedModel, undone, memo, remade, cut, upsets>>

\* open_or_reset: the marker, then the wipe.
Mark ==
  /\ engine.at = "marking"
  /\ marker' = TRUE
  /\ engine' = [engine EXCEPT !.at = "wiping"]
  /\ UNCHANGED <<file, edits, redb, keyword, oldSchema, vec, width, minted, embedModel, undone, memo,
                 remade, cut, upsets>>

WipeOld ==
  /\ engine.at = "wiping"
  /\ Replace(Empty) /\ oldSchema' = FALSE
  /\ engine' = [engine EXCEPT !.at = "refilling"]
  /\ UNCHANGED <<file, edits, redb, marker, vec, width, minted, embedModel, undone, memo,
                 remade, cut, upsets>>

\* repopulate_lex_from_meta clears the index and adds every chunk; refused when
\* there is nothing to restore and something to lose.
Refill ==
  /\ engine.at = "refilling"
  /\ LET refused == meta = Blank /\ \E d \in Doc : lex[d] # <<>> IN
     IF refused
     THEN /\ engine' = Ready
          /\ UNCHANGED <<keyword, remade>>
     ELSE /\ Replace([d \in Doc |-> IF meta[d] = 0 THEN <<>> ELSE <<meta[d]>>])
          /\ remade' = TRUE
          /\ engine' = [engine EXCEPT !.at = "unmarking"]
  /\ UNCHANGED <<file, edits, redb, oldSchema, marker, vec, width, minted, embedModel, undone, memo,
                 cut, upsets>>

Unmark ==
  /\ engine.at = "unmarking"
  /\ marker' = FALSE
  /\ engine' = Ready
  /\ UNCHANGED <<file, edits, redb, keyword, oldSchema, vec, width, minted, embedModel, undone, memo,
                 remade, cut, upsets>>

Chunks == Cardinality({d \in Doc : meta[d] # 0})
LexDocs == LET n[S \in SUBSET Doc] == IF S = {} THEN 0
                 ELSE LET d == CHOOSE e \in S : TRUE IN Len(lex[d]) + n[S \ {d}]
           IN n[Doc]

\* LexHealth: dead, too many documents, or a rebuild pending.
IsHealthy == ~(Chunks > 0 /\ LexDocs = 0) /\ LexDocs <= Chunks /\ ~marker

\* `onebrain doctor --fix`
FixLex ==
  /\ engine.at = "ready" /\ ~IsHealthy
  /\ engine' = [engine EXCEPT !.at = "refilling"]
  /\ UNCHANGED <<file, edits, stores, minted, embedModel, undone, memo, remade, cut, upsets>>

Close ==
  /\ engine.at = "ready"
  /\ engine' = Closed
  /\ Discard
  /\ UNCHANGED <<file, edits, redb, oldSchema, marker, vec, width, minted, embedModel, undone,
                 memo, remade, cut, upsets>>

Kill ==
  /\ engine.at # "closed"
  /\ Upset(1)
  /\ engine' = Closed
  /\ Discard
  /\ cut' = CASE engine.at = "forcing" -> Doc
              [] engine.at # "forcing" /\ engine.steps # <<>> -> cut \union {engine.doc}
              [] OTHER -> cut
  /\ UNCHANGED <<file, edits, redb, oldSchema, marker, vec, width, minted, embedModel, undone,
                 memo, remade>>

-----------------------------------------------------------------------------
(* Reindexing *)

\* Mutant: the counter moves only when the reindex has ended.
Unmoved == generation

\* bump_generation before the first change.
Bumped == generation + 1

\* reindex_all, in either mode, over the files and everything that was ever
\* indexed; reindex_paths over one document, or over those whose DOC_HASHES
\* entry differs from the file.
Pending == {d \in Doc : docHash[d] # file[d]}

Begin(mode, whole, docs) ==
  /\ engine.at = "ready" /\ generation + 1 < MaxGeneration
  /\ whole => docs = Doc
  /\ docs # {}
  /\ generation' = Bumped
  /\ remade' = FALSE
  /\ engine' = [engine EXCEPT !.at = "reindexing", !.mode = mode, !.whole = whole, !.todo = docs]
  /\ UNCHANGED <<file, edits, meta, docHash, lexHash, instance, keyword, oldSchema, marker, vec,
                 width, minted, embedModel, undone, memo, cut, upsets>>

\* effective_lex_hash
EffectiveLexHash(d) == IF lexHash[d] # 0 THEN lexHash[d] ELSE docHash[d]

\* The hash a reindex of this mode compares the file with.
Stored(d) == IF engine.mode = "full" THEN docHash[d] ELSE EffectiveLexHash(d)

\* Mutant: an order that leaves entries behind when it is cut short.
ForgetFirst == <<"forget", "unlex">>

\* remove_doc commits the keyword index first, index_doc commits engine.redb first.
RemoveSteps == <<"unlex", "forget">>
IndexSteps == <<"embed", "record", "publish">>

HashSteps == IF engine.mode = "full" THEN <<"hash", "unhash">> ELSE <<"lexhash">>

Working(d) == engine.at = "reindexing" /\ engine.steps = <<>> /\ d \in engine.todo

Skip(d) ==
  /\ Working(d)
  /\ IF file[d] # 0 THEN Stored(d) = file[d] ELSE docHash[d] = 0 /\ lexHash[d] = 0
  /\ engine' = [engine EXCEPT !.todo = @ \ {d}]
  /\ UNCHANGED <<file, edits, stores, minted, embedModel, undone, memo, remade, cut, upsets>>

\* reindex_existing_doc reads the file once and compares; a document that is
\* new goes through remove_doc as well.  A document whose file is gone is
\* removed when either table knows it.
Take(d) ==
  /\ Working(d)
  /\ IF file[d] # 0 THEN Stored(d) # file[d] ELSE docHash[d] # 0 \/ lexHash[d] # 0
  /\ engine' = [engine EXCEPT !.doc = d, !.text = file[d],
                  !.steps = IF file[d] = 0 THEN RemoveSteps \o <<"drop">>
                            ELSE RemoveSteps \o IndexSteps \o HashSteps]
  /\ UNCHANGED <<file, edits, stores, minted, embedModel, undone, memo, remade, cut, upsets>>

At(step) == engine.at = "reindexing" /\ engine.steps # <<>> /\ Head(engine.steps) = step

\* The last step of a document takes it off the list.
Advance ==
  LET last == IF Len(engine.steps) = 1 THEN {engine.doc} ELSE {} IN
  /\ engine' = [engine EXCEPT !.steps = Tail(@), !.todo = @ \ last]
  /\ cut' = cut \ last

\* A step that fails: reindex_all counts the document and goes on with the next,
\* unless its file is gone; then, and in reindex_paths, the pass ends without
\* the second bump.
GiveUp ==
  /\ engine' = IF engine.whole /\ engine.text # 0
               THEN [engine EXCEPT !.steps = <<>>, !.todo = @ \ {engine.doc}]
               ELSE Ready
  /\ cut' = cut \union {engine.doc}

\* A commit of the keyword index that fails may have taken effect, and may have
\* cost the writer what it held.
Uncommitted(entries) ==
  /\ lex' \in {lex, entries}
  /\ draft' \in {lex', entries}
  /\ stray' = Strays(lex') \union Strays(draft')

\* remove_doc knows a document's chunks from its DOC_CHUNKS row: without one
\* it deletes nothing.
Deleted == IF meta[engine.doc] = 0 THEN draft ELSE [draft EXCEPT ![engine.doc] = <<>>]
Unvectored == IF meta[engine.doc] = 0 THEN vec ELSE [vec EXCEPT ![engine.doc] = NoVector]

\* LexIndex::add never replaces.
Added == [draft EXCEPT ![engine.doc] = Append(@, engine.text)]

\* The chunk is taken out of the vectors and the keyword index, whose writer
\* commits all it was given.
Unlex ==
  /\ At("unlex")
  /\ lex' = Deleted /\ draft' = Deleted /\ stray' = Strays(Deleted)
  /\ vec' = Unvectored
  /\ Advance
  /\ UNCHANGED <<file, edits, redb, oldSchema, marker, width, minted, embedModel, undone, memo,
                 remade, upsets>>

UnlexFails ==
  /\ At("unlex")
  /\ Upset(2)
  /\ Uncommitted(Deleted)
  /\ vec' \in {vec, Unvectored}
  /\ GiveUp
  /\ UNCHANGED <<file, edits, redb, oldSchema, marker, width, minted, embedModel, undone, memo,
                 remade>>

Forget ==
  /\ At("forget")
  /\ meta' = [meta EXCEPT ![engine.doc] = 0]
  /\ Advance
  /\ UNCHANGED <<file, edits, docHash, lexHash, generation, instance, keyword, oldSchema, marker,
                 vec, width, minted, embedModel, undone, memo, remade, upsets>>

\* The text is added to the keyword index, in the writer only; in a full pass it
\* has been embedded before, and its vector is stored, which is durable at once.
Embed ==
  /\ At("embed")
  /\ draft' = Added
  /\ IF engine.mode = "full"
     THEN vec' = [vec EXCEPT ![engine.doc] = [text |-> engine.text, model |-> embedModel]]
     ELSE UNCHANGED vec
  /\ Advance
  /\ UNCHANGED <<file, edits, redb, lex, stray, oldSchema, marker, width, minted, embedModel,
                 undone, memo, remade, upsets>>

\* A text that cannot be embedded.
EmbedFails ==
  /\ At("embed") /\ engine.mode = "full"
  /\ Upset(1)
  /\ GiveUp
  /\ UNCHANGED <<file, edits, stores, minted, embedModel, undone, memo, remade>>

Record ==
  /\ At("record")
  /\ meta' = [meta EXCEPT ![engine.doc] = engine.text]
  /\ Advance
  /\ UNCHANGED <<file, edits, docHash, lexHash, generation, instance, keyword, oldSchema, marker,
                 vec, width, minted, embedModel, undone, memo, remade, upsets>>

\* The vector store or engine.redb refuses what the writer of the keyword index
\* was given already, and goes on holding.
Strand ==
  /\ \/ At("embed") /\ draft' = Added
     \/ At("record") /\ UNCHANGED draft
  /\ stray' = stray \union {engine.doc}
  /\ Upset(2)
  /\ GiveUp
  /\ UNCHANGED <<file, edits, redb, lex, oldSchema, marker, vec, width, minted, embedModel,
                 undone, memo, remade>>

Publish ==
  /\ At("publish")
  /\ lex' = draft /\ stray' = Strays(draft)
  /\ Advance
  /\ UNCHANGED <<file, edits, redb, draft, oldSchema, marker, vec, width, minted,
                 embedModel, undone, memo, remade, upsets>>

PublishFails ==
  /\ At("publish")
  /\ Upset(2)
  /\ Uncommitted(draft)
  /\ GiveUp
  /\ UNCHANGED <<file, edits, redb, oldSchema, marker, vec, width, minted, embedModel, undone,
                 memo, remade>>

\* store_hash, drop_lex_hash, store_lex_hash and drop_hash.
Hash ==
  /\ \/ /\ At("hash")
        /\ docHash' = [docHash EXCEPT ![engine.doc] = engine.text] /\ UNCHANGED lexHash
     \/ /\ At("unhash")
        /\ lexHash' = [lexHash EXCEPT ![engine.doc] = 0] /\ UNCHANGED docHash
     \/ /\ At("lexhash")
        /\ lexHash' = [lexHash EXCEPT ![engine.doc] = engine.text] /\ UNCHANGED docHash
     \/ /\ At("drop")
        /\ docHash' = [docHash EXCEPT ![engine.doc] = 0]
        /\ lexHash' = [lexHash EXCEPT ![engine.doc] = 0]
  /\ Advance
  /\ UNCHANGED <<file, edits, meta, generation, instance, keyword, oldSchema, marker, vec, width,
                 minted, embedModel, undone, memo, remade, upsets>>

\* Any other step fails and changes nothing.
StepFails ==
  /\ \E step \in {"unlex", "forget", "embed", "hash", "unhash", "lexhash", "drop"} : At(step)
  /\ Upset(2)
  /\ GiveUp
  /\ UNCHANGED <<file, edits, stores, minted, embedModel, undone, memo, remade>>

\* The second bump.
End ==
  /\ engine.at = "reindexing" /\ engine.todo = {} /\ engine.steps = <<>>
  /\ generation' = generation + 1
  /\ engine' = Ready
  /\ UNCHANGED <<file, edits, meta, docHash, lexHash, instance, keyword, oldSchema, marker, vec,
                 width, minted, embedModel, undone, memo, remade, cut, upsets>>

-----------------------------------------------------------------------------
(* Another model, and starting over *)

\* apply_model_change: the vectors go, the store is made again with the new
\* model's width, and every chunk is embedded again.
Rebuild(m) ==
  /\ engine.at = "ready" /\ m # embedModel
  /\ Upset(1)
  /\ vec' = [d \in Doc |-> NoVector] /\ width' = 0
  /\ undone' = TRUE /\ remade' = TRUE
  /\ engine' = [engine EXCEPT !.at = "rebuilding", !.model = m,
                              !.todo = {d \in Doc : meta[d] # 0}]
  /\ UNCHANGED <<file, edits, redb, keyword, oldSchema, marker, minted, embedModel, memo, cut>>

Remake ==
  /\ engine.at = "rebuilding" /\ width = 0
  /\ width' = Dims[engine.model]
  /\ UNCHANGED <<file, edits, redb, keyword, oldSchema, marker, vec, minted, embedModel, undone, memo,
                 engine, remade, cut, upsets>>

Reembed(d) ==
  /\ engine.at = "rebuilding" /\ width # 0 /\ d \in engine.todo
  /\ vec' = [vec EXCEPT ![d] = [text |-> meta[d], model |-> engine.model]]
  /\ engine' = [engine EXCEPT !.todo = @ \ {d}]
  /\ UNCHANGED <<file, edits, redb, keyword, oldSchema, marker, width, minted, embedModel, undone, memo,
                 remade, cut, upsets>>

\* The command fails and exits with onebrain.yml as it was.
ReembedFails ==
  /\ engine.at = "rebuilding" /\ (width = 0 \/ engine.todo # {})
  /\ engine' = Closed
  /\ Discard
  /\ UNCHANGED <<file, edits, redb, oldSchema, marker, vec, width, minted, embedModel, undone,
                 memo, remade, cut, upsets>>

\* persist_embed_model, and the end of the command.
Persist ==
  /\ engine.at = "rebuilding" /\ width # 0 /\ engine.todo = {}
  /\ embedModel' = engine.model
  /\ undone' = FALSE
  /\ engine' = Closed
  /\ Discard
  /\ UNCHANGED <<file, edits, redb, oldSchema, marker, vec, width, minted, memo, remade, cut,
                 upsets>>

\* `reindex --force`: wipe_index_files, before the engine is opened.
ForceReindex ==
  /\ engine.at = "closed" /\ instance # 0
  /\ Upset(1)
  /\ engine' = [Closed EXCEPT !.at = "forcing", !.steps = <<"lex", "vectors", "redb", "marker">>]
  /\ remade' = TRUE
  /\ UNCHANGED <<file, edits, stores, minted, embedModel, undone, memo, cut>>

Wiping(artifact) == engine.at = "forcing" /\ Head(engine.steps) = artifact

Wipe ==
  /\ \/ /\ Wiping("lex")
        /\ Replace(Empty) /\ oldSchema' = FALSE
        /\ UNCHANGED <<redb, marker, vec, width, undone, cut>>
     \/ /\ Wiping("vectors")
        /\ vec' = [d \in Doc |-> NoVector] /\ width' = 0
        /\ undone' = FALSE
        /\ UNCHANGED <<redb, keyword, oldSchema, marker, cut>>
     \/ /\ Wiping("redb")
        /\ meta' = Blank /\ docHash' = Blank /\ lexHash' = Blank
        /\ generation' = 0 /\ instance' = 0
        /\ UNCHANGED <<keyword, oldSchema, marker, vec, width, undone, cut>>
     \/ /\ Wiping("marker")
        /\ marker' = FALSE /\ cut' = {}
        /\ UNCHANGED <<redb, keyword, oldSchema, vec, width, undone>>
  /\ engine' = IF Len(engine.steps) = 1 THEN Closed ELSE [engine EXCEPT !.steps = Tail(@)]
  /\ UNCHANGED <<file, edits, minted, embedModel, memo, remade, upsets>>

-----------------------------------------------------------------------------
(* The query of the MCP server that owns the engine *)

\* What a query sees.
Answer == <<meta, lex, vec>>

\* query_memo_key: the generation and the id of the index.
Hit == memo.generation = generation /\ memo.instance = instance

Query ==
  /\ engine.at = "ready" /\ generation > 0 /\ ~Hit
  /\ memo' = [generation |-> generation, instance |-> instance, answer |-> Answer]
  /\ UNCHANGED <<file, edits, stores, minted, embedModel, undone, engine, remade, cut, upsets>>

-----------------------------------------------------------------------------
IndexNext ==
  \/ \E d \in Doc : Edit(d) \/ Skip(d) \/ Take(d) \/ Reembed(d)
  \/ Upgrade \/ Open \/ Mark \/ WipeOld \/ Refill \/ Unmark \/ FixLex \/ Close \/ Kill
  \/ \E mode \in {"full", "lex"} : Begin(mode, TRUE, Doc)
  \/ Begin("full", FALSE, Pending) \/ \E d \in Doc : Begin("full", FALSE, {d})
  \/ Unlex \/ Forget \/ Embed \/ Record \/ Publish \/ Hash \/ End
  \/ UnlexFails \/ EmbedFails \/ Strand \/ PublishFails \/ StepFails
  \/ \E m \in Model : Rebuild(m)
  \/ Remake \/ ReembedFails \/ Persist \/ ForceReindex \/ Wipe \/ Query

IndexSpec == IndexInit /\ [][IndexNext]_indexVars

-----------------------------------------------------------------------------
(* Properties *)

\* Whatever is killed or fails, and wherever: a document has two entries in the
\* keyword index, or one that engine.redb does not know, only if indexing it
\* failed between the writer's add and the commit of engine.redb, in a process
\* that went on: neither a kill nor any other failure leaves what no reindex
\* could take out again and every keyword search would show.  The order of the
\* commits in remove_doc and index_doc, the remove_doc of a document that looks
\* new and the `clear` before a rebuild are there for it.
NoGhostHits == \A d \in Doc \ stray : Len(lex[d]) <= (IF meta[d] = 0 THEN 0 ELSE 1)

\* A reindex passes over a document whose hash is current.  The last entry the
\* keyword index got for it is then the file's text, and its vector, when the
\* last pass over it was a full one, is the text's by the model in use: through
\* keyword and full passes in any order, edits that are undone, updates of the
\* program that are killed, writes that fail and changes of the model, but for
\* a document whose last pass was cut short, and for the vectors when a change
\* of the model was.
SkippedIsIndexed ==
  engine.at = "ready" =>
    \A d \in Doc \ cut : file[d] # 0 =>
      /\ EffectiveLexHash(d) = file[d] => lex[d] # <<>> /\ lex[d][Len(lex[d])] = file[d]
      /\ docHash[d] = file[d] /\ lexHash[d] = 0 /\ ~undone =>
           vec[d] = [text |-> file[d], model |-> embedModel]

\* A memoized answer that would be served is the answer the index would give,
\* whatever reindexes, kills and whole forced wipes lie between, unless a store
\* has been rebuilt since: that does not move the generation.
MemoFresh == engine.at = "ready" /\ Hit /\ ~remade => memo.answer = Answer

\* memo.rs: the key holds every knob that changes the answer without a reindex;
\* engine.rs: a stale hit is "the one outcome the memo layer must make
\* impossible".  Violated: a change of the embedding model is not one.
NeverStale == engine.at = "ready" /\ Hit => memo.answer = Answer

=============================================================================
