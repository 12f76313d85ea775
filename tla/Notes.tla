-------------------------------- MODULE Notes --------------------------------
(***************************************************************************)
(* The operations that write notes of a vault: the editor's saves over     *)
(* HTTP (server/api.rs), and append, edit, move, archive and delete of the *)
(* note commands (onebrain-fs/src/note), which the daemon and the gateway  *)
(* call too.  A note is replaced as a whole, by a rename.  Nothing locks   *)
(* the vault; the code says that it counts on one writer at a time, and    *)
(* so does this module.  A move rewrites the links of other notes one      *)
(* after the other, and undoes what it did when one of them fails.         *)
(*                                                                         *)
(* A text is the pieces that were written into it and the names it links   *)
(* to.  The vault lies on one device.                                      *)
(***************************************************************************)
EXTENDS Integers

CONSTANTS Dir, Name,   \* a note is <dir>/<name>.md
          Tab,         \* editors
          SecondOf,    \* the second that each tick of the clock falls into
          \* Bounds of the exploration.
          Ages,        \* the vaults to begin with: when each note was last written
          Trashed,     \* and what their trash may have: notes of which paths
          MaxPiece, MaxTick, MaxOps

ASSUME SomePath == Dir # {} /\ Name # {}
ASSUME BoundsNat == MaxPiece \in Nat /\ MaxTick \in Nat /\ MaxOps \in Nat
ASSUME SecondsType == SecondOf \in [0..MaxTick -> 1..MaxTick]
ASSUME TrashedType == \A paths \in Trashed : paths \subseteq Dir \X Name
ASSUME AgesType ==
  \A age \in Ages : DOMAIN age \subseteq Dir \X Name /\ age \in [DOMAIN age -> 0..MaxTick]

VARIABLES
  note,      \* the note at each path
  archived,  \* what is in the month's archive bucket, by name
  trash,     \* what is in <vault>/.trash, by path and suffix; 0 when there is none
  tick,      \* what the file system's clock reads
  tab,       \* what each editor has loaded; rev -1 before it has
  move,      \* the move in progress, or how the last one ended
  written,   \* pieces so far
  ops,       \* operations so far
  kept,      \* history: the pieces that nobody who had seen them has replaced
  misled,    \* history: the editors whose rev a write left standing, see Misled
  forfeit    \* history: the pieces that a misled editor saved over, or that were
             \* in a trashed note when another one took its name

noteVars == <<note, archived, trash, tick, tab, move, written, ops, kept, misled, forfeit>>

Path == Dir \X Name
Base(p) == p[2]

\* A piece is named by where it was first written, and when; 0 stands for the
\* time before, and -1 for that of what is in the trash to begin with.
Piece == Path \X (-1..MaxPiece)
NoNote == [pieces |-> {}, links |-> {}, rev |-> 0]
Exists(p) == note[p].pieces # {}
Text(n) == [n EXCEPT !.rev = 0]

\* A tick is longer than all the nanoseconds that saves can add to one rev.
TickSpan == MaxPiece + 1

Note == [pieces : SUBSET Piece, links : SUBSET Name, rev : Nat]

NoMove == [at |-> "none"]
Outcome == {"none", "ok", "failed", "incomplete"}
Move == [at : {"rewriting", "undoing", "ok", "failed", "incomplete"},
         from : Path, to : Path, update : BOOLEAN, skipped : SUBSET Path, todo : SUBSET Path,
         done : SUBSET Path, unrestored : SUBSET Path, before : [Path -> Note]]

NotesTypeOK ==
  /\ note \in [Path -> Note] /\ archived \in [Name -> SUBSET Piece]
  /\ trash \in [Path \X (0..MaxTick) -> SUBSET Piece]
  /\ tick \in 0..MaxTick
  /\ tab \in [Tab -> [path : Path, rev : Nat \union {-1}, pieces : SUBSET Piece]]
  /\ move \in {NoMove} \union Move
  /\ written \in 0..MaxPiece /\ ops \in 0..MaxOps /\ kept \subseteq Piece
  /\ misled \subseteq Tab /\ forfeit \subseteq Piece

\* A text of one piece links to at most one note.
OneLink == {{}} \union {{n} : n \in Name}

NotesInit ==
  /\ \E age \in Ages : \E links \in [DOMAIN age -> OneLink] :
       /\ note = [p \in Path |->
            IF p \in DOMAIN age
            THEN [pieces |-> {<<p, 0>>}, links |-> links[p], rev |-> TickSpan * age[p]]
            ELSE NoNote]
       /\ \E paths \in Trashed :
            /\ trash = [k \in Path \X (0..MaxTick) |->
                          IF k \in paths \X {0} THEN {<<k[1], -1>>} ELSE {}]
            /\ kept = ((DOMAIN age) \X {0}) \union (paths \X {-1})
       /\ tick \in 0..MaxTick /\ \A p \in DOMAIN age : age[p] <= tick
  /\ archived = [n \in Name |-> {}]
  /\ tab = [t \in Tab |-> [path |-> CHOOSE p \in Path : TRUE, rev |-> -1, pieces |-> {}]]
  /\ move = NoMove
  /\ written = 0 /\ ops = 0 /\ misled = {} /\ forfeit = {}

\* One operation at a time; the outcome of a move is looked at until the next.
Resting == move.at \in Outcome
Enters == Resting /\ ops < MaxOps /\ ops' = ops + 1
Begins == Enters /\ move' = NoMove

\* The clock that a write reads: several may fall into one tick.
Ticks == tick' \in {tick, tick + 1} /\ tick' <= MaxTick

\* The note at p gets that rev.  An editor with an older one will see that it
\* is not what it loaded.  One with that rev or a later one may not, now or
\* later, and is misled if nothing made the rev advance.
Misled(p, rev, advances) ==
  {t \in Tab : IF tab[t].path = p
               THEN tab[t].rev >= rev /\ (t \in misled \/ ~advances)
               ELSE t \in misled}

-----------------------------------------------------------------------------
(* The editor *)

\* GET: the text and its rev.
Load(t, p) ==
  /\ Exists(p) /\ Begins
  /\ tab' = [tab EXCEPT ![t] = [path |-> p, rev |-> note[p].rev, pieces |-> note[p].pieces]]
  /\ misled' = misled \ {t}
  /\ UNCHANGED <<note, archived, trash, tick, written, kept, forfeit>>

\* A new text, of one piece and no link.
Writes(p, rev, seen) ==
  /\ written < MaxPiece /\ written' = written + 1
  /\ note' = [note EXCEPT ![p] = [pieces |-> {<<p, written'>>}, links |-> {}, rev |-> rev]]
  /\ kept' = (kept \ seen) \union {<<p, written'>>}

\* POST, and `note new`: refused when there is a note.
Create(p) ==
  /\ ~Exists(p) /\ Begins /\ Ticks
  /\ Writes(p, TickSpan * tick', {})
  /\ misled' = Misled(p, TickSpan * tick', FALSE)
  /\ UNCHANGED <<archived, trash, tab, forfeit>>

\* Mutant: the rev is whatever the clock says.
AsStamped(rev, stamp) == stamp

\* ensure_rev_advanced.
Advanced(rev, stamp) == IF stamp > rev THEN stamp ELSE rev + 1

\* What a PUT leaves for a rev.  When advancing it fails, that is only logged,
\* and the clock's stamp stands.
Stamped(p, advances) ==
  IF advances THEN Advanced(note[p].rev, TickSpan * tick') ELSE TickSpan * tick'

\* PUT with the rev of the text the editor loaded.
SaveLoaded(t) ==
  LET p == tab[t].path IN
  /\ Exists(p) /\ note[p].rev = tab[t].rev
  /\ Begins /\ Ticks
  /\ \E advances \in BOOLEAN :
       /\ Writes(p, Stamped(p, advances), tab[t].pieces)
       /\ misled' = Misled(p, Stamped(p, advances), advances) \ {t}
  /\ tab' = [tab EXCEPT ![t] = [path |-> p, rev |-> note'[p].rev, pieces |-> note'[p].pieces]]
  /\ forfeit' = IF t \in misled THEN forfeit \union (note[p].pieces \ tab[t].pieces) ELSE forfeit
  /\ UNCHANGED <<archived, trash>>

\* PUT with `If-Match: *`, and `note edit` and `note new --force`, which do not
\* advance the rev: whatever is there.
Overwrite(p) ==
  /\ Exists(p) /\ Begins /\ Ticks
  /\ \E advances \in BOOLEAN :
       /\ Writes(p, Stamped(p, advances), note[p].pieces)
       /\ misled' = Misled(p, Stamped(p, advances), advances)
  /\ UNCHANGED <<archived, trash, tab, forfeit>>

\* append_note.
Add(p) ==
  /\ Exists(p) /\ Begins /\ Ticks
  /\ written < MaxPiece /\ written' = written + 1
  /\ note' = [note EXCEPT ![p] = [@ EXCEPT !.pieces = note[p].pieces \union {<<p, written'>>},
                                           !.rev = TickSpan * tick']]
  /\ kept' = kept \union {<<p, written'>>}
  /\ misled' = Misled(p, TickSpan * tick', FALSE)
  /\ UNCHANGED <<archived, trash, tab, forfeit>>

-----------------------------------------------------------------------------
(* Archive and delete *)

\* archive_note: refused when the bucket has a note of that name.
Archive(p) ==
  /\ Exists(p) /\ archived[Base(p)] = {} /\ Begins
  /\ archived' = [archived EXCEPT ![Base(p)] = note[p].pieces]
  /\ note' = [note EXCEPT ![p] = NoNote]
  /\ UNCHANGED <<trash, tick, tab, written, kept, misled, forfeit>>

\* trash_dest: the second is appended to a name that is taken.  Nothing looks
\* whether the name with the second is taken too.
Suffix(p) == IF trash[<<p, 0>>] # {} THEN SecondOf[tick'] ELSE 0

\* delete_note
Delete(p) ==
  /\ Exists(p) /\ Begins /\ Ticks
  /\ trash' = [trash EXCEPT ![<<p, Suffix(p)>>] = note[p].pieces]
  /\ forfeit' = forfeit \union trash[<<p, Suffix(p)>>]
  /\ note' = [note EXCEPT ![p] = NoNote]
  /\ UNCHANGED <<archived, tab, written, kept, misled>>

-----------------------------------------------------------------------------
(* Move *)

\* Whether the links of other notes are looked at, and to what end.
Renames(from, to, update) == update /\ Base(from) # Base(to)

\* build_edit_plan reads every note but the one moved, and reports those that
\* cannot be read; the others are planned if they link to the old name.
Read(from, to, update) ==
  IF Renames(from, to, update) THEN {p \in Path \ {from} : Exists(p)} ELSE {}

Planned(from, to, update, skipped) ==
  {p \in Read(from, to, update) \ skipped : Base(from) \in note[p].links}

\* move_note: the plan, then the rename, which keeps the rev; an error up to
\* here leaves nothing behind.
BeginMove(from, to, update) ==
  /\ Exists(from) /\ ~Exists(to) /\ Enters
  /\ \E skipped \in SUBSET Read(from, to, update) :
       move' = [at |-> "rewriting", from |-> from, to |-> to, update |-> update, skipped |-> skipped,
                todo |-> Planned(from, to, update, skipped), done |-> {}, unrestored |-> {},
                before |-> [p \in Path |-> Text(note[p])]]
  /\ note' = [note EXCEPT ![to] = note[from], ![from] = NoNote]
  /\ misled' = Misled(to, note[from].rev, FALSE)
  /\ UNCHANGED <<archived, trash, tick, tab, written, kept, forfeit>>

\* rewrite_links
Relinked(links) == (links \ {Base(move.from)}) \union {Base(move.to)}

Rewrite(p) ==
  /\ move.at = "rewriting" /\ p \in move.todo
  /\ Ticks
  /\ note' = [note EXCEPT ![p] = [@ EXCEPT !.links = Relinked(note[p].links), !.rev = TickSpan * tick']]
  /\ misled' = Misled(p, TickSpan * tick', FALSE)
  /\ move' = [move EXCEPT !.todo = @ \ {p}, !.done = @ \union {p}]
  /\ UNCHANGED <<archived, trash, tab, written, ops, kept, forfeit>>

EndMove ==
  /\ move.at = "rewriting" /\ move.todo = {}
  /\ move' = [move EXCEPT !.at = "ok"]
  /\ UNCHANGED <<note, archived, trash, tick, tab, written, ops, kept, misled, forfeit>>

\* Mutant: only the note itself goes back.
NothingRewritten == {}

\* attempt_rollback restores every note that was rewritten.
ToRestore == move.done

RewriteFails ==
  /\ move.at = "rewriting" /\ move.todo # {}
  /\ move' = [move EXCEPT !.at = "undoing", !.todo = ToRestore]
  /\ UNCHANGED <<note, archived, trash, tick, tab, written, ops, kept, misled, forfeit>>

\* Every step of the rollback is tried; the ones that fail are named.
Restore(p) ==
  /\ move.at = "undoing" /\ p \in move.todo
  /\ \/ /\ Ticks
        /\ note' = [note EXCEPT ![p] = [@ EXCEPT !.links = move.before[p].links, !.rev = TickSpan * tick']]
        /\ misled' = Misled(p, TickSpan * tick', FALSE)
        /\ move' = [move EXCEPT !.todo = @ \ {p}]
     \/ /\ move' = [move EXCEPT !.todo = @ \ {p}, !.unrestored = @ \union {p}]
        /\ UNCHANGED <<note, tick, misled>>
  /\ UNCHANGED <<archived, trash, tab, written, ops, kept, forfeit>>

MoveBack ==
  /\ move.at = "undoing" /\ move.todo = {}
  /\ \/ /\ note' = [note EXCEPT ![move.from] = note[move.to], ![move.to] = NoNote]
        /\ misled' = Misled(move.from, note[move.to].rev, FALSE)
        /\ move' = [move EXCEPT !.at = IF move.unrestored = {} THEN "failed" ELSE "incomplete"]
     \/ /\ move' = [move EXCEPT !.at = "incomplete", !.unrestored = @ \union {move.to}]
        /\ UNCHANGED <<note, misled>>
  /\ UNCHANGED <<archived, trash, tick, tab, written, ops, kept, forfeit>>

\* The process is killed: nothing is undone, then or later.
KilledMoving ==
  /\ ~Resting
  /\ move' = NoMove
  /\ UNCHANGED <<note, archived, trash, tick, tab, written, ops, kept, misled, forfeit>>

-----------------------------------------------------------------------------
NotesNext ==
  \/ \E t \in Tab : SaveLoaded(t) \/ \E p \in Path : Load(t, p)
  \/ \E p \in Path : \/ Create(p) \/ Overwrite(p) \/ Add(p) \/ Archive(p) \/ Delete(p)
                     \/ Rewrite(p) \/ Restore(p)
                     \/ \E q \in Path, update \in BOOLEAN : BeginMove(p, q, update)
  \/ EndMove \/ RewriteFails \/ MoveBack \/ KilledMoving

NotesSpec == NotesInit /\ [][NotesNext]_noteVars

-----------------------------------------------------------------------------
(* Properties *)

\* What was written into the vault is there until somebody who had seen it
\* writes something else over it, through every save, create, append, archive,
\* delete and move, however the move ends or is killed.  Lost beyond that are
\* only pieces that a save replaced unseen because a write without an advance
\* had left the note with a rev its editor held, and those in a trashed note
\* whose name a third delete of its path took in the same second.
NothingLost ==
  \A i \in kept \ forfeit :
    \/ \E p \in Path : i \in note[p].pieces
    \/ \E n \in Name : i \in archived[n]
    \/ \E k \in DOMAIN trash : i \in trash[k]

\* "so no trashed note is ever clobbered"
TrashKeeps == [][\A k \in DOMAIN trash : trash[k] # {} => trash'[k] = trash[k]]_noteVars

Moved(p) ==
  IF Renames(move.from, move.to, move.update) /\ p \notin move.skipped /\ Base(move.from) \in move.before[p].links
  THEN [move.before[p] EXCEPT !.links = Relinked(@)]
  ELSE move.before[p]

\* The outcome that a move reports is what has become of the vault.  Done: the
\* note is at its new path, and every other note that linked to its old name
\* links to the new one, but for those it reports as skipped, which are as they
\* were.  Failed: all is as it was before.  Rolled back in part: but for the
\* notes that the error names.
MoveTellsTheTruth ==
  /\ move.at = "ok" =>
       \A p \in Path : Text(note[p]) =
         CASE p = move.from -> NoNote [] p = move.to -> move.before[move.from] [] OTHER -> Moved(p)
  /\ move.at = "failed" => \A p \in Path : Text(note[p]) = move.before[p]
  /\ move.at = "incomplete" =>
       \A p \in Path \ move.unrestored :
         \/ Text(note[p]) = move.before[p]
         \/ p = move.from /\ move.to \in move.unrestored
=============================================================================
