-------------------------------- MODULE MCNotes --------------------------------
\* A vault of three notes, the third in another directory under the name of the
\* first, and with an older note of the first's path in the trash.
EXTENDS Notes, TLC

CONSTANTS dirA, dirB, nameX, nameY

MCAges == {(<<dirA, nameX>> :> 1) @@ (<<dirA, nameY>> :> 1) @@ (<<dirB, nameX>> :> 1)}
MCTrashed == {{<<dirA, nameX>>}}

\* Two ticks to a second.
MCSecondOf == [n \in 0..MaxTick |-> 1 + n \div 2]

MCNotesInit ==
  /\ NotesInit /\ tick = 1
  \* Two notes link to the third, one of them under a name that is its own too.
  /\ \A p \in Path : note[p].links = IF p[1] = dirA THEN {nameX} ELSE {}

MCNotesSpec == MCNotesInit /\ [][NotesNext]_noteVars
=============================================================================
