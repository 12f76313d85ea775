------------------------------- MODULE MCClocks -------------------------------
(***************************************************************************)
(* What hangs on the reading of a clock: the revs of notes and the names   *)
(* in their trash, the limiters of the OAuth surface, and the messages and *)
(* tombstones of the prompts sent to a phone.  Their machines share        *)
(* nothing and are checked together as a disjoint sum: which of them runs  *)
(* is chosen to begin with, and the others stay where they are.            *)
(***************************************************************************)
EXTENDS MCNotes, PairingGate, TelegramPrompt

VARIABLE part   \* the machine that runs

clocksVars == <<noteVars, limitsVars, promptVars, part>>

ClocksInit ==
  MCNotesInit /\ LimitsInit /\ PromptInit /\ part \in {"notes", "limiters", "prompts"}

ClocksNext ==
  /\ UNCHANGED part
  /\ \/ part = "notes" /\ NotesNext /\ UNCHANGED <<limitsVars, promptVars>>
     \/ part = "limiters" /\ LimitsNext /\ UNCHANGED <<noteVars, promptVars>>
     \/ part = "prompts" /\ PromptNext /\ UNCHANGED <<noteVars, limitsVars>>

ClocksSpec == ClocksInit /\ [][ClocksNext]_clocksVars

Symmetry == Permutations(Tab) \union Permutations(PromptedCall) \union Permutations(Request)
=============================================================================
