------------------------------- MODULE MCPresses -------------------------------
(***************************************************************************)
(* A gated call that is cut short, and the poller that hears the answers   *)
(* pressed for calls that are not.  The machines share nothing and are     *)
(* checked together as a disjoint sum: which of the two runs is chosen to  *)
(* begin with, and the other stays where it is.                            *)
(***************************************************************************)
EXTENDS MCGate, TelegramPoll

VARIABLE part   \* the machine that runs

pressesVars == <<allVars, pollVars, part>>

PressesInit == GateInit /\ PollInit /\ part \in {"gate", "poll"}

PressesNext ==
  /\ UNCHANGED part
  /\ \/ part = "gate" /\ GateNext /\ UNCHANGED pollVars
     \/ part = "poll" /\ PollNext /\ UNCHANGED allVars

\* The fairness of GateSpec, for when the gate runs, and of PollSpec.
PressesFairness ==
  /\ \A c \in Call :
       /\ WF_allVars(part = "gate" /\ Handle(c)) /\ WF_allVars(part = "gate" /\ Around(c))
       /\ \A via \in {"disconnect", "revoked"} : WF_allVars(part = "gate" /\ Cut(c, via))
  /\ PollFairness

PressesSpec == PressesInit /\ [][PressesNext]_pressesVars /\ PressesFairness
=============================================================================
