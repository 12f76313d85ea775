----------------------------- MODULE MCDaemonSlot -----------------------------
\* Two starts, the second of which may be a stop, and a client.
EXTENDS DaemonSlot

CONSTANTS s1, s2, q1, d0, d1

MCVerbs == [c \in Command |->
              CASE c = s1 -> {"start"} [] c = s2 -> {"start", "stop"} [] c = q1 -> {"discover"}]

\* Nothing reads what a command had for its target once it is past the last use
\* of it, nor what a daemon counted once it has left its polls: states that
\* differ in these alone have the same future.
PastTarget == {"drop", "clear1", "clear2", "clear3", "done", "failed", "killed"}

SlotView ==
  <<lock, pid, json, pc, daemon, robbed,
    [c \in Command |-> IF pc[c] \in PastTarget THEN Absent ELSE target[c]],
    [d \in Daemon |-> IF daemon[d] = "serving" THEN missed[d] ELSE 0]>>
=============================================================================
