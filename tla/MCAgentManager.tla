----------------------------- MODULE MCAgentManager -----------------------------
(* Two Agents of one Session: enough for a second child to end, or to be       *)
(* launched, while the notification of the first is delivered or the Session   *)
(* is stopped.                                                                 *)
EXTENDS AgentManager, TLC
CONSTANTS a1, a2
TwoAgents == {a1, a2}
AgentSymmetry == Permutations(TwoAgents)
===============================================================================
