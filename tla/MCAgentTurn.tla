----------------------------- MODULE MCAgentTurn -----------------------------
(***************************************************************************)
(* Two guarded calls with one target, for TLC to tell apart no more than   *)
(* it has to: one command run with two sets of other arguments.           *)
(***************************************************************************)
EXTENDS AgentTurn

CONSTANTS run, rerun

OneCommand == [c \in {run, rerun} |-> "command"]

Alike == Permutations({run, rerun})
==============================================================================
