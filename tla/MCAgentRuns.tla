----------------------------- MODULE MCAgentRuns -----------------------------
(* Constants of the runs of AgentRuns. *)
EXTENDS AgentRuns

CONSTANTS w1, w2
=============================================================================
