----------------------------- MODULE MCCampaign -----------------------------
(* Constants of the runs of Campaign. *)
EXTENDS Campaign

CONSTANTS d1, d2
=============================================================================
