------------------------------ MODULE MCExports ------------------------------
(* Constants of the runs of Exports. *)
EXTENDS Exports

CONSTANTS r1, r2, car, bus, out
=============================================================================
