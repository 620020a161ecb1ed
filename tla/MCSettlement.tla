----------------------------- MODULE MCSettlement -----------------------------
(* Constants of the runs of Settlement. *)
EXTENDS Settlement, TLC

CONSTANTS l1, l2, l3, smp, smq, a, b, e1, e2, daemon, manual, night, desk, worker, request

OneEpoch == [o \in Object |-> e1]
\* a sample and one drive; a sample and two drives; b a label of the later epoch
OneDrive == [o \in Object |-> 1]
TwoDrives == [o \in Object |-> IF o = b THEN 2 ELSE 1]
LaterEpoch == [o \in Object |-> IF o = b THEN e2 ELSE e1]

InOrder == [o \in Object |-> IF o = smp THEN 1 ELSE IF o = a THEN 2 ELSE 3]
PairFirst == [o \in Object |-> IF o \in {smp, smq} THEN 1 ELSE 2]

OneGrid == {{smp}, {a}}
SampleGrid == {{smp}}
SpotGrid == {{a}}
Pin == {[level |-> 1, pinned |-> TRUE]}
PinOrRaise == {[level |-> 1, pinned |-> TRUE], [level |-> 2, pinned |-> FALSE]}
Raise == {[level |-> 2, pinned |-> FALSE]}

AnyLot == Permutations(Lot)
=============================================================================
