----------------------------- MODULE MCGovernance -----------------------------
(* Constants of the runs of Governance. *)
EXTENDS Governance

CONSTANTS v1, v2, v3, det, seg, tick, train, p1, p2, cord

\* One task; v2 and v3 each beat v1, and v3 beats v2.
HomeOne == [m \in Model |-> det]
NamesOne == [m \in Model |-> {det}]
ScoreRising == [m \in Model |-> IF m = v1 THEN 1 ELSE IF m = v2 THEN 2 ELSE 3]

\* Two tasks, and requests that may name either for any model.
HomeTwo == [m \in Model |-> IF m = v3 THEN seg ELSE det]
NamesAny == [m \in Model |-> {det, seg}]
=============================================================================
