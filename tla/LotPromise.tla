------------------------------ MODULE LotPromise ------------------------------
(***************************************************************************)
(* What settlement promises, without sessions, runs or switches: a lot is  *)
(* planned, decided once, and closes labels only between passing and being *)
(* settled; a label is closed by one lot at a time, and by another only    *)
(* after it came back to review; and it stays a person's once a person has *)
(* ruled on it.  Module Settlement implements this.                        *)
(***************************************************************************)
CONSTANTS Lot, Object, Nobody, Someone   \* Nobody, Someone: owners that are not lots

VARIABLES
  status,   \* [Lot -> where the lot is in its life]
  owner     \* [Object -> the lot that closed the label, Someone who ruled, or Nobody]

vars == <<status, owner>>

Init ==
  /\ status = [l \in Lot |-> "none"]
  /\ owner = [o \in Object |-> Nobody]

\* sampling -> judging -> accepted | rejected | parked; accepted -> settled -> reverted
Moves == {<<"none", "judging">>, <<"judging", "accepted">>, <<"judging", "rejected">>,
          <<"judging", "parked">>, <<"accepted", "settled">>, <<"settled", "reverted">>}

Move(l, new) ==
  /\ <<status[l], new>> \in Moves
  /\ status' = [status EXCEPT ![l] = new]
  /\ UNCHANGED owner

Close(l, S) ==
  /\ status[l] = "accepted"
  /\ \A o \in S : owner[o] = Nobody
  /\ owner' = [o \in Object |-> IF o \in S THEN l ELSE owner[o]]
  /\ UNCHANGED status

\* The lot is undone, or a person takes one of its runs back by name.
Reopen(l, S) ==
  /\ status[l] \in {"accepted", "settled", "reverted"}
  /\ \A o \in S : owner[o] = l
  /\ owner' = [o \in Object |-> IF o \in S THEN Nobody ELSE owner[o]]
  /\ UNCHANGED status

Rule(S) ==
  /\ owner' = [o \in Object |-> IF o \in S THEN Someone ELSE owner[o]]
  /\ UNCHANGED status

Next ==
  \/ \E l \in Lot, new \in {"judging", "accepted", "rejected", "parked", "settled", "reverted"} :
       Move(l, new)
  \/ \E l \in Lot, S \in SUBSET Object : Close(l, S) \/ Reopen(l, S)
  \/ \E S \in SUBSET Object : Rule(S)

Spec == Init /\ [][Next]_vars
===============================================================================
