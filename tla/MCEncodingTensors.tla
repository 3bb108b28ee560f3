-------------------------- MODULE MCEncodingTensors --------------------------
(* A batch of two graphs with a STACK and a RAGGED_CAT field, two views    *)
(* of it and two devices; one call assigns one field or both.                 *)
EXTENDS EncodingTensors, TLC

MCMode == [f \in {"goal_distance", "target_indices"} |->
             IF f = "goal_distance" THEN "STACK" ELSE "RAGGED_CAT"]

MCInitRows == [f \in Fields |-> IF f = "goal_distance" THEN <<1, 1>> ELSE <<1>>]
MCInitPtr == [f \in Fields |-> IF f = "goal_distance" THEN <<>> ELSE <<0, 0, 1>>]

Distances == {[field |-> "goal_distance", rows |-> rows, ptr |-> <<>>] : rows \in {<<1, 1>>, <<1>>}}
Targets == [field : {"target_indices"}, rows : {<<1>>, <<1, 1>>, Uncoercible}, ptr : {<<0, 1, 2>>}]
NoPtr == [field |-> "target_indices", rows |-> <<1>>, ptr |-> Uncoercible]

\* An assignment that raises ends the call, so only a good one comes first.
MCAssignments ==
  {<<a>> : a \in Distances \cup Targets \cup {NoPtr}} \cup
  {<<[field |-> "goal_distance", rows |-> <<1, 1>>, ptr |-> <<>>], b>> : b \in Targets}

MCGoodAssignments == {s \in MCAssignments : \A i \in DOMAIN s :
                        s[i].rows = <<1, 1>> /\ s[i].ptr # Uncoercible}

Symmetric == Permutations(Views)
=============================================================================
