------------------------------ MODULE MCFleet ------------------------------
(* Fleet: two robots on two neighbouring cells, which they may swap, and   *)
(* at the ends of a lane of three.                                         *)
EXTENDS Fleet

MCPair == {"a", "b"} \X {"a", "b"}
MCPairStart == [r \in {"r0", "r1"} |-> IF r = "r0" THEN "a" ELSE "b"]

MCLane == {<<p, p>> : p \in {"a", "b", "c"}}
            \cup {<<"a", "b">>, <<"b", "a">>, <<"b", "c">>, <<"c", "b">>}
MCLaneStart == [r \in {"r0", "r1"} |-> IF r = "r0" THEN "a" ELSE "c"]

=============================================================================
