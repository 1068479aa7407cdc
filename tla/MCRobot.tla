------------------------------ MODULE MCRobot ------------------------------
(* One robot on a lane of three cells, a - b - c, with a charger at c.         *)
EXTENDS RobotMissions

MCAdjacent == {<<p, p>> : p \in {"a", "b", "c"}}
                \cup {<<"a", "b">>, <<"b", "a">>, <<"b", "c">>, <<"c", "b">>}

To(pos, label) == [pos |-> pos, label |-> label]
Trip(priority, waypoints) == [priority |-> priority, waypoints |-> waypoints]

MCDelivery == {Trip(1, <<To("b", "PICKUP"), To("a", "DELIVERY")>>)}
MCErrand == {Trip(2, <<To("b", "PICKUP")>>)}
(* Urgent, with a charge in the middle. *)
MCVisit == {Trip(2, <<To("b", "CHARGE"), To("a", "DELIVERY")>>)}
MCMixed == MCDelivery \cup MCVisit

=============================================================================
