------------------------- MODULE MCHeartbeatSystem -------------------------
(* Linux polls and its clock stands still during sleep; elsewhere there are
   power notifications, and the clock stands still or goes on. *)
EXTENDS HeartbeatSystem

MCPlatforms == {[polls |-> TRUE, counts |-> FALSE],
                [polls |-> FALSE, counts |-> FALSE],
                [polls |-> FALSE, counts |-> TRUE]}

==============================================================================
