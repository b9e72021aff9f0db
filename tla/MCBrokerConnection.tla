------------------------- MODULE MCBrokerConnection -------------------------
(* Each of the four kinds of process, three connections at a time and three *)
(* faults: enough for the second connection of a broken one to break too,   *)
(* and for the state manager to run out of attempts and be restarted.       *)
EXTENDS BrokerConnection

=============================================================================
