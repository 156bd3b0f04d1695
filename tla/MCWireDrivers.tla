---------------------------- MODULE MCWireDrivers ---------------------------
(* Model checking of WireDrivers: a guest on one Postgres connection.      *)
EXTENDS WireDrivers

MCTasks == [postgres |-> {"guest"}, mysql |-> {"guest"}, redis |-> {"guest"}]
=============================================================================
