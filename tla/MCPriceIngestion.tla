-------------------------- MODULE MCPriceIngestion --------------------------
(* Constants for model checking PriceIngestion: no bar at time 2.          *)
EXTENDS PriceIngestion

Open == {0, 4, 6}
=============================================================================
