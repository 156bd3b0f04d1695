-------------------------- MODULE MCConfigPipeline --------------------------
(* Model checking of ConfigPipeline: both processes may restart.           *)
EXTENDS ConfigPipeline
=============================================================================
