--------------------------- MODULE MCConfigPusher --------------------------
(* Model checking of ConfigPusher with callers of PushNow; the pusher as   *)
(* main.go runs it is checked in ConfigPipeline.                           *)
EXTENDS ConfigPusher
=============================================================================
