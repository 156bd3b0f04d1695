--------------------------- MODULE MCConfigStore ---------------------------
(* Model checking of ConfigStore: two writers and one stream, or less.      *)
EXTENDS ConfigStore
=============================================================================
