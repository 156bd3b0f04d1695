------------------------------ MODULE MCIngest ------------------------------
(* Model checking of Ingest: a record is its export and its place in it.   *)
EXTENDS Ingest

MCItems == Exports \X (1..Size)
=============================================================================
