------------------------------ MODULE MCWithin ------------------------------
(* States in the middle of an expression and at its end.                   *)
EXTENDS Within

MCTag == {{Inner}, {Final}}
=============================================================================
