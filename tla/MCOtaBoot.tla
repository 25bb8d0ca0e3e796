------------------------------ MODULE MCOtaBoot ------------------------------
(* Every constant is a bound: the two slots and partitions are the device's. *)
EXTENDS OtaBoot
=============================================================================
