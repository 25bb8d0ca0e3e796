--------------------------- MODULE MCNearbyTransfer ---------------------------
(***************************************************************************)
(* Two paths in the folder of the receiver: the one the sender's file has, *)
(* and the one "Keep both" numbers.                                        *)
(***************************************************************************)
EXTENDS NearbyTransfer

CONSTANTS book, copy
=============================================================================
