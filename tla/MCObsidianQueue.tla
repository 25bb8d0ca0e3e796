-------------------------- MODULE MCObsidianQueue --------------------------
(* Three clippings, as model values; no symmetry, since QueueDrains is a    *)
(* liveness property.                                                      *)
EXTENDS ObsidianQueue
=============================================================================
