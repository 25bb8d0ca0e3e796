---------------------------- MODULE MCDictLookup ----------------------------
(* Two words tell a definition from the one before.                        *)
EXTENDS DictLookup, TLC
=============================================================================
