--------------------------- MODULE MCEpubSection ---------------------------
(* TLC instance of EpubSection.                                            *)
EXTENDS EpubSection, TLC
=============================================================================
