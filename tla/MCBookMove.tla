----------------------------- MODULE MCBookMove -----------------------------
(* An EPUB and a TXT book on a card; the note is made in the EPUB, which can *)
(* have bookmarks and clippings.                                             *)
EXTENDS BookMove, TLC

CONSTANTS epub, txt, n1

MCOwner == [n \in Notes |-> epub]

\* Nothing tells one path from another before the first move.
PathSymmetry == Permutations(Paths)
=============================================================================
