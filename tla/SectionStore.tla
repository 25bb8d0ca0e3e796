---------------------------- MODULE SectionStore ----------------------------
(***************************************************************************)
(* What the cache of a chapter promises, whoever builds it: a file under   *)
(* one layout that is only ever replaced as a whole, by one that covers at *)
(* least as many pages, and that losing power does not take away.          *)
(***************************************************************************)
EXTENDS Naturals

CONSTANTS Caches, NoFile   \* records [spec, pages, whole], and no file

VARIABLES
  stored,  \* the cache a reader would find
  spare,   \* an older one that a failure left beside it
  up,      \* the device is on
  blind    \* the card refused to show the cache to whoever builds now

vars == <<stored, spare, up, blind>>

\* c serves every page that d serves.
Covers(c, d) == d.spec = c.spec => c.pages >= d.pages /\ (d.whole => c.whole)

Init == stored = NoFile /\ spare = NoFile /\ up = FALSE /\ blind = FALSE

\* A complete file takes the place of the one before it.
Commit ==
  /\ up /\ stored' \in Caches
  /\ stored = NoFile \/ blind \/ Covers(stored', stored)
  /\ spare' \in {NoFile, spare, stored}

\* The cache is of another layout, or its source or its file is no good.
Discard == up /\ up' /\ stored' \in {NoFile, spare} /\ spare' = NoFile

Keep == stored' = stored /\ spare' \in {NoFile, spare}

\* Only a device that stays on discards anything.
Next == Commit \/ Discard \/ Keep

Spec == Init /\ [][Next]_vars
=============================================================================
