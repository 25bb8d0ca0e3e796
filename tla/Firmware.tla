------------------------------ MODULE Firmware ------------------------------
(***************************************************************************)
(* What an installation promises who owns the device, with no otadata in   *)
(* sight: of two images one is chosen.  The other is written only while    *)
(* the one chosen is the one that ran last; the choice passes at once, and *)
(* to a whole image; and from an image that has not run there is a way     *)
(* back.                                                                   *)
(***************************************************************************)
EXTENDS Integers

CONSTANTS
  Images,
  Whole,  \* images that pass every check
  Runs    \* those that do run

VARIABLES
  image,  \* image[p]: what partition p holds
  choice, \* the partition that will boot
  last,   \* the one that ran last
  trial   \* a new image has only one try

vars == <<image, choice, last, trial>>

Places   == {0, 1}
Other(p) == 1 - p

Init ==
  /\ image \in [Places -> Images] /\ image[0] \in Runs
  /\ choice = 0 /\ last = 0 /\ trial \in BOOLEAN

\* What ran last is never written.
Fill ==
  /\ choice = last
  /\ \E i \in Images : image' = [image EXCEPT ![Other(last)] = i]
  /\ UNCHANGED <<choice, last>>

Switch ==
  /\ choice = last /\ image[Other(last)] \in Whole
  /\ choice' = Other(last)
  /\ UNCHANGED <<image, last>>

Run ==
  /\ image[choice] \in Runs
  /\ last' = choice
  /\ UNCHANGED <<image, choice>>

GiveUp ==
  /\ trial
  /\ choice' = last
  /\ UNCHANGED <<image, last>>

Next == (Fill \/ Switch \/ Run \/ GiveUp) /\ UNCHANGED trial

Spec == Init /\ [][Next]_vars
=============================================================================
