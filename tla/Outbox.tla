------------------------------ MODULE Outbox ------------------------------
(***************************************************************************)
(* What the queue of clippings promises to whoever saves one, with no file *)
(* in sight: clippings leave in the order in which they were taken, each   *)
(* because it was delivered or because it was tried often enough, and the  *)
(* only others that go are damaged by a failure.                           *)
(***************************************************************************)
EXTENDS Naturals, Sequences

CONSTANTS Clippings, Attempts

VARIABLES
  taken,    \* the clippings taken, in order
  waiting,  \* those that are still to go
  sent,     \* how often each was accepted by the target
  tries,    \* how often each has failed
  dropped,  \* those given up on
  damaged,  \* those lost to a failure
  sound     \* nothing has failed so far

vars == <<taken, waiting, sent, tries, dropped, damaged, sound>>

\* Nothing taken before c waits.
Turn(c) == \A i, j \in DOMAIN taken : i < j /\ taken[j] = c => taken[i] \notin waiting

Init ==
  /\ taken = <<>> /\ waiting = {} /\ dropped = {} /\ damaged = {} /\ sound = TRUE
  /\ sent = [c \in Clippings |-> 0] /\ tries = [c \in Clippings |-> 0]

\* An older failure may come to light when a clipping is taken.
Take(c) ==
  /\ \A i \in DOMAIN taken : taken[i] # c
  /\ taken' = Append(taken, c)
  /\ waiting' = (waiting \cup {c}) \ damaged'
  /\ UNCHANGED <<sent, tries, dropped>>

\* c is accepted, though the answer may get lost; a second time only after a
\* failure.
Deliver(c) ==
  /\ Turn(c) /\ (sound' => sent[c] = 0)
  /\ sent' = [sent EXCEPT ![c] = @ + 1]
  /\ \/ UNCHANGED tries
     \/ ~sound' /\ tries' = [tries EXCEPT ![c] = @ + 1]
  /\ waiting' = waiting \ {c}
  /\ UNCHANGED <<taken, dropped, damaged>>

\* c is not accepted, and waits on.
Refuse(c) ==
  /\ Turn(c)
  /\ tries' = [tries EXCEPT ![c] = @ + 1]
  /\ UNCHANGED <<taken, waiting, sent, dropped, damaged>>

GiveUp(c) ==
  /\ Turn(c) /\ tries[c] >= Attempts
  /\ dropped' = dropped \cup {c}
  /\ waiting' = waiting \ {c}
  /\ UNCHANGED <<taken, sent, tries, damaged>>

Damage ==
  /\ ~sound'
  /\ waiting' = waiting \ damaged'
  /\ UNCHANGED <<taken, sent, tries, dropped>>

Next ==
  /\ (\E c \in Clippings : Take(c) \/ Deliver(c) \/ Refuse(c) \/ GiveUp(c)) \/ Damage
  /\ damaged \subseteq damaged'
  /\ sound' => sound /\ damaged' = damaged

Spec == Init /\ [][Next]_vars
=============================================================================
