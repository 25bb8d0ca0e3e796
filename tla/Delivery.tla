------------------------------ MODULE Delivery ------------------------------
(***************************************************************************)
(* What a transfer promises, whatever the radio, the card and the users    *)
(* do: a file is stored under a name at once and as a whole, a name keeps  *)
(* what it has until then, and neither device speaks of success for a file *)
(* that is not stored.                                                     *)
(***************************************************************************)
CONSTANTS
  Names, NoName,
  Files, NoFile,  \* the files that are sent
  Older           \* what a name may hold at first, NoFile among it

VARIABLES
  shelf,    \* shelf[t]: what is stored for name t
  sent,     \* the file the sender has called sent, or NoFile
  received  \* the name and file the receiver has called received

vars == <<shelf, sent, received>>

Received(t, f) == [name |-> t, file |-> f]
Silence        == Received(NoName, NoFile)

Init == shelf \in [Names -> Older] /\ sent = NoFile /\ received = Silence

\* A file is delivered once, under one name, and takes the place of no other
\* that has just been called sent or received.
Deliver(t, f) ==
  /\ \A u \in Names : shelf[u] # f
  /\ sent = NoFile \/ shelf[t] # sent
  /\ received.name # t
  /\ shelf' = [shelf EXCEPT ![t] = f]
  /\ UNCHANGED <<sent, received>>

SayReceived(t, f) ==
  /\ shelf[t] = f
  /\ received' = Received(t, f)
  /\ UNCHANGED <<shelf, sent>>

SaySent(f) ==
  /\ \E t \in Names : shelf[t] = f
  /\ sent' = f
  /\ UNCHANGED <<shelf, received>>

\* A device turns to something else.
Leave ==
  /\ sent' \in {sent, NoFile} /\ received' \in {received, Silence}
  /\ UNCHANGED shelf

Next ==
  \/ \E t \in Names, f \in Files : Deliver(t, f) \/ SayReceived(t, f)
  \/ \E f \in Files : SaySent(f)
  \/ Leave

Spec == Init /\ [][Next]_vars
=============================================================================
