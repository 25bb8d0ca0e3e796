------------------------ MODULE ObsidianQueueProofs ------------------------
(***************************************************************************)
(* Proofs about ObsidianQueue for any clippings, any number of attempts,   *)
(* any cap and any number of faults: no clipping vanishes, none is given   *)
(* up on early, they arrive in order, and only once unless something       *)
(* failed.                                                                 *)
(***************************************************************************)
EXTENDS ObsidianQueue, TLAPS

\* The clippings the queue need not care for any more.
Settled == {c \in Clippings : delivered[c] > 0} \cup failed \cup lost

\* The clippings that the running sync still has to send.
ToSend == {pending[i].id : i \in (consumed + 1)..Len(pending)}

\* What a sync hands over from one step of replaceAll to the next.
Handover ==
  /\ pc = "remove" => Remaining = <<>> \/ tmp = Remaining
  /\ pc = "rename" => file = <<>> /\ ~open /\ tmp = Remaining /\ tmp # <<>>

\* What is before the place the sync has got to is settled; behind it is all
\* the rest of the file.
Progress ==
  /\ \A i \in 1..consumed : pending[i].id \in Settled
  /\ pc \in {"push", "fallback", "giveUp", "write", "remove"} =>
       \A c \in Ids(file) : c \in Settled \/ c \in ToSend

\* Nothing is in the queue that was not made.
Known == Ids(file) \subseteq made /\ Ids(pending) \subseteq made /\ ToSet(saved) \subseteq made

\* In front of a clipping stand all that were saved before it, or they are settled.
Order(lines) ==
  \A x \in DOMAIN lines : \A j \in DOMAIN saved : lines[x].id = saved[j] =>
    \A i \in 1..(j - 1) :
      saved[i] \in Settled \/ \E y \in 1..(x - 1) : lines[y].id = saved[i]

\* Every failure that a line counts has happened.
Counted(lines) ==
  \A x \in DOMAIN lines : lines[x].id \in Clippings => lines[x].failCount <= failures[lines[x].id]

Counts ==
  /\ Counted(file) /\ Counted(pending)
  /\ pc = "giveUp" => failures[Sending.id] >= MaxDeliveryAttempts

Distinct(lines) == \A x, y \in DOMAIN lines : lines[x].id = lines[y].id => x = y

\* Until something fails every clipping is in the queue once, and not sent.
Once ==
  faults = 0 =>
    /\ ~open /\ pc # "off"
    /\ Distinct(file) /\ Distinct(pending)
    /\ \A c \in (Clippings \ made) \cup ToSend : delivered[c] = 0
    /\ pc = "idle" => \A c \in Ids(file) : delivered[c] = 0

QueueInv ==
  /\ TypeOK /\ Handover /\ Progress /\ Known /\ NothingVanishes
  /\ Order(file) /\ Order(pending)

CountInv == Counts /\ GivenUpLate

OnceInv == Once /\ NoDuplicate

IInv == QueueInv /\ CountInv /\ OnceInv

-----------------------------------------------------------------------------
(* The types.                                                              *)

LEMMA EntryFields ==
  /\ \A e \in Entries : e.id \in Clippings /\ e.failCount \in 0..(MaxDeliveryAttempts - 1)
  /\ \A e \in Entries : e # Garbage
  /\ \A l \in Lines : l \in Entries \/ l = Garbage
  /\ Garbage.id = NoClipping /\ NoClipping \notin Clippings
  BY ConstantsAssumption DEF Entries, Lines, Garbage, Line

LEMMA NewLine ==
  ASSUME NEW c \in Clippings
  PROVE  Line(c, 0) \in Entries /\ Line(c, 0).id = c /\ Line(c, 0).failCount = 0
  BY ConstantsAssumption DEF Entries, Line

LEMMA RemainingIs ==
  ASSUME TypeOK
  PROVE  /\ Remaining \in Seq(Entries) /\ Remaining \in Seq(Lines)
         /\ Len(Remaining) = Len(pending) - consumed
         /\ \A i \in 1..Len(Remaining) : Remaining[i] = pending[consumed + i]
  <1>1. pending \in Seq(Entries) /\ consumed \in 0..Len(pending) /\ Len(pending) \in Nat
    BY DEF TypeOK
  <1>2. /\ Len(Remaining) = Len(pending) - consumed
        /\ \A i \in 1..Len(Remaining) : Remaining[i] = pending[consumed + i]
        /\ Remaining \in Seq(Entries)
    BY <1>1 DEF Remaining
  <1>3. Remaining \in Seq(Lines)
    BY <1>2 DEF Lines
  <1> QED
    BY <1>2, <1>3

LEMMA SendingIs ==
  ASSUME TypeOK, pc \in {"push", "fallback", "giveUp", "write"}
  PROVE  /\ Sending \in Entries /\ Sending = pending[consumed + 1]
         /\ consumed + 1 \in 1..Len(pending) /\ Sending.id \in Clippings
         /\ Sending.failCount \in 0..(MaxDeliveryAttempts - 1)
  BY EntryFields DEF TypeOK, Sending

LEMMA AppendedIs ==
  ASSUME TypeOK, NEW l \in Lines, NEW f \in Appended(l)
  PROVE  /\ f \in Seq(Lines) /\ f # <<>>
         /\ ~open => /\ Len(f) = Len(file) + 1 /\ f[Len(file) + 1] = l
                     /\ \A i \in 1..Len(file) : f[i] = file[i]
         /\ open => /\ Len(f) = Len(file)
                    /\ \A i \in 1..Len(file) : f[i] = file[i] \/ f[i] = Garbage
  <1>1. file \in Seq(Lines) /\ (open => file # <<>>) /\ Garbage \in Lines
    BY DEF TypeOK, Lines
  <1>2. CASE ~open
    <2>1. f = Append(file, l)
      BY <1>2 DEF Appended
    <2> QED
      BY <1>1, <1>2, <2>1
  <1>3. CASE open
    <2>1. f = file \/ f = [file EXCEPT ![Len(file)] = Garbage]
      BY <1>3 DEF Appended
    <2>2. f \in Seq(Lines) /\ Len(f) = Len(file)
      BY <1>1, <2>1
    <2>3. \A i \in 1..Len(file) : f[i] = file[i] \/ f[i] = Garbage
      BY <1>1, <2>1
    <2>4. Len(file) > 0
      BY <1>1, <1>3
    <2>5. f # <<>>
      BY <2>2, <2>4
    <2> QED
      BY <1>3, <2>2, <2>3, <2>5
  <1> QED
    BY <1>2, <1>3

\* What a sync reads are the lines that parse.
LEMMA ReadIs ==
  ASSUME TypeOK, NEW n \in 1..Len(file), NEW at \in [1..n -> Parsed(file)],
         ReadAll(file, at), NEW p, p = [i \in 1..n |-> file[at[i]]]
  PROVE  /\ p \in Seq(Entries) /\ Len(p) = n
         /\ \A i \in 1..n : at[i] \in 1..Len(file) /\ p[i] = file[at[i]]
         /\ \A i, j \in 1..n : i < j => at[i] < at[j]
         /\ \A x \in 1..Len(file) : file[x] # Garbage => \E i \in 1..n : at[i] = x
  <1>1. file \in Seq(Lines) /\ DOMAIN file = 1..Len(file) /\ n \in Nat
    BY DEF TypeOK
  <1>2. \A i \in 1..n : at[i] \in 1..Len(file) /\ file[at[i]] \in Entries
    BY <1>1, EntryFields DEF Parsed
  <1>3. p \in Seq(Entries) /\ Len(p) = n
    BY <1>1, <1>2
  <1>4. DOMAIN at = 1..n
    OBVIOUS
  <1>5. \A i, j \in 1..n : i < j => at[i] < at[j]
    BY <1>4 DEF ReadAll
  <1>6. \A x \in 1..Len(file) : file[x] # Garbage => \E i \in 1..n : at[i] = x
    <2>1. {at[i] : i \in DOMAIN at} = {i \in DOMAIN file : file[i] # Garbage}
      BY DEF ReadAll, Parsed, ToSet
    <2> QED
      BY <1>1, <1>4, <2>1
  <1> QED
    BY <1>2, <1>3, <1>5, <1>6

LEMMA FaultCounts ==
  ASSUME TypeOK, NEW D, D \subseteq Clippings, Fault(D)
  PROVE  faults' \in 1..MaxFaults /\ lost' \subseteq Clippings /\ lost' = lost \cup D
  BY ConstantsAssumption DEF Fault, TypeOK

LEMMA IdsIn ==
  ASSUME NEW f \in Seq(Lines)
  PROVE  /\ Ids(f) \subseteq Clippings
         /\ \A c \in Clippings : c \in Ids(f) <=> \E i \in 1..Len(f) : f[i].id = c
         /\ NoClipping \notin Ids(f)
  <1>1. DOMAIN f = 1..Len(f) /\ \A i \in 1..Len(f) : f[i] \in Lines
    OBVIOUS
  <1> QED
    BY <1>1, EntryFields DEF Ids

LEMMA SpoiltIn ==
  ASSUME TypeOK, NEW c \in Clippings
  PROVE  Spoilt(c) \subseteq Clippings
  <1>1. Ids(file) \subseteq Clippings
    BY IdsIn DEF TypeOK
  <1> QED
    BY <1>1 DEF Spoilt

\* A clipping that is made goes to the end of the file, or is glued to its last line.
LEMMA ReaderTypes == TypeOK /\ Reader => TypeOK'
  <1> SUFFICES ASSUME TypeOK, NEW c \in Clippings, AppendLine(c) \/ AppendTorn(c)
               PROVE  TypeOK'
    BY DEF Reader
  <1>1. Garbage \in Lines /\ Line(c, 0) \in Lines /\ Spoilt(c) \subseteq Clippings
    BY NewLine, SpoiltIn DEF Lines
  <1>2. CASE AppendLine(c)
    <2>1. file' \in Seq(Lines) /\ open' \in BOOLEAN /\ (open' => file' # <<>>)
      BY <1>1, <1>2, AppendedIs DEF AppendLine, TypeOK
    <2>2. saved' \in Seq(Clippings) /\ lost' \subseteq Clippings /\ made' \subseteq Clippings
      <3>1. CASE Len(file) >= MaxPending
        BY <1>2, <3>1 DEF AppendLine, TypeOK
      <3>2. CASE ~(Len(file) >= MaxPending)
        <4>1. saved' = Append(saved, c) /\ lost' = lost \cup Spoilt(c) /\ made' = made \cup {c}
          BY <1>2, <3>2 DEF AppendLine
        <4>2. saved \in Seq(Clippings) /\ lost \subseteq Clippings /\ made \subseteq Clippings
          BY DEF TypeOK
        <4>3. Append(saved, c) \in Seq(Clippings)
          BY <4>2
        <4> QED
          BY <1>1, <4>1, <4>2, <4>3
      <3> QED
        BY <3>1, <3>2
    <2> QED
      BY <1>2, <2>1, <2>2 DEF AppendLine, TypeOK, sync
  <1>3. CASE AppendTorn(c)
    <2>1. PICK l \in {Garbage, Line(c, 0)} : file' \in Appended(l)
      BY <1>3 DEF AppendTorn
    <2>2. file' \in Seq(Lines) /\ file' # <<>>
      BY <1>1, <2>1, AppendedIs
    <2>3. faults' \in 0..MaxFaults /\ lost' \subseteq Clippings
      BY <1>1, <1>3, FaultCounts DEF AppendTorn
    <2> QED
      BY <1>3, <2>2, <2>3 DEF AppendTorn, TypeOK, sync
  <1> QED
    BY <1>2, <1>3

LEMMA IdleTypes == ASSUME Idle
                   PROVE  pc' = "idle" /\ pending' \in Seq(Entries) /\ consumed' \in 0..Len(pending') /\ consumed' = 0 /\ pending' = <<>>
  BY DEF Idle

LEMMA StartTypes == TypeOK /\ StartSync => TypeOK'
  <1> SUFFICES ASSUME TypeOK, StartSync PROVE TypeOK'
    OBVIOUS
  <1>1. PICK n \in 1..Len(file) : \E at \in [1..n -> Parsed(file)] :
          ReadAll(file, at) /\ pending' = [i \in 1..n |-> file[at[i]]]
    BY DEF StartSync
  <1>2. PICK at \in [1..n -> Parsed(file)] :
          ReadAll(file, at) /\ pending' = [i \in 1..n |-> file[at[i]]]
    BY <1>1
  <1>3. pending' \in Seq(Entries) /\ Len(pending') = n /\ n \in Nat /\ n > 0
    BY <1>2, ReadIs
  <1> QED
    BY <1>3 DEF StartSync, TypeOK, hist

LEMMA DeliveryTypes ==
  ASSUME TypeOK, Requesting, NEW n, n = consumed + 1
  PROVE  /\ n \in 1..Len(pending)
         /\ [delivered EXCEPT ![Sending.id] = @ + 1] \in [Clippings -> Nat]
         /\ [failures EXCEPT ![Sending.id] = @ + 1] \in [Clippings -> Nat]
  <1>1. Sending.id \in Clippings /\ n \in 1..Len(pending)
    BY SendingIs DEF Requesting
  <1> QED
    BY <1>1 DEF TypeOK

LEMMA DoneTypes ==
  ASSUME TypeOK, consumed + 1 \in 1..Len(pending), Done(consumed + 1, pending)
  PROVE  /\ consumed' \in 0..Len(pending) /\ consumed' = consumed + 1
         /\ pc' \in {"push", "remove"} /\ (pc' = "push" => consumed' < Len(pending))
         /\ (pc' = "remove" => consumed' = Len(pending))
  BY DEF Done, TypeOK

LEMMA PushTypes == TypeOK /\ (AnswerLost \/ PushOk \/ PushFails \/ GiveUp) => TypeOK'
  <1>1. ASSUME TypeOK, PushOk PROVE TypeOK'
    <2>1. Requesting /\ delivered' \in [Clippings -> Nat] /\ consumed + 1 \in 1..Len(pending)
      BY <1>1, DeliveryTypes DEF PushOk
    <2> QED
      BY <1>1, <2>1, DoneTypes DEF PushOk, TypeOK
  <1>2. ASSUME TypeOK, PushFails PROVE TypeOK'
    <2>1. /\ Requesting /\ failures' \in [Clippings -> Nat] /\ delivered' \in [Clippings -> Nat]
          /\ faults' \in 0..MaxFaults /\ lost' \subseteq Clippings
      <3>1. NotDelivered /\ Requesting
        BY <1>2 DEF PushFails, PushFailsAt, NotDelivered
      <3>2. failures' \in [Clippings -> Nat] /\ delivered' \in [Clippings -> Nat]
        BY <1>2, <3>1, DeliveryTypes DEF NotDelivered, TypeOK
      <3>3. faults' \in 0..MaxFaults /\ lost' \subseteq Clippings
        BY <1>2, <3>1, FaultCounts DEF NotDelivered, NoFault, TypeOK
      <3> QED
        BY <3>1, <3>2, <3>3
    <2>3. /\ consumed + 1 \in 1..Len(pending) /\ Sending.id \in Clippings
          /\ Sending.failCount \in 0..(MaxDeliveryAttempts - 1) /\ Sending \in Entries
      BY <1>2, <2>1, SendingIs DEF Requesting
    <2>2. /\ pending' \in Seq(Entries) /\ Len(pending') = Len(pending)
          /\ pc' \in {"write", "giveUp"} /\ consumed' = consumed
      <3>1. CASE Sending.failCount + 1 < MaxDeliveryAttempts
        <4>1. [Sending EXCEPT !.failCount = @ + 1] \in Entries
          BY <2>3, <3>1, ConstantsAssumption DEF Entries
        <4>2. pending' = [pending EXCEPT ![consumed + 1] = [Sending EXCEPT !.failCount = @ + 1]]
          BY <1>2, <3>1 DEF PushFails, PushFailsAt, Sending
        <4> QED
          BY <1>2, <2>3, <3>1, <4>1, <4>2 DEF PushFails, PushFailsAt, TypeOK
      <3>2. CASE ~(Sending.failCount + 1 < MaxDeliveryAttempts)
        BY <1>2, <3>2 DEF PushFails, PushFailsAt, TypeOK
      <3> QED
        BY <3>1, <3>2
    <2> QED
      BY <1>2, <2>1, <2>2, <2>3 DEF PushFails, PushFailsAt, NotDelivered, Requesting, TypeOK
  <1>3. ASSUME TypeOK, GiveUp PROVE TypeOK'
    <2>1. /\ pc = "giveUp" /\ consumed + 1 \in 1..Len(pending) /\ Sending.id \in Clippings
      BY <1>3, SendingIs DEF GiveUp
    <2>2. failed' \subseteq Clippings /\ lost' \subseteq Clippings /\ faults' \in 0..MaxFaults
      BY <1>3, <2>1, FaultCounts DEF GiveUp, NoFault, TypeOK
    <2> QED
      BY <1>3, <2>1, <2>2, DoneTypes DEF GiveUp, TypeOK, hist
  <1>4. ASSUME TypeOK, AnswerLost PROVE TypeOK'
    <2>1. delivered' \in [Clippings -> Nat] /\ consumed + 1 \in 1..Len(pending)
      BY <1>4, DeliveryTypes DEF AnswerLost, Requesting
    <2>2. lost' \subseteq Clippings /\ faults' \in 0..MaxFaults
      BY <1>4, FaultCounts DEF AnswerLost, TypeOK
    <2> QED
      BY <1>4, <2>1, <2>2 DEF AnswerLost, TypeOK
  <1> QED
    BY <1>1, <1>2, <1>3, <1>4

LEMMA ReplaceTypes == TypeOK /\ (WriteTmp \/ RemovePending \/ (RenameTmp /\ ~open) \/ Boot) => TypeOK'
  <1>1. ASSUME TypeOK, WriteTmp PROVE TypeOK'
    BY <1>1, RemainingIs DEF WriteTmp, TypeOK, hist
  <1>2. ASSUME TypeOK, RemovePending PROVE TypeOK'
    <2>0. file' \in Seq(Lines) /\ open' = FALSE
      BY <1>2 DEF RemovePending
    <2>1. CASE Remaining = <<>>
      BY <1>2, <2>0, <2>1, IdleTypes DEF RemovePending, TypeOK, hist
    <2>2. CASE Remaining # <<>>
      BY <1>2, <2>0, <2>2 DEF RemovePending, TypeOK, hist
    <2> QED
      BY <2>1, <2>2
  <1>3. ASSUME TypeOK, RenameTmp, ~open PROVE TypeOK'
    BY <1>3, IdleTypes DEF RenameTmp, TypeOK, hist
  <1>4. ASSUME TypeOK, Boot PROVE TypeOK'
    BY <1>4, IdleTypes DEF Boot, TypeOK, hist
  <1> QED
    BY <1>1, <1>2, <1>3, <1>4

LEMMA FailureTypes == TypeOK /\ Failure => TypeOK'
  <1>0. TypeOK => Ids(tmp) \subseteq Clippings
    BY IdsIn DEF TypeOK
  <1>1. ASSUME TypeOK, WriteTmpFails PROVE TypeOK'
    BY <1>1, IdleTypes, FaultCounts DEF WriteTmpFails, TypeOK, hist
  <1>2. ASSUME TypeOK, RemovePendingFails PROVE TypeOK'
    BY <1>2, IdleTypes, FaultCounts DEF RemovePendingFails, TypeOK, hist
  <1>3. ASSUME TypeOK, RenameTmpFails PROVE TypeOK'
    BY <1>0, <1>3, IdleTypes, FaultCounts DEF RenameTmpFails, TypeOK, hist
  <1>4. ASSUME TypeOK, PowerLoss PROVE TypeOK'
    <2>1. faults' \in 0..MaxFaults /\ lost' \subseteq Clippings
      BY <1>0, <1>4, FaultCounts DEF PowerLoss
    <2> QED
      BY <1>4, <2>1 DEF PowerLoss, TypeOK, hist
  <1> QED
    BY <1>1, <1>2, <1>3, <1>4 DEF Failure

LEMMA StepTypes == TypeOK /\ Handover /\ Next => TypeOK'
  <1>1. Handover /\ RenameTmp => ~open
    BY DEF Handover, RenameTmp
  <1> QED
    BY <1>1, ReaderTypes, StartTypes, PushTypes, ReplaceTypes, FailureTypes DEF Next, Sync

-----------------------------------------------------------------------------
(* Nothing vanishes and the order is kept.                                 *)

\* What is delivered, given up on or lost stays so.
LEMMA Growing ==
  ASSUME TypeOK, Next
  PROVE  Settled \subseteq Settled'
  <1>1. lost \subseteq lost' /\ failed \subseteq failed'
    BY DEF Next, Sync, AnswerLost, Failure, Reader, AppendLine, AppendTorn, StartSync, PushOk,
           Requesting, PushFails, PushFailsAt, NotDelivered, GiveUp, WriteTmp, RemovePending, RenameTmp, Boot, WriteTmpFails,
           RemovePendingFails, RenameTmpFails, PowerLoss, Fault, NoFault
  <1>2. \A c \in Clippings : delivered[c] > 0 => delivered'[c] > 0
    <2>1. delivered' = delivered \/ delivered' = [delivered EXCEPT ![Sending.id] = @ + 1]
      BY DEF Next, Sync, AnswerLost, Failure, Reader, AppendLine, AppendTorn, StartSync, PushOk,
           Requesting, PushFails, PushFailsAt, NotDelivered, GiveUp, WriteTmp, RemovePending, RenameTmp, Boot, WriteTmpFails,
           RemovePendingFails, RenameTmpFails, PowerLoss, hist
    <2>2. delivered \in [Clippings -> Nat]
      BY DEF TypeOK
    <2> QED
      BY <2>1, <2>2
  <1> QED
    BY <1>1, <1>2 DEF Settled

LEMMA SeqFacts ==
  ASSUME TypeOK
  PROVE  /\ pending \in Seq(Entries) /\ file \in Seq(Lines) /\ saved \in Seq(Clippings)
         /\ DOMAIN pending = 1..Len(pending) /\ DOMAIN file = 1..Len(file) /\ DOMAIN saved = 1..Len(saved)
         /\ Len(pending) \in Nat /\ Len(file) \in Nat /\ Len(saved) \in Nat
         /\ consumed \in 0..Len(pending)
         /\ \A i \in 1..Len(pending) : pending[i].id \in Clippings
         /\ \A j \in 1..Len(saved) : saved[j] \in Clippings
         /\ Ids(pending) = {pending[i].id : i \in 1..Len(pending)}
         /\ ToSet(saved) = {saved[j] : j \in 1..Len(saved)}
  <1>1. pending \in Seq(Entries) /\ file \in Seq(Lines) /\ saved \in Seq(Clippings) /\ consumed \in 0..Len(pending)
    BY DEF TypeOK
  <1>2. DOMAIN pending = 1..Len(pending) /\ DOMAIN file = 1..Len(file) /\ DOMAIN saved = 1..Len(saved)
        /\ Len(pending) \in Nat /\ Len(file) \in Nat /\ Len(saved) \in Nat
    BY <1>1
  <1>3. \A i \in 1..Len(pending) : pending[i].id \in Clippings
    BY <1>1, EntryFields
  <1>4. \A j \in 1..Len(saved) : saved[j] \in Clippings
    BY <1>1
  <1> QED
    BY <1>1, <1>2, <1>3, <1>4, ConstantsAssumption DEF Ids, ToSet

\* What the sync has in hand when a clipping is made.
LEMMA KeptInHand ==
  ASSUME TypeOK, Progress, Known, Order(pending), Settled \subseteq Settled',
         UNCHANGED <<pending, consumed>>, NEW c \in Clippings, c \notin made,
         made' = made \cup {c}, saved' = saved \/ saved' = Append(saved, c)
  PROVE  /\ \A i \in 1..consumed' : pending'[i].id \in Settled'
         /\ Ids(pending)' \subseteq made' /\ ToSet(saved)' \subseteq made'
         /\ Order(pending)'
  <1>1. \A i \in 1..consumed' : pending'[i].id \in Settled'
    BY DEF Progress
  <1>2. Ids(pending)' \subseteq made'
    BY DEF Known, Ids
  <1>3. DOMAIN saved' = 1..Len(saved') /\ \A j \in 1..Len(saved') : saved'[j] = c \/ (j \in 1..Len(saved) /\ saved'[j] = saved[j])
    BY SeqFacts
  <1>4. ToSet(saved)' \subseteq made'
    BY <1>3, SeqFacts DEF Known, ToSet
  <1>5. \A i \in 1..Len(pending) : pending[i].id # c
    BY SeqFacts DEF Known
  <1>6. Order(pending)'
    <2> SUFFICES ASSUME NEW x \in DOMAIN pending', NEW j \in DOMAIN saved', pending'[x].id = saved'[j],
                        NEW i \in 1..(j - 1)
                 PROVE  saved'[i] \in Settled' \/ \E y \in 1..(x - 1) : pending'[y].id = saved'[i]
      BY DEF Order
    <2>0. x \in 1..Len(pending) /\ pending' = pending /\ j \in 1..Len(saved')
      BY <1>3, SeqFacts
    <2>1. j \in 1..Len(saved) /\ saved'[j] = saved[j]
      BY <1>3, <1>5, <2>0
    <2>2. saved'[i] = saved[i]
      <3>1. saved \in Seq(Clippings) /\ Len(saved) \in Nat /\ i \in 1..Len(saved)
        BY <2>1, SeqFacts
      <3> QED
        BY <3>1
    <2>3. saved[i] \in Settled \/ \E y \in 1..(x - 1) : pending[y].id = saved[i]
      BY <2>0, <2>1, SeqFacts DEF Order
    <2> QED
      BY <2>0, <2>2, <2>3
  <1> QED
    BY <1>1, <1>2, <1>4, <1>6

\* A clipping the queue took is not lost on the way to its settlement.
LEMMA ReaderStep == QueueInv /\ Reader => QueueInv'
  <1> SUFFICES ASSUME QueueInv, NEW c \in Clippings, AppendLine(c) \/ AppendTorn(c) PROVE QueueInv'
    BY DEF Reader
  <1>1. TypeOK /\ TypeOK' /\ Settled \subseteq Settled'
    BY ReaderTypes, Growing DEF QueueInv, Reader, Next
  <1>2. /\ pc = "idle" /\ pc' = "idle" /\ c \notin made /\ made' = made \cup {c}
        /\ UNCHANGED <<pending, consumed, delivered, failed>>
        /\ saved' = saved \/ saved' = Append(saved, c)
    BY DEF AppendLine, AppendTorn, sync
  <1>0. /\ file \in Seq(Lines) /\ saved \in Seq(Clippings) /\ saved' \in Seq(Clippings)
        /\ Len(file) \in Nat /\ Len(saved) \in Nat /\ Len(file') \in Nat
        /\ DOMAIN saved = 1..Len(saved) /\ DOMAIN saved' = 1..Len(saved')
        /\ \A i \in 1..Len(file) : file[i] \in Lines
    <2>1. /\ file \in Seq(Lines) /\ file' \in Seq(Lines)
          /\ saved \in Seq(Clippings) /\ saved' \in Seq(Clippings)
      BY <1>1 DEF TypeOK
    <2> QED
      BY <2>1
  <1>3. CASE file' = file /\ saved' = saved
    <2>1. Order(file)'
      BY <1>1, <1>3 DEF QueueInv, Order
    <2>2. NothingVanishes'
      BY <1>1, <1>2, <1>3, SeqFacts DEF QueueInv, NothingVanishes, Queued, Settled
    <2>3. Known'
      BY <1>1, <1>2, <1>3, KeptInHand DEF QueueInv, Known
    <2> QED
      BY <1>1, <1>2, <2>1, <2>2, <2>3, KeptInHand DEF QueueInv, Handover, Progress
  <1>4. CASE \E l \in {Garbage, Line(c, 0)} : file' \in Appended(l) /\ (saved' # saved => l = Line(c, 0))
                /\ lost' = lost \cup Spoilt(c)
    <2>1. PICK l \in {Garbage, Line(c, 0)} :
            /\ file' \in Appended(l)
            /\ saved' # saved => l = Line(c, 0)
            /\ lost' = lost \cup Spoilt(c)
      BY <1>4
    <2>2. l \in Lines /\ l.id \in {c, NoClipping} /\ (l = Line(c, 0) => l.id = c)
      BY NewLine, EntryFields DEF Lines
    <2>3. /\ ~open => /\ Len(file') = Len(file) + 1 /\ file'[Len(file) + 1] = l
                      /\ \A i \in 1..Len(file) : file'[i] = file[i]
          /\ open => /\ Len(file') = Len(file)
                     /\ \A i \in 1..Len(file) : file'[i] = file[i] \/ file'[i] = Garbage
      BY <1>1, <2>1, <2>2, AppendedIs
    <2>4. /\ \A d \in Clippings : d \in Ids(file) <=> \E i \in 1..Len(file) : file[i].id = d
          /\ \A d \in Clippings : d \in Ids(file') <=> \E i \in 1..Len(file') : file'[i].id = d
          /\ Ids(file) \subseteq Clippings /\ Ids(file') \subseteq Clippings
      BY <1>1, IdsIn DEF TypeOK
    <2>5. Ids(file') \subseteq made' /\ \A d \in Ids(file) : d \in Ids(file') \cup lost'
      <3>1. \A i \in 1..Len(file') : file'[i].id \in Clippings => file'[i].id \in Ids(file) \cup {c}
        <4> SUFFICES ASSUME NEW i \in 1..Len(file'), file'[i].id \in Clippings
                     PROVE  file'[i].id \in Ids(file) \cup {c}
          OBVIOUS
        <4>1. CASE i \in 1..Len(file) /\ file'[i] = file[i]
          BY <2>4, <4>1
        <4>2. CASE file'[i] = Garbage
          BY <4>2, EntryFields
        <4>3. CASE file'[i] = l
          BY <2>2, <4>3, EntryFields
        <4> QED
          BY <1>0, <2>3, <4>1, <4>2, <4>3
      <3>2. Ids(file') \subseteq made'
        BY <1>2, <2>4, <3>1 DEF QueueInv, Known
      <3>3. CASE ~open
        <4> SUFFICES ASSUME NEW d \in Ids(file) PROVE d \in Ids(file')
          BY <3>2
        <4>1. PICK i \in 1..Len(file) : file[i].id = d
          BY <2>4
        <4>2. i \in 1..Len(file') /\ file'[i].id = d
          BY <1>0, <2>3, <3>3, <4>1
        <4> QED
          BY <2>4, <4>2
      <3>4. CASE open
        BY <2>1, <3>2, <3>4 DEF Spoilt
      <3> QED
        BY <3>3, <3>4
    <2>6. saved' # saved => c \in Ids(file') \cup lost'
      <3>1. CASE open
        BY <2>1, <3>1 DEF Spoilt
      <3>2. CASE ~open
        <4>1. Len(file') = Len(file) + 1 /\ file'[Len(file')] = l /\ Len(file') \in 1..Len(file')
          BY <1>0, <2>3, <3>2
        <4> QED
          BY <2>1, <2>2, <2>4, <4>1
      <3> QED
        BY <3>1, <3>2
    <2>7. NothingVanishes'
      <3>1. \A j \in 1..Len(saved') : (saved'[j] = c /\ saved' # saved) \/ (j \in 1..Len(saved) /\ saved'[j] = saved[j])
        BY <1>1, <1>2, SeqFacts
      <3>2. ToSet(saved') \subseteq ToSet(saved) \cup {d \in {c} : saved' # saved}
        BY <1>0, <3>1 DEF ToSet
      <3>3. Queued = Ids(file) /\ Queued' = Ids(file')
        BY <1>2 DEF Queued
      <3> QED
        BY <1>2, <2>1, <2>5, <2>6, <3>2, <3>3 DEF QueueInv, NothingVanishes
    <2>8. Known'
      BY <1>1, <1>2, <2>5, KeptInHand DEF QueueInv, Known
    <2>9. Order(file)'
      <3> SUFFICES ASSUME NEW x \in 1..Len(file'), NEW j \in 1..Len(saved'), file'[x].id = saved'[j],
                          NEW i \in 1..(j - 1)
                   PROVE  saved'[i] \in Settled' \/ \E y \in 1..(x - 1) : file'[y].id = saved'[i]
        <4>1. DOMAIN file' = 1..Len(file') /\ DOMAIN saved' = 1..Len(saved')
          BY <1>1 DEF TypeOK
        <4> QED
          BY <4>1 DEF Order
      <3>1. saved'[i] = saved[i] /\ i \in 1..Len(saved) /\ saved[i] \in Clippings
        BY <1>1, <1>2, SeqFacts
      <3>2. CASE j \in 1..Len(saved)
        <4>1. saved'[j] = saved[j] /\ saved[j] # c /\ saved[j] \in Clippings
          <5>1. saved'[j] = saved[j] /\ saved[j] \in Clippings
            <6>1. CASE saved' = saved
              BY <1>0, <3>2, <6>1
            <6>2. CASE saved' = Append(saved, c)
              BY <1>0, <3>2, <6>2
            <6> QED
              BY <1>2, <6>1, <6>2
          <5>2. saved[j] \in made
            BY <1>0, <3>2 DEF QueueInv, Known, ToSet
          <5> QED
            BY <1>2, <5>1, <5>2
        <4>2. x \in 1..Len(file) /\ file'[x] = file[x]
          <5>1. file'[x] # Garbage /\ file'[x] # l
            BY <2>2, <4>1, EntryFields
          <5> QED
            BY <1>0, <2>3, <5>1
        <4>3. saved[i] \in Settled \/ \E y \in 1..(x - 1) : file[y].id = saved[i]
          BY <1>1, <3>2, <4>1, <4>2, SeqFacts DEF QueueInv, Order
        <4>4. CASE \E y \in 1..(x - 1) : file[y].id = saved[i]
          <5>1. PICK y \in 1..(x - 1) : file[y].id = saved[i]
            BY <4>4
          <5>2. y \in 1..Len(file)
            BY <4>2, <1>1, SeqFacts
          <5>3. CASE file'[y] = file[y]
            BY <3>1, <5>1, <5>3
          <5>4. CASE file'[y] # file[y]
            <6>1. open
              BY <2>3, <5>2, <5>4
            <6>2. saved[i] \in Ids(file)
              BY <2>4, <3>1, <5>1, <5>2
            <6>3. saved[i] \in lost' \/ saved[i] \in Ids(file')
              BY <2>5, <6>2
            <6>4. CASE saved[i] \in Ids(file')
              <7>1. PICK z \in 1..Len(file') : file'[z].id = saved[i]
                BY <2>4, <3>1, <6>4
              <7>2. z \in 1..Len(file) /\ file'[z] = file[z]
                BY <2>3, <3>1, <6>1, <7>1, EntryFields
              <7>3. y = Len(file)
                BY <2>1, <5>2, <5>4, <6>1, <1>1, SeqFacts DEF Appended
              <7> QED
                BY <4>2, <5>1, <7>3, <1>1, SeqFacts
            <6> QED
              BY <3>1, <6>3, <6>4 DEF Settled
          <5> QED
            BY <5>3, <5>4
        <4> QED
          BY <1>1, <3>1, <4>3, <4>4
      <3>3. CASE j \notin 1..Len(saved)
        <4>1. saved' = Append(saved, c) /\ saved'[j] = c /\ saved' # saved
          BY <1>1, <1>2, <3>3, SeqFacts
        <4>2. l = Line(c, 0)
          BY <2>1, <4>1
        <4>3. \A z \in 1..Len(file) : file[z].id # c
          BY <1>2, <2>4 DEF QueueInv, Known
        <4>4. ~open /\ x = Len(file) + 1
          <5>1. file'[x] # Garbage
            BY <4>1, EntryFields
          <5>2. x \notin 1..Len(file) \/ file'[x] # file[x]
            BY <4>1, <4>3
          <5>3. x \in 1..Len(file')
            OBVIOUS
          <5>4. ~open
            <6> SUFFICES ASSUME open PROVE FALSE
              OBVIOUS
            <6>1. x \in 1..Len(file)
              BY <2>3, <5>3
            <6> QED
              BY <2>3, <5>1, <5>2, <6>1
          <5>5. x \notin 1..Len(file)
            BY <2>3, <5>2, <5>4
          <5>6. Len(file') = Len(file) + 1
            BY <2>3, <5>4
          <5> QED
            BY <1>0, <5>3, <5>4, <5>5, <5>6
        <4>5. saved[i] \in Settled \/ saved[i] \in Ids(file)
          BY <1>1, <1>2, <3>1, SeqFacts DEF QueueInv, NothingVanishes, Queued, Settled
        <4>6. saved[i] \in Ids(file) => \E y \in 1..(x - 1) : file'[y].id = saved'[i]
          <5> SUFFICES ASSUME saved[i] \in Ids(file)
                       PROVE  \E y \in 1..(x - 1) : file'[y].id = saved'[i]
            OBVIOUS
          <5>1. PICK y \in 1..Len(file) : file[y].id = saved[i]
            BY <2>4, <3>1
          <5>2. y \in 1..(x - 1) /\ file'[y].id = saved'[i]
            BY <1>0, <2>3, <3>1, <4>4, <5>1
          <5> QED
            BY <5>2
        <4> QED
          BY <1>1, <3>1, <4>5, <4>6
      <3> QED
        BY <3>2, <3>3
    <2> QED
      BY <1>1, <1>2, <2>7, <2>8, <2>9, KeptInHand DEF QueueInv, Handover, Progress
  <1> QED
    BY <1>3, <1>4 DEF AppendLine, AppendTorn, Fault

LEMMA StartStep == QueueInv /\ StartSync => QueueInv'
  <1> SUFFICES ASSUME QueueInv, StartSync PROVE QueueInv'
    OBVIOUS
  <1>1. TypeOK /\ TypeOK' /\ Settled \subseteq Settled'
    BY StartTypes, Growing DEF QueueInv, Sync, Next
  <1>2. /\ pc = "idle" /\ pc' = "push" /\ consumed' = 0
        /\ UNCHANGED <<file, open, tmp, failed, made, saved, delivered, lost>>
    BY DEF StartSync, hist
  <1>3. PICK n \in 1..Len(file) : \E at \in [1..n -> Parsed(file)] :
          ReadAll(file, at) /\ pending' = [i \in 1..n |-> file[at[i]]]
    BY DEF StartSync
  <1>4. PICK at \in [1..n -> Parsed(file)] :
          ReadAll(file, at) /\ pending' = [i \in 1..n |-> file[at[i]]]
    BY <1>3
  <1>5. /\ pending' \in Seq(Entries) /\ Len(pending') = n /\ DOMAIN pending' = 1..n
        /\ \A i \in 1..n : at[i] \in 1..Len(file) /\ pending'[i] = file[at[i]]
        /\ \A i, j \in 1..n : i < j => at[i] < at[j]
        /\ \A x \in 1..Len(file) : file[x] # Garbage => \E i \in 1..n : at[i] = x
    BY <1>1, <1>4, ReadIs
  <1>6. Len(file) \in Nat /\ n \in Nat /\ DOMAIN file = 1..Len(file) /\ DOMAIN saved = 1..Len(saved)
        /\ \A j \in 1..Len(saved) : saved[j] \in Clippings
    BY <1>1, SeqFacts
  <1>7. \A c \in Ids(file) : \E i \in 1..n : pending'[i].id = c
    <2> SUFFICES ASSUME NEW c \in Ids(file) PROVE \E i \in 1..n : pending'[i].id = c
      OBVIOUS
    <2>1. PICK x \in 1..Len(file) : file[x].id = c
      BY <1>6 DEF Ids
    <2>2. file[x] # Garbage
      BY <2>1, EntryFields DEF Ids
    <2> QED
      BY <1>5, <2>1, <2>2
  <1>8. Progress'
    <2>1. ToSend' = {pending'[i].id : i \in 1..n}
      BY <1>2, <1>5 DEF ToSend
    <2>2. Ids(file)' \subseteq ToSend'
      BY <1>2, <1>7, <2>1
    <2> QED
      BY <1>2, <2>2 DEF Progress
  <1>9. Known'
    <2>1. Ids(pending)' \subseteq Ids(file)
      BY <1>5, <1>6 DEF Ids
    <2> QED
      BY <1>2, <2>1 DEF QueueInv, Known
  <1>10. Order(pending)'
    <2> SUFFICES ASSUME NEW x \in 1..n, NEW j \in 1..Len(saved), pending'[x].id = saved[j], NEW i \in 1..(j - 1)
                 PROVE  saved[i] \in Settled' \/ \E y \in 1..(x - 1) : pending'[y].id = saved[i]
      BY <1>2, <1>5, <1>6 DEF Order
    <2>1. at[x] \in 1..Len(file) /\ file[at[x]].id = saved[j]
      BY <1>5
    <2>2. saved[i] \in Settled \/ \E y \in 1..(at[x] - 1) : file[y].id = saved[i]
      BY <1>6, <2>1 DEF QueueInv, Order
    <2>3. CASE \E y \in 1..(at[x] - 1) : file[y].id = saved[i]
      <3>1. PICK y \in 1..(at[x] - 1) : file[y].id = saved[i]
        BY <2>3
      <3>2. y \in 1..Len(file) /\ file[y] # Garbage
        BY <1>6, <2>1, <3>1, EntryFields, SeqFacts, <1>1
      <3>3. PICK z \in 1..n : at[z] = y
        BY <1>5, <3>2
      <3>4. z < x
        BY <1>5, <1>6, <2>1, <3>1, <3>3
      <3> QED
        BY <1>5, <1>6, <3>1, <3>3, <3>4
    <2> QED
      BY <1>1, <2>2, <2>3
  <1>11. NothingVanishes' /\ Order(file)' /\ Handover'
    BY <1>1, <1>2 DEF QueueInv, NothingVanishes, Queued, Order, Handover
  <1> QED
    BY <1>1, <1>8, <1>9, <1>10, <1>11 DEF QueueInv

\* A step of the drain: the entry it is at is settled or stays where it is.
Drains ==
  /\ pc \in {"push", "fallback", "giveUp"} /\ pc' \in {"push", "fallback", "giveUp", "write", "remove"}
  /\ UNCHANGED <<file, open, tmp, made, saved>>
  /\ \A c \in Clippings : delivered'[c] >= delivered[c]
  /\ failed \subseteq failed' /\ lost \subseteq lost'
  /\ Len(pending') = Len(pending) /\ \A i \in 1..Len(pending) : pending'[i].id = pending[i].id
  /\ \/ consumed' = consumed /\ pc' # "remove"
     \/ /\ consumed' = consumed + 1 /\ Sending.id \in Settled'
        /\ pc' = "remove" => consumed' = Len(pending)

LEMMA DrainStep == QueueInv /\ TypeOK' /\ Settled \subseteq Settled' /\ Drains => QueueInv'
  <1> SUFFICES ASSUME QueueInv, TypeOK', Settled \subseteq Settled', Drains PROVE QueueInv'
    OBVIOUS
  <1>1. TypeOK
    BY DEF QueueInv
  <1>2. /\ consumed \in Nat /\ Len(pending) \in Nat /\ consumed' \in Nat
        /\ DOMAIN pending = 1..Len(pending) /\ DOMAIN pending' = 1..Len(pending)
        /\ consumed + 1 \in 1..Len(pending)
    BY <1>1, SeqFacts, SendingIs DEF TypeOK, Drains
  <1>3. /\ UNCHANGED <<file, open, tmp, made, saved>>
        /\ \A i \in 1..Len(pending) : pending'[i].id = pending[i].id
        /\ Len(pending') = Len(pending)
    BY DEF Drains
  <1>4. DOMAIN saved = 1..Len(saved) /\ \A j \in 1..Len(saved) : saved[j] \in Clippings
    BY <1>1, SeqFacts
  <1>5. \/ consumed' = consumed /\ pc' # "remove"
        \/ /\ consumed' = consumed + 1 /\ pending[consumed + 1].id \in Settled'
           /\ pc' = "remove" => consumed' = Len(pending)
    BY DEF Drains, Sending
  <1>6. Handover'
    <2>1. CASE pc' = "remove"
      <3>1. Remaining' = SubSeq(pending', consumed' + 1, Len(pending')) /\ consumed' = Len(pending')
        BY <1>3, <1>5, <2>1 DEF Remaining
      <3>2. pending' \in Seq(Entries) /\ Len(pending') \in Nat
        BY DEF TypeOK
      <3>3. Remaining' = <<>>
        BY <3>1, <3>2
      <3> QED
        BY <2>1, <3>3 DEF Handover
    <2>2. CASE pc' # "remove"
      BY <2>2 DEF Handover, Drains
    <2> QED
      BY <2>1, <2>2
  <1>7. Progress'
    <2>1. \A i \in 1..consumed' : pending'[i].id \in Settled'
      <3> SUFFICES ASSUME NEW i \in 1..consumed' PROVE pending[i].id \in Settled'
        BY <1>2, <1>3, <1>5
      <3>1. CASE i \in 1..consumed
        BY <3>1 DEF QueueInv, Progress
      <3>2. CASE i \notin 1..consumed
        BY <1>2, <1>5, <3>2
      <3> QED
        BY <3>1, <3>2
    <2>2. \A c \in Ids(file) : c \in Settled' \/ c \in ToSend'
      <3> SUFFICES ASSUME NEW c \in Ids(file), c \notin Settled' PROVE c \in ToSend'
        OBVIOUS
      <3>1. c \in ToSend
        BY DEF QueueInv, Progress, Drains
      <3>2. PICK i \in (consumed + 1)..Len(pending) : pending[i].id = c
        BY <3>1 DEF ToSend
      <3>3. i \in (consumed' + 1)..Len(pending') /\ pending'[i].id = c
        <4>1. i \in 1..Len(pending) /\ pending'[i].id = c /\ Len(pending') = Len(pending)
          BY <1>2, <1>3, <3>2
        <4>2. CASE consumed' = consumed
          BY <3>2, <4>1, <4>2
        <4>3. CASE consumed' = consumed + 1 /\ pending[consumed + 1].id \in Settled'
          <5>1. i # consumed + 1
            BY <3>2, <4>3
          <5> QED
            BY <1>2, <3>2, <4>1, <4>3, <5>1
        <4> QED
          BY <1>5, <4>2, <4>3
      <3> QED
        BY <3>3 DEF ToSend
    <2> QED
      BY <1>3, <2>1, <2>2 DEF Progress
  <1>8. Known'
    <2>1. Ids(pending)' = Ids(pending)
      BY <1>2, <1>3 DEF Ids
    <2> QED
      BY <1>3, <2>1 DEF QueueInv, Known
  <1>9. NothingVanishes'
    <2>1. Queued = Ids(file) /\ Queued' = Ids(file)
      BY DEF Queued, Drains
    <2>2. ToSet(saved) \subseteq Clippings
      BY <1>4 DEF ToSet
    <2>3. \A c \in Clippings : delivered[c] > 0 => delivered'[c] > 0
      BY <1>1 DEF TypeOK, Drains
    <2>4. failed \subseteq failed' /\ lost \subseteq lost'
      BY DEF Drains
    <2> QED
      BY <1>3, <2>1, <2>2, <2>3, <2>4 DEF QueueInv, NothingVanishes
  <1>10. Order(file)'
    BY <1>3 DEF QueueInv, Order
  <1>11. Order(pending)'
    <2> SUFFICES ASSUME NEW x \in DOMAIN pending', NEW j \in DOMAIN saved', pending'[x].id = saved'[j],
                        NEW i \in 1..(j - 1)
                 PROVE  saved'[i] \in Settled' \/ \E y \in 1..(x - 1) : pending'[y].id = saved'[i]
      BY DEF Order
    <2>1. x \in 1..Len(pending) /\ pending[x].id = saved[j] /\ j \in DOMAIN saved
      BY <1>2, <1>3
    <2>2. saved[i] \in Settled \/ \E y \in 1..(x - 1) : pending[y].id = saved[i]
      BY <1>2, <2>1 DEF QueueInv, Order
    <2>3. \A y \in 1..(x - 1) : pending'[y].id = pending[y].id
      BY <1>2, <1>3, <2>1
    <2> QED
      BY <1>3, <2>2, <2>3
  <1> QED
    BY <1>6, <1>7, <1>8, <1>9, <1>10, <1>11 DEF QueueInv

LEMMA PushStep == QueueInv /\ (AnswerLost \/ PushOk \/ PushFails \/ GiveUp) => QueueInv'
  <1> SUFFICES ASSUME QueueInv, AnswerLost \/ PushOk \/ PushFails \/ GiveUp PROVE QueueInv'
    OBVIOUS
  <1>1. TypeOK /\ TypeOK' /\ Settled \subseteq Settled'
    BY PushTypes, Growing DEF QueueInv, Sync, Next
  <1>2. /\ consumed + 1 \in 1..Len(pending) /\ Sending = pending[consumed + 1] /\ Sending.id \in Clippings
        /\ pending \in Seq(Entries) /\ delivered \in [Clippings -> Nat] /\ consumed \in Nat
    <2>1. pc \in {"push", "fallback", "giveUp", "write"}
      BY DEF AnswerLost, PushOk, Requesting, PushFails, PushFailsAt, NotDelivered, GiveUp
    <2>2. pending \in Seq(Entries) /\ delivered \in [Clippings -> Nat] /\ consumed \in Nat
      BY <1>1 DEF TypeOK
    <2>3. consumed + 1 \in 1..Len(pending) /\ Sending = pending[consumed + 1] /\ Sending.id \in Clippings
      BY <1>1, <2>1, SendingIs
    <2> QED
      BY <2>2, <2>3
  <1>3. \A c \in Clippings : delivered'[c] >= delivered[c]
    BY <1>2 DEF AnswerLost, PushOk, Requesting, PushFails, PushFailsAt, NotDelivered, GiveUp, hist
  <1>4. CASE PushOk
    <2>1. Sending.id \in Settled'
      BY <1>2, <1>4 DEF PushOk, Settled
    <2>2. /\ consumed' = consumed + 1 /\ (pc' = "remove" => consumed' = Len(pending))
          /\ pc' \in {"push", "remove"}
      BY <1>1, <1>2, <1>4, DoneTypes DEF PushOk
    <2> QED
      BY <1>1, <1>3, <1>4, <2>1, <2>2, DrainStep DEF PushOk, Requesting, Drains
  <1>5. CASE PushFails
    <2>1. Len(pending') = Len(pending) /\ \A i \in 1..Len(pending) : pending'[i].id = pending[i].id
      <3>1. CASE pending' = pending
        BY <3>1
      <3>2. CASE pending' = [pending EXCEPT ![consumed + 1].failCount = @ + 1]
        BY <1>2, <3>2 DEF Entries
      <3> QED
        BY <1>5, <3>1, <3>2 DEF PushFails, PushFailsAt
    <2>2. consumed' = consumed /\ pc' \in {"write", "giveUp"} /\ failed \subseteq failed' /\ lost \subseteq lost'
      BY <1>5 DEF PushFails, PushFailsAt, NotDelivered, NoFault, Fault
    <2> QED
      BY <1>1, <1>3, <1>5, <2>1, <2>2, DrainStep DEF PushFails, PushFailsAt, NotDelivered, Requesting, Drains
  <1>6. CASE GiveUp
    <2>1. Sending.id \in Settled' /\ failed \subseteq failed' /\ lost \subseteq lost'
      BY <1>6 DEF GiveUp, Settled, NoFault, Fault
    <2>2. /\ consumed' = consumed + 1 /\ (pc' = "remove" => consumed' = Len(pending))
          /\ pc' \in {"push", "remove"}
      BY <1>1, <1>2, <1>6, DoneTypes DEF GiveUp
    <2> QED
      BY <1>1, <1>3, <1>6, <2>1, <2>2, DrainStep DEF GiveUp, Drains, hist
  <1>7. CASE AnswerLost
    <2>1. lost \subseteq lost'
      BY <1>7 DEF AnswerLost, Fault
    <2> QED
      BY <1>1, <1>3, <1>7, <2>1, DrainStep DEF AnswerLost, Drains
  <1> QED
    BY <1>4, <1>5, <1>6, <1>7

\* The entries that are left to send, in their own right.
LEMMA RemainingLines ==
  ASSUME QueueInv
  PROVE  /\ Ids(Remaining) = ToSend /\ Remaining \in Seq(Lines)
         /\ Ids(Remaining) \subseteq made /\ Order(Remaining)
  <1>1. TypeOK
    BY DEF QueueInv
  <1>2. /\ Remaining \in Seq(Lines) /\ Len(Remaining) = Len(pending) - consumed
        /\ DOMAIN Remaining = 1..Len(Remaining)
        /\ \A i \in 1..Len(Remaining) : Remaining[i] = pending[consumed + i]
    BY <1>1, RemainingIs
  <1>3. /\ consumed \in Nat /\ Len(pending) \in Nat /\ consumed <= Len(pending)
        /\ DOMAIN pending = 1..Len(pending) /\ DOMAIN saved = 1..Len(saved)
        /\ \A i \in 1..Len(pending) : pending[i].id \in Clippings
    BY <1>1, SeqFacts
  <1>4. Ids(Remaining) = ToSend
    <2>1. \A i \in 1..Len(Remaining) : consumed + i \in (consumed + 1)..Len(pending)
      BY <1>2, <1>3
    <2>2. \A i \in (consumed + 1)..Len(pending) : i - consumed \in 1..Len(Remaining) /\ Remaining[i - consumed] = pending[i]
      BY <1>2, <1>3
    <2>3. ToSend \subseteq Clippings
      BY <1>3 DEF ToSend
    <2>4. Ids(Remaining) \subseteq ToSend
      BY <1>2, <2>1 DEF Ids, ToSend
    <2>5. ToSend \subseteq Ids(Remaining)
      BY <1>2, <2>2, <2>3, ConstantsAssumption DEF Ids, ToSend
    <2> QED
      BY <2>4, <2>5
  <1>5. ToSend \subseteq made
    <2>1. ToSend \subseteq Ids(pending)
      BY <1>3, ConstantsAssumption DEF Ids, ToSend
    <2> QED
      BY <2>1 DEF QueueInv, Known
  <1>6. Order(Remaining)
    <2> SUFFICES ASSUME NEW x \in 1..Len(Remaining), NEW j \in DOMAIN saved, Remaining[x].id = saved[j],
                        NEW i \in 1..(j - 1)
                 PROVE  saved[i] \in Settled \/ \E y \in 1..(x - 1) : Remaining[y].id = saved[i]
      BY <1>2 DEF Order
    <2>1. consumed + x \in 1..Len(pending) /\ pending[consumed + x].id = saved[j]
      BY <1>2, <1>3
    <2>2. saved[i] \in Settled \/ \E y \in 1..(consumed + x - 1) : pending[y].id = saved[i]
      BY <1>3, <2>1 DEF QueueInv, Order
    <2>3. CASE \E y \in 1..(consumed + x - 1) : pending[y].id = saved[i]
      <3>1. PICK y \in 1..(consumed + x - 1) : pending[y].id = saved[i]
        BY <2>3
      <3>2. CASE y \in 1..consumed
        BY <3>1, <3>2 DEF QueueInv, Progress
      <3>3. CASE y \notin 1..consumed
        <4>1. y - consumed \in 1..(x - 1) /\ y - consumed \in 1..Len(Remaining)
          BY <1>2, <1>3, <3>3
        <4>2. Remaining[y - consumed] = pending[consumed + (y - consumed)]
          BY <1>2, <4>1
        <4>3. consumed + (y - consumed) = y
          BY <1>3
        <4> QED
          BY <3>1, <4>1, <4>2, <4>3
      <3> QED
        BY <3>2, <3>3
    <2> QED
      BY <2>2, <2>3
  <1> QED
    BY <1>2, <1>4, <1>5, <1>6

LEMMA EmptyLines == Ids(<<>>) = {} /\ Order(<<>>)
  <1>1. DOMAIN <<>> = {}
    OBVIOUS
  <1> QED
    BY <1>1 DEF Ids, Order

LEMMA WriteStep == QueueInv /\ WriteTmp => QueueInv'
  <1> SUFFICES ASSUME QueueInv, WriteTmp PROVE QueueInv'
    OBVIOUS
  <1>1. TypeOK'
    BY ReplaceTypes DEF QueueInv
  <1>2. /\ pc = "write" /\ pc' = "remove" /\ tmp' = Remaining
        /\ UNCHANGED <<file, open, failed, pending, consumed, made, saved, delivered, lost>>
    BY DEF WriteTmp, hist
  <1>3. Handover' /\ Progress' /\ Known'
    BY <1>2 DEF QueueInv, Handover, Progress, Known, Remaining, Settled, ToSend, Ids
  <1>4. NothingVanishes'
    BY <1>2 DEF QueueInv, NothingVanishes, Queued
  <1>5. Order(file)' /\ Order(pending)'
    BY <1>2 DEF QueueInv, Order, Settled
  <1> QED
    BY <1>1, <1>3, <1>4, <1>5 DEF QueueInv

LEMMA RemoveStep == QueueInv /\ RemovePending => QueueInv'
  <1> SUFFICES ASSUME QueueInv, RemovePending PROVE QueueInv'
    OBVIOUS
  <1>1. TypeOK'
    BY ReplaceTypes DEF QueueInv
  <1>2. /\ pc = "remove" /\ file' = <<>> /\ open' = FALSE
        /\ UNCHANGED <<tmp, failed, made, saved, delivered, lost>> /\ Settled' = Settled
    BY DEF RemovePending, hist, Settled
  <1>3. \A c \in ToSet(saved) \ lost : delivered[c] > 0 \/ c \in failed \/ c \in Ids(Remaining)
    <2>1. ToSet(saved) \subseteq Clippings
      BY SeqFacts DEF QueueInv
    <2>2. \A c \in Ids(file) : c \in Settled \/ c \in ToSend
      BY <1>2 DEF QueueInv, Progress
    <2> QED
      BY <1>2, <2>1, <2>2, RemainingLines DEF QueueInv, NothingVanishes, Queued, Settled
  <1>4. Order(file)' /\ Ids(file)' = {}
    <2>1. DOMAIN file' = {}
      BY <1>2
    <2> QED
      BY <2>1 DEF Order, Ids
  <1>5. CASE Remaining = <<>>
    <2>1. pc' = "idle" /\ pending' = <<>> /\ consumed' = 0
      BY <1>5 DEF RemovePending, Idle
    <2>2. Handover' /\ Progress'
      BY <2>1 DEF Handover, Progress
    <2>3. DOMAIN pending' = {}
      BY <2>1
    <2>4. Known' /\ Order(pending)'
      BY <1>2, <1>4, <2>3 DEF QueueInv, Known, Order, Ids
    <2>5. NothingVanishes'
      BY <1>2, <1>3, <1>5, EmptyLines DEF NothingVanishes
    <2> QED
      BY <1>1, <1>4, <2>2, <2>4, <2>5 DEF QueueInv
  <1>6. CASE Remaining # <<>>
    <2>1. pc' = "rename" /\ UNCHANGED <<pending, consumed>> /\ tmp = Remaining
      BY <1>2, <1>6 DEF RemovePending, QueueInv, Handover
    <2>2. Handover' /\ Progress'
      BY <1>2, <1>6, <2>1 DEF QueueInv, Handover, Progress, Remaining
    <2>3. Known' /\ Order(pending)'
      BY <1>2, <1>4, <2>1 DEF QueueInv, Known, Order, Ids
    <2>4. NothingVanishes'
      BY <1>2, <1>3, <2>1 DEF NothingVanishes, Queued
    <2> QED
      BY <1>1, <1>4, <2>2, <2>3, <2>4 DEF QueueInv
  <1> QED
    BY <1>5, <1>6

LEMMA RenameStep == QueueInv /\ RenameTmp => QueueInv'
  <1> SUFFICES ASSUME QueueInv, RenameTmp PROVE QueueInv'
    OBVIOUS
  <1>1. TypeOK'
    BY ReplaceTypes DEF QueueInv, Handover, RenameTmp
  <1>2. /\ pc = "rename" /\ pc' = "idle" /\ file' = Remaining /\ file = <<>> /\ tmp = Remaining
        /\ pending' = <<>> /\ consumed' = 0
        /\ UNCHANGED <<open, failed, made, saved, delivered, lost>> /\ Settled' = Settled
    BY DEF RenameTmp, Idle, QueueInv, Handover, hist, Settled
  <1>3. DOMAIN pending' = {}
    BY <1>2
  <1>4. Handover' /\ Progress'
    BY <1>2 DEF Handover, Progress
  <1>5. Known'
    BY <1>2, <1>3, RemainingLines DEF QueueInv, Known, Ids
  <1>6. NothingVanishes'
    BY <1>2, EmptyLines DEF QueueInv, NothingVanishes, Queued
  <1>7. Order(file)' /\ Order(pending)'
    BY <1>2, <1>3, RemainingLines DEF Order
  <1> QED
    BY <1>1, <1>4, <1>5, <1>6, <1>7 DEF QueueInv

\* A sync that breaks off, and the boot that follows.
LEMMA StopStep == QueueInv /\ (Failure \/ Boot) => QueueInv'
  <1> SUFFICES ASSUME QueueInv, Failure \/ Boot PROVE QueueInv'
    OBVIOUS
  <1>1. TypeOK /\ TypeOK' /\ Settled \subseteq Settled'
    BY ReplaceTypes, FailureTypes, Growing DEF QueueInv, Next, Sync
  <1>2. /\ UNCHANGED <<file, open, tmp, failed, made, saved, delivered>>
        /\ pc' \in {"idle", "off"} /\ lost \subseteq lost' /\ (pc = "rename" => Ids(tmp) \subseteq lost')
        /\ (pending' = <<>> /\ consumed' = 0) \/ (pending' = pending /\ consumed' = consumed)
    BY DEF Failure, Boot, WriteTmpFails, RemovePendingFails, RenameTmpFails, PowerLoss, Fault, Idle, hist
  <1>3. Handover'
    BY <1>2 DEF Handover
  <1>4. Order(file)'
    BY <1>1, <1>2 DEF QueueInv, Order
  <1>5. NothingVanishes'
    BY <1>2 DEF QueueInv, NothingVanishes, Queued
  <1>6. Progress' /\ Known' /\ Order(pending)'
    <2>1. CASE pending' = <<>> /\ consumed' = 0
      <3>1. DOMAIN pending' = {}
        BY <2>1
      <3> QED
        BY <1>2, <2>1, <3>1 DEF QueueInv, Progress, Known, Order, Ids
    <2>2. CASE pending' = pending /\ consumed' = consumed
      BY <1>1, <1>2, <2>2 DEF QueueInv, Progress, Known, Order, Ids
    <2> QED
      BY <1>2, <2>1, <2>2
  <1> QED
    BY <1>1, <1>3, <1>4, <1>5, <1>6 DEF QueueInv

LEMMA QueueStep == QueueInv /\ [Next]_vars => QueueInv'
  <1>1. ASSUME QueueInv, UNCHANGED vars PROVE QueueInv'
    <2>1. UNCHANGED <<file, open, tmp, failed, lost, faults>> /\ UNCHANGED <<pending, consumed, pc>>
          /\ UNCHANGED <<made, saved, delivered, failures>>
      BY <1>1 DEF vars, sync, hist
    <2>2. TypeOK'
      BY <1>1, <2>1 DEF QueueInv, TypeOK
    <2>3. NothingVanishes' /\ Known'
      BY <1>1, <2>1 DEF QueueInv, NothingVanishes, Known, Queued, Settled, Ids
    <2>4. Handover' /\ Progress'
      BY <1>1, <2>1 DEF QueueInv, Handover, Progress, Order, Settled, ToSend, Remaining, Ids
    <2>5. Order(file)' /\ Order(pending)'
      BY <1>1, <2>1 DEF QueueInv, Order, Settled
    <2> QED
      BY <2>2, <2>3, <2>4, <2>5 DEF QueueInv
  <1> QED
    BY <1>1, ReaderStep, StartStep, PushStep, WriteStep, RemoveStep, RenameStep, StopStep
       DEF Next, Sync

LEMMA QueueInit == Init => QueueInv
  <1> SUFFICES ASSUME Init PROVE QueueInv
    OBVIOUS
  <1>1. TypeOK
    <2>1. file \in Seq(Lines) /\ tmp \in Seq(Lines) /\ pending \in Seq(Entries) /\ saved \in Seq(Clippings)
      BY DEF Init
    <2>2. delivered \in [Clippings -> Nat] /\ failures \in [Clippings -> Nat]
      BY DEF Init
    <2>3. consumed \in 0..Len(pending) /\ faults \in 0..MaxFaults
      BY ConstantsAssumption DEF Init
    <2> QED
      BY <2>1, <2>2, <2>3 DEF Init, TypeOK
  <1>2. DOMAIN file = {} /\ DOMAIN pending = {} /\ DOMAIN saved = {}
    BY DEF Init
  <1>3. Handover /\ Progress /\ Order(file) /\ Order(pending)
    BY <1>2 DEF Init, Handover, Progress, Order
  <1>4. Known /\ NothingVanishes
    BY <1>2 DEF Init, Known, NothingVanishes, Ids, ToSet
  <1> QED
    BY <1>1, <1>3, <1>4 DEF QueueInv

\* The inductive invariant: the sync knows all that is in the file, and what it
\* has passed is settled (readAll, syncPending, replaceAll).
THEOREM QueueKept == Spec => []QueueInv
  BY QueueInit, QueueStep, PTL DEF Spec

\* Every variable keeps its type; a line in the queue counts fewer failures
\* than are final (syncPending).
THEOREM TypeCorrect == Spec => []TypeOK
  <1>1. QueueInv => TypeOK
    BY DEF QueueInv
  <1> QED
    BY <1>1, QueueKept, PTL

\* A clipping the queue took is delivered, given up on or still queued,
\* whatever failed, apart from the named damage (syncPending, replaceAll).
THEOREM NothingIsLost == Spec => []NothingVanishes
  <1>1. QueueInv => NothingVanishes
    BY DEF QueueInv
  <1> QED
    BY <1>1, QueueKept, PTL

\* Clippings are delivered in the order in which they were made (readAll and
\* the loop of syncPending).
THEOREM DeliveredInOrder == Spec => InOrder
  <1> DEFINE Comes(j) == delivered'[saved[j]] > delivered[saved[j]]
             Before(j) == \A i \in 1..(j - 1) : delivered[saved[i]] > 0 \/ saved[i] \in failed \cup lost
  <1>1. QueueInv /\ [Next]_vars => [\A j \in DOMAIN saved : Comes(j) => Before(j)]_vars
    <2> SUFFICES ASSUME QueueInv, Next, NEW j \in DOMAIN saved, Comes(j), NEW i \in 1..(j - 1)
                 PROVE  saved[i] \in Settled
      BY DEF Settled
    <2>1. /\ TypeOK /\ j \in 1..Len(saved) /\ saved[j] \in Clippings /\ delivered \in [Clippings -> Nat]
          /\ Len(saved) \in Nat /\ saved[i] \in Clippings
      <3>1. TypeOK
        BY DEF QueueInv
      <3>2. /\ DOMAIN saved = 1..Len(saved) /\ Len(saved) \in Nat
            /\ \A k \in 1..Len(saved) : saved[k] \in Clippings
        BY <3>1, SeqFacts
      <3>3. j \in 1..Len(saved) /\ i \in 1..Len(saved)
        BY <3>2
      <3> QED
        BY <3>1, <3>2, <3>3 DEF TypeOK
    <2>2. Requesting /\ delivered' = [delivered EXCEPT ![Sending.id] = @ + 1]
      BY <2>1 DEF Next, Sync, AnswerLost, Failure, Reader, AppendLine, AppendTorn, StartSync, PushOk, Requesting, PushFails,
           PushFailsAt, NotDelivered, GiveUp, WriteTmp, RemovePending, RenameTmp, Boot, WriteTmpFails,
           RemovePendingFails, RenameTmpFails, PowerLoss, hist
    <2>3. saved[j] = pending[consumed + 1].id /\ consumed + 1 \in DOMAIN pending /\ consumed \in Nat
      BY <2>1, <2>2, SendingIs, SeqFacts DEF Requesting
    <2>4. saved[i] \in Settled \/ \E y \in 1..(consumed + 1 - 1) : pending[y].id = saved[i]
      BY <2>1, <2>3 DEF QueueInv, Order
    <2>5. \A y \in 1..consumed : pending[y].id \in Settled
      BY DEF QueueInv, Progress
    <2> QED
      BY <2>3, <2>4, <2>5
  <1> QED
    BY <1>1, QueueKept, PTL DEF Spec, InOrder

-----------------------------------------------------------------------------
(* The counts.                                                             *)

LEMMA CountFacts ==
  ASSUME TypeOK
  PROVE  /\ failures \in [Clippings -> Nat] /\ MaxDeliveryAttempts \in Nat
         /\ DOMAIN file = 1..Len(file) /\ DOMAIN pending = 1..Len(pending)
         /\ Len(file) \in Nat /\ Len(pending) \in Nat
         /\ \A i \in DOMAIN pending : pending[i].id \in Clippings /\ pending[i].failCount \in Nat
  <1>1. \A e \in Entries : e.id \in Clippings /\ e.failCount \in Nat
    BY ConstantsAssumption DEF Entries
  <1> QED
    BY <1>1, ConstantsAssumption DEF TypeOK

LEMMA ReaderCounts == TypeOK /\ CountInv /\ Reader => CountInv'
  <1> SUFFICES ASSUME TypeOK, CountInv, NEW c \in Clippings, AppendLine(c) \/ AppendTorn(c) PROVE CountInv'
    BY DEF Reader
  <1>1. /\ UNCHANGED <<pending, consumed, failures, failed>> /\ pc' = "idle"
        /\ file' = file \/ \E l \in {Garbage, Line(c, 0)} : file' \in Appended(l)
    BY DEF AppendLine, AppendTorn, sync
  <1>2. Counted(file)'
    <2>1. CASE file' = file
      BY <1>1, <2>1 DEF CountInv, Counts, Counted
    <2>2. CASE \E l \in {Garbage, Line(c, 0)} : file' \in Appended(l)
      <3>1. PICK l \in {Garbage, Line(c, 0)} : file' \in Appended(l)
        BY <2>2
      <3>2. l \in Lines /\ (l.id = NoClipping \/ l.failCount = 0)
        BY NewLine, EntryFields DEF Lines
      <3>3. \A x \in DOMAIN file' : \/ x \in DOMAIN file /\ file'[x] = file[x]
                                    \/ file'[x] = Garbage \/ file'[x] = l
        <4>1. file' \in Seq(Lines) /\ DOMAIN file' = 1..Len(file')
          BY <3>1, <3>2, AppendedIs
        <4> QED
          BY <3>1, <3>2, <4>1, AppendedIs, CountFacts
      <3>4. \A x \in DOMAIN file' : file'[x].id \in Clippings => file'[x].failCount <= failures[file'[x].id]
        <4> SUFFICES ASSUME NEW x \in DOMAIN file', file'[x].id \in Clippings
                     PROVE  file'[x].failCount <= failures[file'[x].id]
          OBVIOUS
        <4>1. CASE x \in DOMAIN file /\ file'[x] = file[x]
          BY <4>1 DEF CountInv, Counts, Counted
        <4>2. CASE file'[x] = l /\ file'[x] # Garbage
          BY <3>2, <4>2, EntryFields, CountFacts
        <4> QED
          BY <3>3, <4>1, <4>2, EntryFields
      <3> QED
        BY <1>1, <3>4 DEF Counted
    <2> QED
      BY <1>1, <2>1, <2>2
  <1> QED
    BY <1>1, <1>2 DEF CountInv, Counts, Counted, GivenUpLate

LEMMA StartCounts == TypeOK /\ CountInv /\ StartSync => CountInv'
  <1> SUFFICES ASSUME TypeOK, CountInv, StartSync PROVE CountInv'
    OBVIOUS
  <1>1. PICK n \in 1..Len(file) : \E at \in [1..n -> Parsed(file)] :
          ReadAll(file, at) /\ pending' = [i \in 1..n |-> file[at[i]]]
    BY DEF StartSync
  <1>2. PICK at \in [1..n -> Parsed(file)] :
          ReadAll(file, at) /\ pending' = [i \in 1..n |-> file[at[i]]]
    BY <1>1
  <1>3. \A i \in 1..n : at[i] \in DOMAIN file /\ pending'[i] = file[at[i]]
    BY <1>2, ReadIs, CountFacts
  <1>4. DOMAIN pending' = 1..n
    BY <1>2
  <1>5. UNCHANGED <<file, failed, failures>> /\ pc' = "push"
    BY DEF StartSync, hist
  <1> QED
    BY <1>3, <1>4, <1>5 DEF CountInv, Counts, Counted, GivenUpLate

\* A failure is counted before it is final.
LEMMA FailCounts == TypeOK /\ CountInv /\ PushFails => CountInv'
  <1> SUFFICES ASSUME TypeOK, CountInv, PushFails PROVE CountInv'
    OBVIOUS
  <1>1. /\ Requesting /\ failures' = [failures EXCEPT ![Sending.id] = @ + 1]
        /\ UNCHANGED <<file, failed, consumed>>
    BY DEF PushFails, PushFailsAt, NotDelivered
  <1>2. /\ consumed + 1 \in 1..Len(pending) /\ Sending = pending[consumed + 1] /\ Sending.id \in Clippings
        /\ Sending.failCount \in Nat /\ Sending.failCount <= failures[Sending.id]
    BY <1>1, SendingIs, CountFacts DEF CountInv, Counts, Counted, Requesting
  <1>3. /\ \A c \in Clippings : failures'[c] \in Nat /\ failures'[c] >= failures[c] /\ failures[c] \in Nat
        /\ failures'[Sending.id] = failures[Sending.id] + 1
    BY <1>1, <1>2, CountFacts
  <1>4. Counted(file)'
    <2> SUFFICES ASSUME NEW x \in DOMAIN file, file[x].id \in Clippings
                 PROVE  file[x].failCount <= failures'[file[x].id]
      BY <1>1 DEF Counted
    <2>1. file[x].failCount <= failures[file[x].id] /\ file[x].failCount \in Nat
      <3>1. file[x] \in Lines
        BY DEF TypeOK
      <3> QED
        BY <3>1, ConstantsAssumption DEF CountInv, Counts, Counted, Lines, Entries, Garbage, Line
    <2> QED
      BY <1>3, <2>1
  <1>5. GivenUpLate'
    BY <1>1, <1>3, CountFacts DEF CountInv, GivenUpLate, TypeOK
  <1>6. CASE Sending.failCount + 1 < MaxDeliveryAttempts
    <2>1. pending' = [pending EXCEPT ![consumed + 1].failCount = @ + 1] /\ pc' = "write"
      BY <1>6 DEF PushFails, PushFailsAt
    <2>2. Counted(pending)'
      <3> SUFFICES ASSUME NEW x \in DOMAIN pending, pending'[x].id \in Clippings
                   PROVE  pending'[x].failCount <= failures'[pending'[x].id]
        BY <2>1 DEF Counted
      <3>1. CASE x = consumed + 1
        <4>1. pending'[x].id = Sending.id /\ pending'[x].failCount = Sending.failCount + 1
          <5>1. pending[x] \in Entries
            BY DEF TypeOK
          <5> QED
            BY <1>2, <2>1, <3>1, <5>1, CountFacts DEF Entries
        <4> QED
          BY <1>2, <1>3, <4>1
      <3>2. CASE x # consumed + 1
        <4>1. pending'[x] = pending[x] /\ pending[x].id \in Clippings /\ pending[x].failCount \in Nat
          BY <2>1, <3>2, CountFacts
        <4> QED
          BY <1>3, <4>1 DEF CountInv, Counts, Counted
      <3> QED
        BY <3>1, <3>2
    <2> QED
      BY <1>4, <1>5, <2>1, <2>2 DEF CountInv, Counts
  <1>7. CASE ~(Sending.failCount + 1 < MaxDeliveryAttempts)
    <2>1. UNCHANGED <<pending, consumed>> /\ pc' = "giveUp"
      BY <1>7 DEF PushFails, PushFailsAt
    <2>2. Counted(pending)'
      <3> SUFFICES ASSUME NEW x \in DOMAIN pending
                   PROVE  pending[x].failCount <= failures'[pending[x].id]
        BY <2>1 DEF Counted
      <3>1. pending[x].id \in Clippings /\ pending[x].failCount \in Nat /\ pending[x].failCount <= failures[pending[x].id]
        BY CountFacts DEF CountInv, Counts, Counted
      <3> QED
        BY <1>3, <3>1
    <2>3. failures'[Sending.id] >= MaxDeliveryAttempts /\ Sending' = Sending
      BY <1>2, <1>3, <1>7, <2>1, CountFacts DEF Sending
    <2> QED
      BY <1>4, <1>5, <2>1, <2>2, <2>3 DEF CountInv, Counts
  <1> QED
    BY <1>6, <1>7

LEMMA RenameCounts == QueueInv /\ CountInv /\ RenameTmp => CountInv'
  <1> SUFFICES ASSUME QueueInv, CountInv, RenameTmp PROVE CountInv'
    OBVIOUS
  <1>1. /\ file' = Remaining /\ pending' = <<>> /\ pc' = "idle" /\ UNCHANGED <<failures, failed>>
    BY DEF RenameTmp, Idle, QueueInv, Handover, hist
  <1>2. /\ consumed \in Nat /\ Len(pending) \in Nat /\ DOMAIN Remaining = 1..Len(Remaining)
        /\ Len(Remaining) = Len(pending) - consumed
        /\ \A i \in 1..Len(Remaining) : Remaining[i] = pending[consumed + i]
    BY RemainingIs DEF QueueInv, TypeOK
  <1>3. \A i \in 1..Len(Remaining) : consumed + i \in DOMAIN pending
    BY <1>2, CountFacts DEF QueueInv
  <1>4. Counted(file)'
    BY <1>1, <1>2, <1>3 DEF CountInv, Counts, Counted
  <1>5. DOMAIN pending' = {}
    BY <1>1
  <1> QED
    BY <1>1, <1>4, <1>5 DEF CountInv, Counts, Counted, GivenUpLate

LEMMA OtherCounts ==
  TypeOK /\ CountInv /\ (AnswerLost \/ PushOk \/ GiveUp \/ WriteTmp \/ RemovePending \/ Boot \/ Failure \/ UNCHANGED vars)
    => CountInv'
  <1> SUFFICES ASSUME TypeOK, CountInv,
                      AnswerLost \/ PushOk \/ GiveUp \/ WriteTmp \/ RemovePending \/ Boot \/ Failure \/ UNCHANGED vars
               PROVE  CountInv'
    OBVIOUS
  <1>1. /\ failures' = failures
        /\ (file' = file \/ file' = <<>>) /\ (pending' = pending \/ pending' = <<>>)
    BY DEF AnswerLost, PushOk, GiveUp, WriteTmp, RemovePending, Boot, Failure, vars, sync, hist, Done, Idle,
           WriteTmpFails, RemovePendingFails, RenameTmpFails, PowerLoss
  <1>2. pc' = "giveUp" => UNCHANGED vars
    BY DEF AnswerLost, PushOk, GiveUp, WriteTmp, RemovePending, Boot, Failure, Done, Idle,
           WriteTmpFails, RemovePendingFails, RenameTmpFails, PowerLoss
  <1>3. DOMAIN <<>> = {}
    OBVIOUS
  <1>4. Counted(file)' /\ Counted(pending)'
    BY <1>1, <1>3 DEF CountInv, Counts, Counted
  <1>5. pc' = "giveUp" => failures'[Sending'.id] >= MaxDeliveryAttempts
    BY <1>2 DEF vars, sync, hist, CountInv, Counts, Sending
  <1>6. failed' \subseteq failed \cup {c \in Clippings : failures[c] >= MaxDeliveryAttempts}
    <2>1. CASE GiveUp
      BY <2>1, SendingIs DEF GiveUp, CountInv, Counts
    <2>2. CASE ~GiveUp
      BY <2>2 DEF AnswerLost, PushOk, WriteTmp, RemovePending, Boot, Failure, vars,
           WriteTmpFails, RemovePendingFails, RenameTmpFails, PowerLoss
    <2> QED
      BY <2>1, <2>2
  <1> QED
    BY <1>1, <1>4, <1>5, <1>6 DEF CountInv, Counts, GivenUpLate

LEMMA CountStep == QueueInv /\ CountInv /\ [Next]_vars => CountInv'
  BY ReaderCounts, StartCounts, FailCounts, RenameCounts, OtherCounts DEF Next, Sync, QueueInv

\* No clipping is given up on before it has failed as often as is final, even
\* when syncs are cut short and counts are not written (syncPending).
THEOREM NotGivenUpEarly == Spec => []GivenUpLate
  <1>1. Init => CountInv
    <2>1. ASSUME Init PROVE DOMAIN file = {} /\ DOMAIN pending = {}
      BY <2>1 DEF Init
    <2> QED
      BY <2>1 DEF Init, CountInv, Counts, Counted, GivenUpLate
  <1>2. CountInv => GivenUpLate
    BY DEF CountInv
  <1> QED
    BY <1>1, <1>2, QueueInit, QueueStep, CountStep, PTL DEF Spec

-----------------------------------------------------------------------------
(* Once only.                                                              *)

\* The steps that are no faults.
LEMMA NoFaultSteps ==
  ASSUME TypeOK, [Next]_vars, faults' = 0
  PROVE  /\ faults = 0
         /\ \/ \E c \in Clippings : AppendLine(c)
            \/ StartSync \/ PushOk \/ (PushFails /\ UNCHANGED delivered) \/ GiveUp
            \/ WriteTmp \/ RemovePending \/ RenameTmp \/ Boot \/ UNCHANGED vars
  <1>1. \A D : ~Fault(D)
    BY DEF Fault, TypeOK
  <1> QED
    BY <1>1 DEF Next, Sync, AnswerLost, Failure, Reader, vars, AppendLine, AppendTorn, StartSync, PushOk, Requesting, PushFails,
       PushFailsAt, NotDelivered, NoFault, GiveUp, WriteTmp, RemovePending, RenameTmp, Boot,
       WriteTmpFails, RemovePendingFails, RenameTmpFails, PowerLoss, hist

LEMMA AppendOnce ==
  ASSUME QueueInv, OnceInv, faults = 0, faults' = 0, NEW c \in Clippings, AppendLine(c)
  PROVE  OnceInv'
  <1>1. /\ pc = "idle" /\ c \notin made /\ made' = made \cup {c} /\ pc' = "idle"
        /\ UNCHANGED <<pending, consumed, delivered>>
    BY DEF AppendLine, sync
  <1>2. /\ ~open /\ Distinct(file) /\ Distinct(pending)
        /\ \A d \in (Clippings \ made) \cup ToSend : delivered[d] = 0
        /\ \A d \in Ids(file) : delivered[d] = 0
    BY <1>1 DEF OnceInv, Once
  <1>3. ToSend' = ToSend
    BY <1>1 DEF ToSend
  <1>4. CASE file' = file /\ open' = open
    BY <1>1, <1>2, <1>3, <1>4 DEF OnceInv, Once, NoDuplicate, Distinct, Ids
  <1>5. CASE file' \in Appended(Line(c, 0)) /\ open' = FALSE
    <2>1. /\ file \in Seq(Lines) /\ Len(file) \in Nat /\ DOMAIN file = 1..Len(file)
      BY DEF QueueInv, TypeOK
    <2>2. /\ Len(file') = Len(file) + 1 /\ file'[Len(file) + 1] = Line(c, 0)
          /\ \A i \in 1..Len(file) : file'[i] = file[i]
          /\ DOMAIN file' = 1..(Len(file) + 1)
      <3>1. file' = Append(file, Line(c, 0))
        BY <1>2, <1>5 DEF Appended
      <3> QED
        BY <2>1, <3>1
    <2>3. \A i \in 1..Len(file) : file[i].id # c
      BY <1>1, <2>1, ConstantsAssumption DEF QueueInv, Known, Ids
    <2>4. Distinct(file)'
      <3> SUFFICES ASSUME NEW x \in DOMAIN file', NEW y \in DOMAIN file', file'[x].id = file'[y].id
                   PROVE  x = y
        BY DEF Distinct
      <3>1. CASE x \in 1..Len(file) /\ y \in 1..Len(file)
        BY <1>2, <2>1, <2>2, <3>1 DEF Distinct
      <3>2. CASE ~(x \in 1..Len(file) /\ y \in 1..Len(file))
        BY <2>1, <2>2, <2>3, <3>2, NewLine
      <3> QED
        BY <3>1, <3>2
    <2>5. \A d \in Ids(file)' : delivered[d] = 0
      <3>1. Ids(file)' \subseteq Ids(file) \cup {c}
        BY <2>1, <2>2, NewLine DEF Ids
      <3> QED
        BY <1>1, <1>2, <3>1
    <2> QED
      BY <1>1, <1>2, <1>3, <1>5, <2>4, <2>5 DEF OnceInv, Once, NoDuplicate, Distinct
  <1> QED
    BY <1>4, <1>5 DEF AppendLine

LEMMA StartOnce ==
  ASSUME QueueInv, OnceInv, faults = 0, StartSync
  PROVE  OnceInv'
  <1>0. TypeOK
    BY DEF QueueInv
  <1>1. PICK n \in 1..Len(file) : \E at \in [1..n -> Parsed(file)] :
          ReadAll(file, at) /\ pending' = [i \in 1..n |-> file[at[i]]]
    BY DEF StartSync
  <1>2. PICK at \in [1..n -> Parsed(file)] :
          ReadAll(file, at) /\ pending' = [i \in 1..n |-> file[at[i]]]
    BY <1>1
  <1>3. /\ \A i \in 1..n : at[i] \in 1..Len(file) /\ pending'[i] = file[at[i]]
        /\ \A i, j \in 1..n : i < j => at[i] < at[j]
        /\ Len(pending') = n /\ pending' \in Seq(Entries)
    BY <1>0, <1>2, ReadIs
  <1>4. DOMAIN pending' = 1..n /\ n \in Nat /\ DOMAIN file = 1..Len(file) /\ Len(file) \in Nat
    BY <1>0, <1>2, CountFacts
  <1>5. /\ pc = "idle" /\ pc' = "push" /\ consumed' = 0
        /\ UNCHANGED <<file, open, made, delivered, faults>>
    BY DEF StartSync, hist
  <1>6. /\ ~open /\ Distinct(file)
        /\ \A d \in Clippings \ made : delivered[d] = 0
        /\ \A d \in Ids(file) : delivered[d] = 0
    BY <1>5 DEF OnceInv, Once
  <1>7. Distinct(pending)'
    <2> SUFFICES ASSUME NEW x \in 1..n, NEW y \in 1..n, pending'[x].id = pending'[y].id PROVE x = y
      BY <1>4 DEF Distinct
    <2>1. at[x] = at[y]
      BY <1>3, <1>4, <1>6 DEF Distinct
    <2>2. at[x] \in Nat /\ at[y] \in Nat
      BY <1>3
    <2>3. ~(x < y) /\ ~(y < x)
      BY <1>3, <2>1, <2>2
    <2> QED
      BY <2>3
  <1>8. \A d \in ToSend' : delivered[d] = 0
    <2>1. ToSend' \subseteq Ids(file)
      <3> SUFFICES ASSUME NEW i \in 1..n PROVE pending'[i].id \in Ids(file)
        BY <1>3, <1>4, <1>5 DEF ToSend
      <3>1. pending'[i].id \in Clippings
        BY <1>3, <1>4, EntryFields
      <3> QED
        BY <1>3, <1>4, <3>1, ConstantsAssumption DEF Ids
    <2> QED
      BY <1>6, <2>1
  <1> QED
    BY <1>5, <1>6, <1>7, <1>8 DEF OnceInv, Once, NoDuplicate, Distinct

LEMMA Behind ==
  ASSUME NEW k \in Nat, NEW m \in Nat, m >= k, NEW n \in Nat
  PROVE  /\ (m + 1)..n \subseteq (k + 1)..n
         /\ (k + 1)..n \subseteq 1..n
  OBVIOUS

\* What the drain leaves behind it is no more to be sent.
LEMMA DrainOnce ==
  ASSUME QueueInv, OnceInv, faults = 0, PushOk \/ (PushFails /\ UNCHANGED delivered) \/ GiveUp
  PROVE  OnceInv'
  <1>0. TypeOK /\ TypeOK'
    BY PushTypes DEF QueueInv
  <1>1. /\ consumed + 1 \in 1..Len(pending) /\ Sending = pending[consumed + 1] /\ Sending.id \in Clippings
    BY <1>0, SendingIs DEF PushOk, Requesting, PushFails, PushFailsAt, NotDelivered, GiveUp
  <1>2. /\ ~open /\ pc # "off" /\ Distinct(file) /\ Distinct(pending)
        /\ \A d \in (Clippings \ made) \cup ToSend : delivered[d] = 0
    BY DEF OnceInv, Once
  <1>3. /\ consumed \in Nat /\ Len(pending) \in Nat /\ pending \in Seq(Entries)
        /\ DOMAIN pending = 1..Len(pending)
    BY <1>0 DEF TypeOK
  <1>4. Sending.id \in ToSend /\ Sending.id \in made
    <2>1. consumed + 1 \in (consumed + 1)..Len(pending)
      BY <1>1, <1>3
    <2>2. Sending.id \in Ids(pending)
      BY <1>1, <1>3, ConstantsAssumption DEF Ids
    <2> QED
      BY <1>1, <2>1, <2>2 DEF ToSend, QueueInv, Known
  <1>5. /\ UNCHANGED <<file, open, made>> /\ pc' \in {"push", "giveUp", "write", "remove"}
        /\ Len(pending') = Len(pending) /\ DOMAIN pending' = DOMAIN pending
        /\ \A i \in 1..Len(pending) : pending'[i].id = pending[i].id
    <2>1. CASE pending' = pending
      BY <2>1 DEF PushOk, Requesting, PushFails, PushFailsAt, NotDelivered, GiveUp, Done, hist
    <2>2. CASE PushFails /\ pending' = [pending EXCEPT ![consumed + 1].failCount = @ + 1]
      BY <1>1, <1>3, <2>2 DEF PushFails, PushFailsAt, NotDelivered, Entries
    <2> QED
      BY <2>1, <2>2 DEF PushOk, Requesting, PushFails, PushFailsAt, GiveUp
  <1>6. Distinct(pending)'
    BY <1>2, <1>3, <1>5 DEF Distinct
  <1>7. CASE delivered' = delivered
    <2>1. consumed' \in Nat /\ consumed' >= consumed
      BY <1>3 DEF PushOk, Requesting, PushFails, PushFailsAt, GiveUp, Done
    <2>2. ToSend' \subseteq ToSend
      <3> SUFFICES ASSUME NEW i \in (consumed' + 1)..Len(pending') PROVE pending'[i].id \in ToSend
        BY DEF ToSend
      <3>1. i \in (consumed + 1)..Len(pending) /\ i \in 1..Len(pending)
        <4>1. Len(pending') = Len(pending)
          BY <1>5
        <4>2. i \in (consumed' + 1)..Len(pending)
          BY <4>1
        <4>3. consumed \in Nat /\ Len(pending) \in Nat
          BY <1>3
        <4> QED
          BY <2>1, <4>2, <4>3, Behind
      <3> QED
        BY <1>5, <3>1 DEF ToSend
    <2> QED
      BY <1>2, <1>5, <1>6, <1>7, <2>2 DEF OnceInv, Once, NoDuplicate, Distinct
  <1>8. CASE PushOk
    <2>1. delivered' = [delivered EXCEPT ![Sending.id] = @ + 1] /\ consumed' = consumed + 1 /\ pending' = pending
      BY <1>8 DEF PushOk, Done
    <2>2. delivered \in [Clippings -> Nat]
      BY <1>0 DEF TypeOK
    <2>3. ToSend' \subseteq ToSend \ {Sending.id}
      <3> SUFFICES ASSUME NEW i \in (consumed + 2)..Len(pending)
                   PROVE  pending[i].id \in ToSend /\ pending[i].id # Sending.id
        BY <1>3, <2>1 DEF ToSend
      <3>1. i \in (consumed + 1)..Len(pending) /\ i \in DOMAIN pending /\ i # consumed + 1
        BY <1>3
      <3> QED
        BY <1>1, <1>2, <1>3, <3>1 DEF ToSend, Distinct
    <2>4. delivered[Sending.id] = 0
      BY <1>2, <1>4
    <2>5. \A d \in (Clippings \ made) \cup ToSend' : delivered'[d] = 0
      <3>1. ToSend \subseteq Clippings
        BY <1>3, EntryFields DEF ToSend
      <3> QED
        BY <1>2, <1>4, <2>1, <2>2, <2>3, <3>1
    <2>6. NoDuplicate'
      BY <2>1, <2>2, <2>4 DEF OnceInv, NoDuplicate, PushOk
    <2> QED
      BY <1>2, <1>5, <1>6, <2>5, <2>6 DEF OnceInv, Once, Distinct
  <1> QED
    BY <1>7, <1>8 DEF GiveUp, hist

LEMMA ReplaceOnce ==
  ASSUME QueueInv, OnceInv, faults = 0, WriteTmp \/ RemovePending \/ RenameTmp \/ Boot \/ UNCHANGED vars
  PROVE  OnceInv'
  <1>0. TypeOK
    BY DEF QueueInv
  <1>1. /\ ~open /\ pc # "off" /\ Distinct(file) /\ Distinct(pending)
        /\ \A d \in (Clippings \ made) \cup ToSend : delivered[d] = 0
        /\ (pc = "idle" => \A d \in Ids(file) : delivered[d] = 0)
    BY DEF OnceInv, Once
  <1>2. UNCHANGED <<made, delivered>>
    BY DEF WriteTmp, RemovePending, RenameTmp, Boot, vars, hist
  <1>3. DOMAIN <<>> = {} /\ Len(<<>>) = 0
    OBVIOUS
  <1>4. NoDuplicate'
    BY <1>2 DEF OnceInv, NoDuplicate, WriteTmp, RemovePending, RenameTmp, Boot, vars
  <1>5. CASE UNCHANGED vars \/ WriteTmp
    <2>1. UNCHANGED <<file, open, pending, consumed>> /\ (pc' = "idle" => pc = "idle") /\ pc' # "off"
      BY <1>1, <1>5 DEF vars, sync, WriteTmp
    <2> QED
      BY <1>1, <1>2, <1>4, <2>1 DEF OnceInv, Once, Distinct, ToSend, Ids
  <1>6. CASE RemovePending
    <2>1. file' = <<>> /\ open' = FALSE /\ pc' # "off"
          /\ ((pending' = <<>> /\ consumed' = 0) \/ UNCHANGED <<pending, consumed>>)
      BY <1>6 DEF RemovePending, Idle
    <2>2. Distinct(file)' /\ Ids(file)' = {}
      BY <1>3, <2>1 DEF Distinct, Ids
    <2>3. Distinct(pending)' /\ ToSend' \subseteq ToSend
      BY <1>1, <1>3, <2>1 DEF Distinct, ToSend
    <2> QED
      BY <1>1, <1>2, <1>4, <2>1, <2>2, <2>3 DEF OnceInv, Once
  <1>7. CASE RenameTmp
    <2>1. file' = Remaining /\ open' = open /\ pc' = "idle" /\ pending' = <<>> /\ consumed' = 0
      BY <1>7 DEF RenameTmp, Idle, QueueInv, Handover
    <2>2. Distinct(pending)' /\ ToSend' = {}
      BY <1>3, <2>1 DEF Distinct, ToSend
    <2>3. \A d \in Ids(file)' : delivered[d] = 0
      BY <1>1, <2>1, RemainingLines
    <2>4. Distinct(file)'
      <3>1. /\ DOMAIN Remaining = 1..Len(Remaining) /\ Len(Remaining) = Len(pending) - consumed
            /\ \A i \in 1..Len(Remaining) : Remaining[i] = pending[consumed + i]
            /\ consumed \in Nat /\ Len(pending) \in Nat /\ DOMAIN pending = 1..Len(pending)
        BY <1>0, RemainingIs, CountFacts DEF TypeOK
      <3> SUFFICES ASSUME NEW x \in 1..Len(Remaining), NEW y \in 1..Len(Remaining),
                          Remaining[x].id = Remaining[y].id
                   PROVE  x = y
        BY <2>1, <3>1 DEF Distinct
      <3>2. consumed + x \in DOMAIN pending /\ consumed + y \in DOMAIN pending
        BY <3>1
      <3>3. consumed + x = consumed + y
        BY <1>1, <3>1, <3>2 DEF Distinct
      <3> QED
        BY <3>1, <3>3
    <2> QED
      BY <1>1, <1>2, <1>4, <2>1, <2>2, <2>3, <2>4 DEF OnceInv, Once
  <1> QED
    BY <1>1, <1>5, <1>6, <1>7 DEF Boot

LEMMA OnceStep == QueueInv /\ OnceInv /\ [Next]_vars => OnceInv'
  <1> SUFFICES ASSUME QueueInv, OnceInv, [Next]_vars PROVE OnceInv'
    OBVIOUS
  <1>1. CASE faults' = 0
    <2>1. TypeOK
      BY DEF QueueInv
    <2> QED
      BY <1>1, <2>1, NoFaultSteps, AppendOnce, StartOnce, DrainOnce, ReplaceOnce
  <1>2. CASE faults' # 0
    BY <1>2 DEF OnceInv, Once, NoDuplicate
  <1> QED
    BY <1>1, <1>2

\* As long as nothing fails the target gets each clipping once, in however many
\* syncs (replaceAll writes what the drain has not consumed).
THEOREM DeliveredOnce == Spec => []NoDuplicate
  <1>1. Init => OnceInv
    <2> SUFFICES ASSUME Init PROVE OnceInv
      OBVIOUS
    <2>1. DOMAIN file = {} /\ DOMAIN pending = {} /\ Len(pending) = 0
      BY DEF Init
    <2>2. ToSend = {} /\ Ids(file) = {}
      BY <2>1 DEF Init, ToSend, Ids
    <2> QED
      BY <2>1, <2>2 DEF Init, OnceInv, Once, NoDuplicate, Distinct
  <1>2. OnceInv => NoDuplicate
    BY DEF OnceInv
  <1> QED
    BY <1>1, <1>2, QueueInit, QueueStep, OnceStep, PTL DEF Spec

-----------------------------------------------------------------------------
(* The queue implements Outbox.  By NothingVanishes what waits is exactly   *)
(* what was saved and is not settled, so a step of the code is a step of    *)
(* the abstract queue as soon as it settles what that step may settle.      *)

\* Only what was made is delivered or given up on.
Marked == \A c \in Clippings : delivered[c] > 0 \/ c \in failed => c \in made

LEMMA WaitingIs == TypeOK /\ NothingVanishes => Waiting = ToSet(saved) \ Settled
  <1> SUFFICES ASSUME TypeOK, NothingVanishes PROVE Waiting = ToSet(saved) \ Settled
    OBVIOUS
  <1>1. ToSet(saved) \subseteq Clippings /\ delivered \in [Clippings -> Nat]
    <2>1. \A c \in ToSet(saved) : c \in Clippings
      BY SeqFacts
    <2> QED
      BY <2>1 DEF TypeOK
  <1>2. \A c \in ToSet(saved) : delivered[c] = 0 <=> ~(delivered[c] > 0)
    BY <1>1
  <1>3. \A c \in ToSet(saved) \ Settled : c \in Queued
    BY <1>1 DEF NothingVanishes, Settled
  <1> QED
    BY <1>1, <1>2, <1>3 DEF Waiting, Settled

\* What stands behind the entries the sync is done with is next in turn.
LEMMA InTurn ==
  ASSUME QueueInv, pc \in {"push", "fallback", "giveUp"}
  PROVE  Sending.id \in Clippings /\ Sending.id \in made /\ Box!Turn(Sending.id)
  <1>1. TypeOK /\ Waiting = ToSet(saved) \ Settled
    BY WaitingIs DEF QueueInv
  <1>2. /\ Sending.id \in Clippings /\ Sending = pending[consumed + 1]
        /\ consumed + 1 \in 1..Len(pending) /\ consumed \in Nat
        /\ DOMAIN pending = 1..Len(pending)
        /\ Ids(pending) = {pending[i].id : i \in 1..Len(pending)}
    BY <1>1, SendingIs, SeqFacts
  <1>3. Sending.id \in made
    BY <1>2 DEF QueueInv, Known
  <1>4. ASSUME NEW i \in DOMAIN saved, NEW j \in DOMAIN saved, i < j, saved[j] = Sending.id
        PROVE  saved[i] \notin Waiting
    <2>1. i \in 1..(j - 1)
      BY <1>1, <1>4, SeqFacts
    <2>2. saved[i] \in Settled \/ \E y \in 1..(consumed + 1 - 1) : pending[y].id = saved[i]
      BY <1>2, <1>4, <2>1 DEF QueueInv, Order
    <2>3. saved[i] \in Settled
      BY <1>2, <2>2 DEF QueueInv, Progress
    <2> QED
      BY <1>1, <2>3
  <1> QED
    BY <1>2, <1>3, <1>4 DEF Box!Turn

LEMMA MarkedStep == QueueInv /\ Marked /\ [Next]_vars => Marked'
  <1> SUFFICES ASSUME QueueInv, Marked, [Next]_vars, NEW c \in Clippings,
                      delivered'[c] > 0 \/ c \in failed'
               PROVE  c \in made'
    BY DEF Marked
  <1>1. TypeOK /\ made \subseteq made'
    BY DEF QueueInv, Next, Sync, AnswerLost, Failure, Reader, AppendLine, AppendTorn, StartSync, PushOk, Requesting, PushFails,
       PushFailsAt, NotDelivered, GiveUp, WriteTmp, RemovePending, RenameTmp, Boot, WriteTmpFails,
       RemovePendingFails, RenameTmpFails, PowerLoss, vars, hist
  <1>2. CASE AnswerLost \/ PushOk \/ PushFails \/ GiveUp
    <2>1. Sending.id \in made
      BY <1>2, InTurn DEF AnswerLost, PushOk, Requesting, PushFails, PushFailsAt, NotDelivered, GiveUp
    <2>2. \/ UNCHANGED delivered
          \/ delivered' = [delivered EXCEPT ![Sending.id] = @ + 1]
      BY <1>2 DEF AnswerLost, PushOk, Requesting, PushFails, PushFailsAt, NotDelivered, GiveUp, hist
    <2>3. failed' \subseteq failed \cup {Sending.id}
      BY <1>2 DEF AnswerLost, PushOk, Requesting, PushFails, PushFailsAt, NotDelivered, GiveUp
    <2>4. c = Sending.id \/ delivered'[c] = delivered[c]
      BY <1>1, <2>2 DEF TypeOK
    <2> QED
      BY <1>1, <2>1, <2>3, <2>4 DEF Marked
  <1>3. CASE UNCHANGED <<delivered, failed>>
    BY <1>1, <1>3 DEF Marked
  <1> QED
    BY <1>2, <1>3 DEF Next, Sync, AnswerLost, Failure, Reader, AppendLine, AppendTorn, StartSync, WriteTmp,
       RemovePending, RenameTmp, Boot, WriteTmpFails, RemovePendingFails, RenameTmpFails, PowerLoss,
       vars, hist

\* What waits before and after a step.
LEMMA WaitingMoves ==
  ASSUME TypeOK, NothingVanishes, TypeOK', NothingVanishes'
  PROVE  Waiting = ToSet(saved) \ Settled /\ Waiting' = ToSet(saved') \ Settled'
  <1>1. Waiting = ToSet(saved) \ Settled
    BY WaitingIs
  <1>2. (TypeOK /\ NothingVanishes => Waiting = ToSet(saved) \ Settled)'
    BY WaitingIs, PTL
  <1> QED
    BY <1>1, <1>2

\* A step that settles nothing, or settles by a failure alone.
LEMMA OnlyDamage ==
  ASSUME TypeOK, NothingVanishes, TypeOK', NothingVanishes',
         UNCHANGED <<saved, delivered, failures, failed>>, lost \subseteq lost', faults' # 0
  PROVE  Box!Next
  <1>1. Waiting' = Waiting \ lost'
    BY WaitingMoves DEF Settled
  <1> QED
    BY <1>1 DEF Box!Next, Box!Damage

LEMMA NothingSeen ==
  ASSUME TypeOK, NothingVanishes, TypeOK', NothingVanishes',
         UNCHANGED <<saved, delivered, failures, failed, lost, faults>>
  PROVE  UNCHANGED Box!vars
  <1>1. Waiting' = Waiting
    BY WaitingMoves DEF Settled
  <1> QED
    BY <1>1 DEF Box!vars

LEMMA BoxReader ==
  ASSUME QueueInv, QueueInv', OnceInv, Marked, NEW c \in Clippings, AppendLine(c) \/ AppendTorn(c)
  PROVE  [Box!Next]_(Box!vars)
  <1>0. TypeOK /\ NothingVanishes /\ TypeOK' /\ NothingVanishes' /\ Known
    BY DEF QueueInv
  <1>1. CASE AppendTorn(c)
    BY <1>0, <1>1, SpoiltIn, FaultCounts, OnlyDamage DEF AppendTorn, hist
  <1>2. CASE AppendLine(c) /\ Len(file) >= MaxPending
    BY <1>0, <1>2, NothingSeen DEF AppendLine
  <1>3. CASE AppendLine(c) /\ ~(Len(file) >= MaxPending)
    <2>1. /\ c \notin made /\ saved' = Append(saved, c) /\ lost' = lost \cup Spoilt(c)
          /\ UNCHANGED <<delivered, failures, failed, faults>>
      BY <1>3 DEF AppendLine
    <2>2. c \notin ToSet(saved) /\ c \notin Settled \ lost
      BY <1>0, <2>1 DEF Known, Marked, Settled
    <2>3. \A i \in DOMAIN saved : saved[i] # c
      BY <2>2 DEF ToSet
    <2>4. ToSet(saved') = ToSet(saved) \cup {c}
      <3>1. saved \in Seq(Clippings) /\ saved' = Append(saved, c)
        BY <1>0, <2>1 DEF TypeOK
      <3>2. /\ Len(saved) \in Nat /\ DOMAIN saved = 1..Len(saved)
            /\ DOMAIN saved' = 1..(Len(saved) + 1) /\ saved'[Len(saved) + 1] = c
            /\ \A i \in 1..Len(saved) : saved'[i] = saved[i]
        BY <3>1
      <3> QED
        BY <3>2 DEF ToSet
    <2>5. Waiting' = (Waiting \cup {c}) \ lost'
      BY <1>0, <2>1, <2>2, <2>4, WaitingMoves DEF Settled
    <2>6. (faults' = 0) => faults = 0 /\ lost' = lost
      BY <2>1 DEF OnceInv, Once, Spoilt
    <2>7. Box!Take(c) /\ lost \subseteq lost'
      BY <2>1, <2>3, <2>5 DEF Box!Take
    <2> QED
      BY <2>6, <2>7 DEF Box!Next
  <1> QED
    BY <1>1, <1>2, <1>3

LEMMA BoxPush ==
  ASSUME QueueInv, QueueInv', OnceInv', AnswerLost \/ PushOk \/ PushFails
  PROVE  [Box!Next]_(Box!vars)
  <1> DEFINE c == Sending.id
  <1>0. TypeOK /\ NothingVanishes /\ TypeOK' /\ NothingVanishes' /\ Requesting
    BY DEF QueueInv, Requesting, AnswerLost, PushOk, Requesting, PushFails, PushFailsAt, NotDelivered
  <1>1. c \in Clippings /\ Box!Turn(c)
    BY <1>0, InTurn DEF QueueInv, Requesting
  <1>2. /\ UNCHANGED <<saved, failed>>
        /\ \/ /\ delivered' = [delivered EXCEPT ![c] = @ + 1] /\ UNCHANGED <<failures, lost, faults>>
           \/ /\ failures' = [failures EXCEPT ![c] = @ + 1]
              /\ UNCHANGED <<delivered, lost, faults>>
           \/ /\ UNCHANGED failures \/ failures' = [failures EXCEPT ![c] = @ + 1]
              /\ delivered' = [delivered EXCEPT ![c] = @ + 1] /\ Fault({})
    BY DEF AnswerLost, PushOk, Requesting, PushFails, PushFailsAt, NotDelivered, NoFault
  <1>3. CASE UNCHANGED <<delivered, lost, faults>> /\ failures' = [failures EXCEPT ![c] = @ + 1]
    <2>1. Waiting' = Waiting
      BY <1>0, <1>2, <1>3, WaitingMoves DEF Settled
    <2>2. Box!Refuse(c)
      BY <1>1, <1>2, <1>3, <2>1 DEF Box!Refuse
    <2> QED
      BY <1>1, <1>3, <2>2 DEF Box!Next
  <1>4. CASE /\ delivered' = [delivered EXCEPT ![c] = @ + 1]
             /\ \/ UNCHANGED <<failures, lost, faults>>
                \/ UNCHANGED failures /\ Fault({})
                \/ failures' = [failures EXCEPT ![c] = @ + 1] /\ Fault({})
    <2>0. Fault({}) => faults' # 0 /\ lost' = lost
      BY <1>0, FaultCounts
    <2>1. /\ delivered'[c] = delivered[c] + 1 /\ delivered[c] \in Nat
          /\ \A d \in Clippings : d # c => delivered'[d] = delivered[d]
      BY <1>0, <1>1, <1>4 DEF TypeOK
    <2>2. lost' = lost /\ (faults' = 0 => faults = 0)
      BY <1>4, <2>0
    <2>3. UNCHANGED failures \/ (faults' # 0 /\ failures' = [failures EXCEPT ![c] = @ + 1])
      BY <1>4, <2>0
    <2>4. faults' = 0 => delivered[c] = 0
      BY <1>1, <2>1 DEF OnceInv, NoDuplicate
    <2>5. Settled' = Settled \cup {c}
      BY <1>1, <1>2, <2>1, <2>2 DEF Settled
    <2>6. Waiting' = Waiting \ {c}
      BY <1>0, <1>2, <2>5, WaitingMoves
    <2>7. Box!Deliver(c)
      BY <1>1, <1>2, <1>4, <2>2, <2>3, <2>4, <2>6 DEF Box!Deliver
    <2> QED
      BY <1>1, <2>2, <2>7 DEF Box!Next
  <1> QED
    BY <1>2, <1>3, <1>4

LEMMA BoxGiveUp ==
  ASSUME QueueInv, QueueInv', CountInv, GiveUp
  PROVE  [Box!Next]_(Box!vars)
  <1> DEFINE c == Sending.id
  <1>0. TypeOK /\ NothingVanishes /\ TypeOK' /\ NothingVanishes' /\ pc = "giveUp"
    BY DEF QueueInv, GiveUp
  <1>1. c \in Clippings /\ Box!Turn(c)
    BY <1>0, InTurn
  <1>2. CASE failed' = failed \cup {c} /\ UNCHANGED <<saved, delivered, failures, lost, faults>>
    <2>1. failures[c] >= MaxDeliveryAttempts
      BY <1>0 DEF CountInv, Counts
    <2>2. Waiting' = Waiting \ {c}
      BY <1>0, <1>2, WaitingMoves DEF Settled
    <2>3. Box!GiveUp(c)
      BY <1>1, <1>2, <2>1, <2>2 DEF Box!GiveUp
    <2> QED
      BY <1>1, <1>2, <2>3 DEF Box!Next
  <1>3. CASE Fault({c}) /\ UNCHANGED <<saved, delivered, failures, failed>>
    BY <1>0, <1>1, <1>3, FaultCounts, OnlyDamage
  <1> QED
    BY <1>2, <1>3 DEF GiveUp, NoFault, hist

LEMMA BoxFailure ==
  ASSUME QueueInv, QueueInv', Failure
  PROVE  Box!Next
  <1>0. TypeOK /\ NothingVanishes /\ TypeOK' /\ NothingVanishes'
    BY DEF QueueInv
  <1>1. \E D \in {{}, Ids(tmp)} : Fault(D)
    BY DEF Failure, WriteTmpFails, RemovePendingFails, RenameTmpFails, PowerLoss
  <1>2. Ids(tmp) \subseteq Clippings
    BY <1>0, IdsIn DEF TypeOK
  <1>3. lost \subseteq lost' /\ faults' # 0
    BY <1>0, <1>1, <1>2, FaultCounts
  <1> QED
    BY <1>0, <1>3, OnlyDamage DEF Failure, WriteTmpFails, RemovePendingFails, RenameTmpFails, PowerLoss, hist

LEMMA BoxStep ==
  ASSUME QueueInv, QueueInv', CountInv, OnceInv, OnceInv', Marked, [Next]_vars
  PROVE  [Box!Next]_(Box!vars)
  <1>1. CASE Reader
    BY <1>1, BoxReader DEF Reader
  <1>2. CASE AnswerLost \/ PushOk \/ PushFails
    BY <1>2, BoxPush
  <1>3. CASE GiveUp
    BY <1>3, BoxGiveUp
  <1>4. CASE Failure
    BY <1>4, BoxFailure
  <1>5. CASE StartSync \/ WriteTmp \/ RemovePending \/ RenameTmp \/ Boot \/ UNCHANGED vars
    BY <1>5, NothingSeen
       DEF QueueInv, StartSync, WriteTmp, RemovePending, RenameTmp, Boot, vars, hist
  <1> QED
    BY <1>1, <1>2, <1>3, <1>4, <1>5 DEF Next, Sync

\* The queue file with all its rewrites, failures and losses of power is a queue
\* from which clippings go in turn, delivered or tried often enough
\* (append, replaceAll, syncPending).
THEOREM OutboxKept == Spec => OutboxRefined
  <1>1. Init => Box!Init /\ CountInv /\ OnceInv /\ Marked
    <2> SUFFICES ASSUME Init PROVE Box!Init /\ CountInv /\ OnceInv /\ Marked
      OBVIOUS
    <2>1. DOMAIN file = {} /\ DOMAIN pending = {} /\ Len(pending) = 0 /\ ToSet(saved) = {}
      BY DEF Init, ToSet
    <2>2. ToSend = {} /\ Ids(file) = {}
      BY <2>1 DEF Init, ToSend, Ids
    <2>3. Box!Init
      BY <2>1 DEF Init, Box!Init, Waiting
    <2>4. CountInv /\ OnceInv /\ Marked
      BY <2>1, <2>2 DEF Init, CountInv, Counts, Counted, GivenUpLate, OnceInv, Once, NoDuplicate,
         Distinct, Marked
    <2> QED
      BY <2>3, <2>4
  <1>2. QueueInv /\ QueueInv' /\ CountInv /\ OnceInv /\ OnceInv' /\ Marked /\ [Next]_vars
        => [Box!Next]_(Box!vars)
    BY BoxStep
  <1> QED
    BY <1>1, <1>2, QueueInit, QueueStep, CountStep, OnceStep, MarkedStep, PTL
       DEF Spec, OutboxRefined, Box!Spec
=============================================================================
