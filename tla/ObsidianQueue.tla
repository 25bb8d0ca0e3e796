---------------------------- MODULE ObsidianQueue ----------------------------
(***************************************************************************)
(* The clippings on their way to Obsidian: the queue file of               *)
(* lib/ObsidianSync/ObsidianPendingQueue.cpp and the drain of              *)
(* ObsidianSyncClient::syncPending.                                        *)
(*                                                                         *)
(* The reader appends one line per clipping.  A sync reads the whole file, *)
(* sends the clippings in order, stops at the first failure that is not    *)
(* yet final, and rewrites the file without the ones it is done with.      *)
(* Card operations fail and power is lost between any two of them.         *)
(***************************************************************************)
EXTENDS Naturals, Sequences, SequencesExt

CONSTANTS
  Clippings,
  NoClipping,          \* what a line that does not parse stands for
  MaxDeliveryAttempts, \* MAX_DELIVERY_ATTEMPTS
  MaxPending,          \* MAX_PENDING_BYTES, in lines
  MaxFaults            \* bound on the faults

ASSUME ConstantsAssumption ==
  /\ NoClipping \notin Clippings
  /\ MaxDeliveryAttempts \in Nat \ {0}
  /\ MaxPending \in Nat /\ MaxFaults \in Nat

Line(c, fails) == [id |-> c, failCount |-> fails]
Garbage        == Line(NoClipping, 0)

VARIABLES
  file,      \* the lines of obsidian-pending.jsonl
  open,      \* the last line has no newline
  tmp,       \* the lines of obsidian-pending.tmp
  failed,    \* the clippings in obsidian-failed.jsonl
  pending,   \* what the running sync read
  consumed,  \* how many of them it is done with
  pc,        \* the next step of the sync
  made,      \* history: the clippings made so far
  saved,     \* history: those append returned true for, in order
  delivered, \* history: how often the target accepted each
  failures,  \* history: how often each failed to be delivered
  lost,      \* history: those hit by damage the code does not repair
  faults     \* faults so far

sync  == <<pending, consumed, pc>>
hist  == <<made, saved, delivered, failures>>
vars  == <<file, open, tmp, failed, sync, hist, lost, faults>>

-----------------------------------------------------------------------------
Ids(lines) == {lines[i].id : i \in DOMAIN lines} \ {NoClipping}

\* readAll: at names the lines that parse, in the order of the file.
Parsed(lines) == {i \in DOMAIN lines : lines[i] # Garbage}

ReadAll(lines, at) ==
  /\ \A i, j \in DOMAIN at : i < j => at[i] < at[j]
  /\ ToSet(at) = Parsed(lines)

\* What the running sync sends next, and all it has not sent.
Sending   == pending[consumed + 1]
Remaining == SubSeq(pending, consumed + 1, Len(pending))

NoFault  == UNCHANGED <<lost, faults>>
Fault(D) == faults < MaxFaults /\ faults' = faults + 1 /\ lost' = lost \cup D

\* A line written behind a line without its newline becomes a part of it: the
\* parser reads what was there before, or nothing.
Appended(l) ==
  IF open THEN {file, [file EXCEPT ![Len(file)] = Garbage]} ELSE {Append(file, l)}

\* Such a write makes unreadable the line before it, or itself.
Spoilt(c) == IF open THEN ({c} \cup Ids(file)) \ Ids(file') ELSE {}

Idle == pc' = "idle" /\ pending' = <<>> /\ consumed' = 0

Init ==
  /\ file = <<>> /\ open = FALSE /\ tmp = <<>> /\ failed = {}
  /\ pending = <<>> /\ consumed = 0 /\ pc = "idle"
  /\ made = {} /\ saved = <<>>
  /\ delivered = [c \in Clippings |-> 0]
  /\ failures = [c \in Clippings |-> 0]
  /\ lost = {} /\ faults = 0

-----------------------------------------------------------------------------
(* append, when a clipping is saved in the reader.                         *)

\* At its cap the queue takes no more clippings.
AppendLine(c) ==
  /\ pc = "idle" /\ c \notin made
  /\ made' = made \cup {c}
  /\ IF Len(file) >= MaxPending
     THEN UNCHANGED <<file, open, saved, lost>>
     ELSE /\ file' \in Appended(Line(c, 0)) /\ open' = FALSE
          /\ saved' = Append(saved, c)
          /\ lost' = lost \cup Spoilt(c)
  /\ UNCHANGED <<tmp, failed, sync, delivered, failures, faults>>

\* The write stops half way, or right before the newline; power may be lost.
AppendTorn(c) ==
  /\ pc = "idle" /\ c \notin made /\ Len(file) < MaxPending
  /\ \E l \in {Garbage, Line(c, 0)} : file' \in Appended(l)
  /\ Fault(Spoilt(c))
  /\ made' = made \cup {c}
  /\ open' = TRUE
  /\ UNCHANGED <<tmp, failed, sync, saved, delivered, failures>>

-----------------------------------------------------------------------------
(* syncPending.                                                            *)

StartSync ==
  /\ pc = "idle"
  /\ \E n \in 1..Len(file) : \E at \in [1..n -> Parsed(file)] :
       ReadAll(file, at) /\ pending' = [i \in 1..n |-> file[at[i]]]
  /\ consumed' = 0 /\ pc' = "push"
  /\ UNCHANGED <<file, open, tmp, failed, hist, lost, faults>>

\* The loop is done with n entries of p: on to the next, or to replaceAll.
Done(n, p) ==
  /\ consumed' = n
  /\ pc' = IF n < Len(p) THEN "push" ELSE "remove"

\* An attempt is under way, to the address or to the fallback address.
Requesting == pc \in {"push", "fallback"}

\* The address takes the clipping and its answer is lost: the same attempt goes on to the
\* fallback address (withFallback).
AnswerLost ==
  /\ pc = "push" /\ Fault({})
  /\ delivered' = [delivered EXCEPT ![Sending.id] = @ + 1]
  /\ pc' = "fallback"
  /\ UNCHANGED <<file, open, tmp, failed, pending, consumed, made, saved, failures>>

PushOk ==
  /\ Requesting
  /\ delivered' = [delivered EXCEPT ![Sending.id] = @ + 1]
  /\ Done(consumed + 1, pending)
  /\ UNCHANGED <<file, open, tmp, failed, pending, made, saved, failures, lost, faults>>

\* The clipping is not accepted; or it is, and the answer is lost.
NotDelivered ==
  /\ Requesting
  /\ failures' = [failures EXCEPT ![Sending.id] = @ + 1]
  /\ \/ UNCHANGED delivered /\ NoFault
     \/ delivered' = [delivered EXCEPT ![Sending.id] = @ + 1] /\ Fault({})
  /\ UNCHANGED <<file, open, tmp, failed, made, saved>>

\* A sync that goes on behind a clipping it could not send.
PushFailsSkips ==
  /\ NotDelivered
  /\ Done(consumed + 1, pending)
  /\ UNCHANGED pending

\* A failure that is not counted.
PushFailsForEver ==
  /\ Requesting /\ pc' = "write"
  /\ UNCHANGED <<file, open, tmp, failed, pending, consumed, hist, lost, faults>>

PushFailsAt(attempts) ==
  /\ NotDelivered
  /\ IF Sending.failCount + 1 < attempts
     THEN /\ pending' = [pending EXCEPT ![consumed + 1].failCount = @ + 1]
          /\ pc' = "write" /\ UNCHANGED consumed
     ELSE pc' = "giveUp" /\ UNCHANGED <<pending, consumed>>

\* One attempt too many.
PushFailsLate == PushFailsAt(MaxDeliveryAttempts + 1)

\* The count is bumped and the drain stops, until the count is final.
PushFails == PushFailsAt(MaxDeliveryAttempts)

\* A give-up that writes no record.
GiveUpSilently ==
  /\ pc = "giveUp"
  /\ Done(consumed + 1, pending)
  /\ UNCHANGED <<file, open, tmp, failed, pending, hist, lost, faults>>

\* appendFailed; its result is ignored.
GiveUp ==
  /\ pc = "giveUp"
  /\ \/ failed' = failed \cup {Sending.id} /\ NoFault
     \/ Fault({Sending.id}) /\ UNCHANGED failed
  /\ Done(consumed + 1, pending)
  /\ UNCHANGED <<file, open, tmp, pending, hist>>

-----------------------------------------------------------------------------
(* replaceAll.                                                             *)

\* The temporary file still holds the entry the drain stopped behind.
WriteTmpOneTooMany ==
  /\ pc = "write"
  /\ tmp' = SubSeq(pending, IF consumed = 0 THEN 1 ELSE consumed, Len(pending))
  /\ pc' = "remove"
  /\ UNCHANGED <<file, open, failed, pending, consumed, hist, lost, faults>>

WriteTmp ==
  /\ pc = "write"
  /\ tmp' = Remaining
  /\ pc' = "remove"
  /\ UNCHANGED <<file, open, failed, pending, consumed, hist, lost, faults>>

WriteTmpFails ==
  /\ pc = "write" /\ Fault({})
  /\ Idle
  /\ UNCHANGED <<file, open, tmp, failed, hist>>

\* The queue file goes first: nothing is left to do when the queue is empty.
RemovePending ==
  /\ pc = "remove"
  /\ file' = <<>> /\ open' = FALSE
  /\ IF Remaining = <<>> THEN Idle ELSE pc' = "rename" /\ UNCHANGED <<pending, consumed>>
  /\ UNCHANGED <<tmp, failed, hist, lost, faults>>

\* The old file stays, and the rename onto it fails as well.
RemovePendingFails ==
  /\ pc = "remove" /\ Fault({})
  /\ Idle
  /\ UNCHANGED <<file, open, tmp, failed, hist>>

RenameTmp ==
  /\ pc = "rename"
  /\ file' = tmp /\ tmp' = <<>>
  /\ Idle
  /\ UNCHANGED <<open, failed, hist, lost, faults>>

\* Nothing ever reads the temporary file again.
RenameTmpFails ==
  /\ pc = "rename" /\ Fault(Ids(tmp))
  /\ Idle
  /\ UNCHANGED <<file, open, tmp, failed, hist>>

-----------------------------------------------------------------------------
PowerLoss ==
  /\ pc \notin {"idle", "off"}
  /\ Fault(IF pc = "rename" THEN Ids(tmp) ELSE {})
  /\ pc' = "off"
  /\ UNCHANGED <<file, open, tmp, failed, pending, consumed, hist>>

\* A left-over temporary file is not looked at.
Boot ==
  /\ pc = "off"
  /\ Idle
  /\ UNCHANGED <<file, open, tmp, failed, hist, lost, faults>>

Sync ==
  \/ StartSync \/ PushOk \/ PushFails \/ GiveUp
  \/ WriteTmp \/ RemovePending \/ RenameTmp \/ Boot

Failure ==
  WriteTmpFails \/ RemovePendingFails \/ RenameTmpFails \/ PowerLoss

Reader == \E c \in Clippings : AppendLine(c) \/ AppendTorn(c)

Next == Sync \/ AnswerLost \/ Failure \/ Reader

Spec == Init /\ [][Next]_vars

\* The user goes on syncing, and a request that was sent ends.
FairSpec == Spec /\ WF_vars(Sync)

-----------------------------------------------------------------------------
Entries == [id : Clippings, failCount : 0..(MaxDeliveryAttempts - 1)]
Lines   == Entries \cup {Garbage}

TypeOK ==
  /\ file \in Seq(Lines) /\ tmp \in Seq(Lines)
  /\ pending \in Seq(Entries)
  /\ open \in BOOLEAN /\ (open => file # <<>>)
  /\ failed \subseteq Clippings /\ made \subseteq Clippings /\ lost \subseteq Clippings
  /\ consumed \in 0..Len(pending)
  /\ pc \in {"idle", "push", "fallback", "giveUp", "write", "remove", "rename", "off"}
  /\ pc \in {"push", "fallback", "giveUp", "write"} => consumed < Len(pending)
  /\ saved \in Seq(Clippings)
  /\ delivered \in [Clippings -> Nat] /\ failures \in [Clippings -> Nat]
  /\ faults \in 0..MaxFaults

\* The clippings in the queue, while replaceAll renames the file included.
Queued == Ids(file) \cup (IF pc = "rename" THEN Ids(tmp) ELSE {})

\* A clipping the queue took is delivered, recorded as given up, or still in
\* the queue, whatever failed in between; the exceptions are the damages in
\* lost.  (syncPending: "nothing already-delivered is lost and nothing unsent
\* is skipped over".)
NothingVanishes ==
  \A c \in ToSet(saved) \ lost : delivered[c] > 0 \/ c \in failed \cup Queued

\* A clipping is only given up on after MAX_DELIVERY_ATTEMPTS failures of its
\* own, even when syncs are cut short and counts are not written.
GivenUpLate == \A c \in failed : failures[c] >= MaxDeliveryAttempts

\* Without a fault no clipping reaches the target twice.
NoDuplicate == faults = 0 => \A c \in Clippings : delivered[c] <= 1

\* Clippings arrive in the order they were made: when one is accepted, every
\* one saved before it was accepted, given up on or lost.
InOrder ==
  [][\A j \in DOMAIN saved :
       delivered'[saved[j]] > delivered[saved[j]] =>
         \A i \in 1..(j - 1) :
           delivered[saved[i]] > 0 \/ saved[i] \in failed \cup lost]_vars

\* The clippings of which the queue still has to be rid.
Waiting ==
  {c \in Queued \cap ToSet(saved) : delivered[c] = 0} \ (failed \cup lost)

\* The queue keeps the promise of Outbox: first in, first out, and out only by
\* delivery, by a give-up after enough failures, or by damage.
Box == INSTANCE Outbox WITH
  Attempts <- MaxDeliveryAttempts,
  taken    <- saved,
  waiting  <- Waiting,
  sent     <- delivered,
  tries    <- failures,
  dropped  <- failed,
  damaged  <- lost,
  sound    <- (faults = 0)
OutboxRefined == Box!Spec

\* A clipping the target keeps rejecting does not block the ones behind it for
\* ever: each leaves the queue as long as the user goes on syncing.
QueueDrains == \A c \in Clippings : c \in Queued ~> c \notin Queued
=============================================================================
