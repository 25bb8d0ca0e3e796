---------------------------- MODULE NearbyTransfer ----------------------------
(***************************************************************************)
(* A file sent from one reader to another over ESP-NOW:                    *)
(* src/activities/network/NearbyBookTransferActivity.cpp, in its send mode *)
(* on one device and in its receive mode on the other.                     *)
(*                                                                         *)
(* The sender discovers, offers, and sends one chunk at a time, repeating  *)
(* what is not answered.  The receiver asks its user, collects the chunks  *)
(* in a hidden file, and renames that over the offered name.  The radio    *)
(* loses packets, a full queue drops them; either device is left by its    *)
(* user or loses power at any moment; one card operation after another may *)
(* fail.                                                                   *)
(***************************************************************************)
EXTENDS Naturals, Sequences, FiniteSets

CONSTANTS
  Names,              \* paths in the folder of the receiver
  OfferedName,        \* the one the sender's file has
  NoName,             \* the empty path
  NumChunks,          \* chunks of the file
  MaxRetries,         \* MAX_RETRIES
  MaxApprovalRetries, \* MAX_APPROVAL_RETRIES
  MaxSessions,        \* bound on the transfers started
  Capacity,           \* packets that can be on their way
  MaxFaults           \* bound on the failures of card and radio

ASSUME ConstantsAssumption ==
  /\ OfferedName \in Names /\ NoName \notin Names
  /\ NumChunks \in Nat \ {0}
  /\ MaxRetries \in Nat /\ MaxApprovalRetries \in Nat
  /\ MaxSessions \in Nat /\ Capacity \in Nat /\ MaxFaults \in Nat

Sessions == 1..MaxSessions

\* The file of a session; what was stored under the name before; nothing.
File(s) == [i \in 1..NumChunks |-> <<s, i>>]
Old     == << <<0, 0>> >>
NoFile  == <<>>

VARIABLES
  snd,     \* the sender: state, session, peer, seq, pending, retry
  rcv,     \* the receiver: state, session, peer, seq, target, acceptPending, step
  toR,     \* packets on their way to the receiver
  toS,     \* packets on their way to the sender
  disk,    \* disk[t]: the file at name t
  part,    \* part[t]: the file .t.crossink-part
  backup,  \* backup[t]: the file .t.crossink-backup
  started, \* sessions started so far
  faults

radio == <<toR, toS>>
card  == <<disk, part, backup>>
vars  == <<snd, rcv, radio, card, started, faults>>

-----------------------------------------------------------------------------
(* Packets.                                                                *)

Packet(type, session, n) == [type |-> type, session |-> session, n |-> n]

\* A queue after ps were sent: a full one drops them.
Queue(q, ps) == IF Len(q \o ps) > Capacity THEN SubSeq(q \o ps, 1, Capacity) ELSE q \o ps

\* What a device sends, itself and to itself; a device that is off hears nothing.
SentByS(ps) == IF rcv.state = "off" THEN toR ELSE Queue(toR, ps)
SentByR(ps) == IF snd.state = "off" THEN toS ELSE Queue(toS, ps)

S(type, n) == <<Packet(type, snd.session, n)>>
R(type, n) == <<Packet(type, rcv.session, n)>>

NoFault == UNCHANGED faults
Fault   == faults < MaxFaults /\ faults' = faults + 1

Off(session) == [state |-> "off", session |-> session, peer |-> FALSE,
                 seq |-> 0, pending |-> FALSE, retry |-> 0]

Away == [state |-> "off", session |-> 0, peer |-> FALSE, seq |-> 0,
         target |-> NoName, acceptPending |-> FALSE, step |-> "none"]

\* startListening, but for the session.
Listening == [Away EXCEPT !.state = "Listening", !.session = rcv.session]

Init ==
  /\ snd = Off(0) /\ rcv = Away
  /\ toR = <<>> /\ toS = <<>>
  /\ disk \in {[t \in Names |-> IF t = OfferedName THEN x ELSE NoFile] : x \in {NoFile, Old}}
  /\ part = [t \in Names |-> NoFile] /\ backup = [t \in Names |-> NoFile]
  /\ started = 0 /\ faults = 0

-----------------------------------------------------------------------------
(* The sender.                                                             *)

\* The packet the sender handles; one of another session is dropped.
SenderGets(type) ==
  /\ toS # <<>> /\ snd.state # "off"
  /\ Head(toS).type = type /\ Head(toS).session = snd.session

\* cancelTransfer of setError and of exitAfterRadio.
CancelToR == IF snd.peer THEN S("Cancel", 0) ELSE <<>>

\* setError.
SenderFails ==
  /\ snd' = [snd EXCEPT !.state = "Error"]
  /\ toR' = SentByS(CancelToR)

SenderOnly == UNCHANGED <<rcv, card, started>>

\* startDiscovery, in a new activity.
StartDiscovery ==
  /\ snd.state = "off" /\ started < MaxSessions
  /\ started' = started + 1
  /\ snd' = [Off(started + 1) EXCEPT !.state = "Discovering"]
  /\ toR' = SentByS(<<Packet("Discover", started + 1, 0)>>)
  /\ UNCHANGED <<rcv, toS, card, faults>>

DiscoverAgain ==
  /\ snd.state = "Discovering"
  /\ toR' = SentByS(S("Discover", 0))
  /\ SenderOnly /\ UNCHANGED <<snd, toS, faults>>

HandleAdvertise ==
  /\ SenderGets("Advertise") /\ snd.state = "Discovering"
  /\ snd' = [snd EXCEPT !.state = "DeviceList"]
  /\ toS' = Tail(toS)
  /\ SenderOnly /\ UNCHANGED <<toR, faults>>

SelectPeer ==
  /\ snd.state = "DeviceList"
  /\ snd' = [snd EXCEPT !.state = "WaitingForApproval", !.peer = TRUE, !.retry = 0]
  /\ toR' = SentByS(S("Offer", 0))
  /\ SenderOnly /\ UNCHANGED <<toS, faults>>

\* sendNextChunk.
SendNextChunk(seq) ==
  /\ snd' = [snd EXCEPT !.state = "Sending", !.seq = seq, !.pending = TRUE, !.retry = 0]
  /\ toR' = SentByS(S("Data", seq))

\* sendComplete.
SendComplete(seq) ==
  /\ snd' = [snd EXCEPT !.seq = seq, !.pending = FALSE, !.retry = 0]
  /\ toR' = SentByS(S("Complete", NumChunks))

\* The source is opened or read in vain: Fault and SenderFails. A file has at least one chunk
\* (ConstantsAssumption): the Complete sent at once for an empty one (299-301) is left out.
HandleAccept ==
  /\ SenderGets("Accept") /\ snd.peer /\ snd.state = "WaitingForApproval"
  /\ toS' = Tail(toS)
  /\ \/ SendNextChunk(0) /\ NoFault
     \/ SenderFails /\ Fault
  /\ SenderOnly

HandleReject ==
  /\ SenderGets("Reject") /\ snd.peer /\ snd.state = "WaitingForApproval"
  /\ toS' = Tail(toS)
  /\ SenderFails /\ SenderOnly /\ NoFault

\* An acknowledgement whatever it is for.
HandleAckUnchecked ==
  /\ SenderGets("Ack") /\ snd.state = "Sending" /\ snd.seq < NumChunks
  /\ toS' = Tail(toS)
  /\ IF snd.seq + 1 = NumChunks THEN SendComplete(snd.seq + 1) ELSE SendNextChunk(snd.seq + 1)
  /\ SenderOnly /\ NoFault

HandleAck ==
  /\ SenderGets("Ack") /\ snd.peer /\ snd.state = "Sending"
  /\ Head(toS).n = snd.seq + 1
  /\ toS' = Tail(toS)
  /\ \/ snd.seq + 1 = NumChunks /\ SendComplete(snd.seq + 1) /\ NoFault
     \/ snd.seq + 1 < NumChunks /\ SendNextChunk(snd.seq + 1) /\ NoFault
     \/ snd.seq + 1 < NumChunks /\ SenderFails /\ Fault
  /\ SenderOnly

HandleResult ==
  /\ snd.peer /\ snd.state = "Sending"
  /\ \/ /\ SenderGets("ResultOk")
        /\ snd' = [snd EXCEPT !.state = "Success"] /\ UNCHANGED toR
     \/ SenderGets("ResultFailed") /\ SenderFails
  /\ toS' = Tail(toS)
  /\ SenderOnly /\ NoFault

SenderCancelled ==
  /\ SenderGets("Cancel") /\ snd.peer
  /\ toS' = Tail(toS)
  /\ SenderFails /\ SenderOnly /\ NoFault

\* A packet no branch of handlePacket wants.
SenderDrops ==
  /\ toS # <<>>
  /\ \/ Head(toS).session # snd.session
     \/ Head(toS).type = "Advertise" /\ snd.state # "Discovering"
     \/ Head(toS).type # "Advertise" /\ ~snd.peer
     \/ Head(toS).type \in {"Accept", "Reject"} /\ snd.state # "WaitingForApproval"
     \/ Head(toS).type \in {"Ack", "ResultOk", "ResultFailed"} /\ snd.state # "Sending"
     \/ Head(toS).type = "Ack" /\ Head(toS).n # snd.seq + 1
  /\ toS' = Tail(toS)
  /\ SenderOnly /\ UNCHANGED <<snd, toR, faults>>

\* A repeated offer that starts counting anew.
OfferAgainForEver ==
  /\ snd.state = "WaitingForApproval"
  /\ snd' = [snd EXCEPT !.retry = 0]
  /\ toR' = SentByS(S("Offer", 0))
  /\ SenderOnly /\ UNCHANGED <<toS, faults>>

\* updateTimers: no answer to the offer for two intervals.
OfferAgain ==
  /\ snd.state = "WaitingForApproval"
  /\ \/ /\ snd.retry < MaxApprovalRetries
        /\ snd' = [snd EXCEPT !.retry = @ + 1]
        /\ toR' = SentByS(S("Offer", 0))
     \/ snd.retry >= MaxApprovalRetries /\ SenderFails
  /\ SenderOnly /\ UNCHANGED <<toS, faults>>

\* A repeated chunk goes out with the number of the next one.
SendAgainNext ==
  /\ snd.state = "Sending"
  /\ snd' = [snd EXCEPT !.seq = @ + 1]
  /\ toR' = SentByS(S("Data", snd.seq + 1))
  /\ SenderOnly /\ UNCHANGED <<toS, faults>>

\* updateTimers: no answer to a chunk, or to Complete, for an interval.
SendAgain ==
  /\ snd.state = "Sending"
  /\ \/ /\ snd.retry < MaxRetries /\ snd.pending
        /\ snd' = [snd EXCEPT !.retry = @ + 1]
        /\ toR' = SentByS(S("Data", snd.seq))
     \/ snd.retry < MaxRetries /\ ~snd.pending /\ SendComplete(snd.seq)
     \/ snd.retry >= MaxRetries /\ SenderFails
  /\ SenderOnly /\ UNCHANGED <<toS, faults>>

\* exitAfterRadio: the device restarts.
SenderExit ==
  /\ snd.state # "off"
  /\ toR' = IF snd.state \in {"WaitingForApproval", "Sending"} THEN SentByS(CancelToR) ELSE toR
  /\ snd' = Off(snd.session) /\ toS' = <<>>
  /\ SenderOnly /\ NoFault

SenderPowerLoss ==
  /\ snd.state # "off"
  /\ snd' = Off(snd.session) /\ toS' = <<>>
  /\ SenderOnly /\ UNCHANGED <<toR, faults>>

-----------------------------------------------------------------------------
(* The receiver.                                                           *)

\* The packet the receiver handles, unless it is in finishReceivedFile.
ReceiverGets(type) ==
  /\ toR # <<>> /\ rcv.step = "none"
  /\ Head(toR).type = type

\* It is of the transfer the receiver is in.
OfTransfer == rcv.peer /\ Head(toR).session = rcv.session

Cancels == IF rcv.peer THEN R("Cancel", 0) ELSE <<>>

\* cancelTransfer removes the hidden file, if there is one.
PartRemoved == IF rcv.target = NoName THEN part ELSE [part EXCEPT ![rcv.target] = NoFile]

\* setError, with the packets sent before and after its Cancel.
ReceiverFails(before, after) ==
  /\ rcv' = [rcv EXCEPT !.state = "Error", !.acceptPending = FALSE, !.step = "none"]
  /\ toS' = SentByR(before \o Cancels \o after)
  /\ part' = PartRemoved

ReceiverOnly == UNCHANGED <<snd, started>>

\* The user starts to receive.
StartListening ==
  /\ rcv.state = "off"
  /\ rcv' = Listening
  /\ ReceiverOnly /\ UNCHANGED <<radio, card, faults>>

HandleDiscover ==
  /\ ReceiverGets("Discover") /\ rcv.state = "Listening"
  /\ rcv' = [rcv EXCEPT !.session = Head(toR).session]
  /\ toR' = Tail(toR)
  /\ toS' = SentByR(<<Packet("Advertise", Head(toR).session, 0)>>)
  /\ ReceiverOnly /\ UNCHANGED <<card, faults>>

HandleOffer ==
  /\ ReceiverGets("Offer") /\ rcv.state = "Listening"
  /\ rcv' = [rcv EXCEPT !.state = "OfferPrompt", !.session = Head(toR).session, !.peer = TRUE]
  /\ toR' = Tail(toR)
  /\ ReceiverOnly /\ UNCHANGED <<toS, card, faults>>

HandleOfferAgain ==
  /\ ReceiverGets("Offer") /\ OfTransfer /\ rcv.state = "Receiving"
  /\ toR' = Tail(toR)
  /\ toS' = IF rcv.acceptPending THEN toS ELSE SentByR(R("Accept", 0))
  /\ ReceiverOnly /\ UNCHANGED <<rcv, card, faults>>

\* The chunk is appended; writing it may fail.
StoreChunk ==
  \/ /\ part' = [part EXCEPT ![rcv.target] = Append(@, <<rcv.session, Head(toR).n + 1>>)]
     /\ rcv' = [rcv EXCEPT !.seq = @ + 1]
     /\ toS' = SentByR(R("Ack", rcv.seq + 1))
     /\ NoFault
  \/ ReceiverFails(R("ResultFailed", 0), <<>>) /\ Fault

\* A chunk that arrives again is stored again.
HandleDataAgain ==
  /\ ReceiverGets("Data") /\ OfTransfer /\ rcv.state = "Receiving"
  /\ toR' = Tail(toR)
  /\ StoreChunk
  /\ ReceiverOnly /\ UNCHANGED <<disk, backup>>

\* Only the next chunk is stored; any other is answered with what is missing.
HandleData ==
  /\ ReceiverGets("Data") /\ OfTransfer /\ rcv.state = "Receiving"
  /\ toR' = Tail(toR)
  /\ \/ Head(toR).n = rcv.seq /\ StoreChunk
     \/ /\ Head(toR).n # rcv.seq
        /\ toS' = SentByR(R("Ack", rcv.seq))
        /\ UNCHANGED <<rcv, part>> /\ NoFault
  /\ ReceiverOnly /\ UNCHANGED <<disk, backup>>

\* finishReceivedFile up to the renames: size and checksum, which agree when
\* all the chunks of the session arrived, then sync and close.
HandleComplete ==
  /\ ReceiverGets("Complete") /\ OfTransfer /\ rcv.state = "Receiving"
  /\ toR' = Tail(toR)
  /\ \/ /\ rcv.seq = Head(toR).n
        /\ rcv' = [rcv EXCEPT !.step = IF disk[rcv.target] # NoFile THEN "backup" ELSE "install"]
        /\ UNCHANGED <<toS, part>> /\ NoFault
     \/ ReceiverFails(<<>>, R("ResultFailed", 0)) /\ (IF rcv.seq = Head(toR).n THEN Fault ELSE NoFault)
  /\ ReceiverOnly /\ UNCHANGED <<disk, backup>>

HandleCompleteAgain ==
  /\ ReceiverGets("Complete") /\ OfTransfer /\ rcv.state = "Success"
  /\ toR' = Tail(toR)
  /\ toS' = SentByR(R("ResultOk", 0))
  /\ ReceiverOnly /\ UNCHANGED <<rcv, card, faults>>

\* cancelTransfer, and setError, which calls it again.
HandleCancel ==
  /\ ReceiverGets("Cancel") /\ OfTransfer
  /\ toR' = Tail(toR)
  /\ ReceiverFails(Cancels, <<>>)
  /\ ReceiverOnly /\ UNCHANGED <<disk, backup, faults>>

ReceiverDrops ==
  /\ toR # <<>> /\ rcv.step = "none"
  /\ \/ rcv.state = "off"
     \/ Head(toR).type = "Discover" /\ rcv.state # "Listening"
     \/ Head(toR).type # "Discover" /\ ~OfTransfer /\ ~(Head(toR).type = "Offer" /\ rcv.state = "Listening")
     \/ Head(toR).type = "Offer" /\ rcv.state \notin {"Listening", "Receiving"}
     \/ Head(toR).type = "Data" /\ rcv.state # "Receiving"
     \/ Head(toR).type = "Complete" /\ rcv.state \notin {"Receiving", "Success"}
  /\ toR' = Tail(toR)
  /\ ReceiverOnly /\ UNCHANGED <<rcv, toS, card, faults>>

\* rejectOffer: Back or Cancel at a prompt.
RejectOffer ==
  /\ rcv.state \in {"OfferPrompt", "CollisionPrompt"}
  /\ toS' = SentByR(R("Reject", 0))
  /\ rcv' = Listening
  /\ ReceiverOnly /\ UNCHANGED <<toR, card, faults>>

\* Accept, when the name is taken.
AskWhatToDo ==
  /\ rcv.state = "OfferPrompt" /\ disk[OfferedName] # NoFile
  /\ rcv' = [rcv EXCEPT !.state = "CollisionPrompt"]
  /\ ReceiverOnly /\ UNCHANGED <<radio, card, faults>>

\* acceptOffer: the hidden file is created anew, or cannot be.
OpenPart(target, contents) ==
  \/ /\ rcv' = [rcv EXCEPT !.state = "Receiving", !.target = target, !.acceptPending = TRUE]
     /\ part' = [part EXCEPT ![target] = contents]
     /\ UNCHANGED toS /\ NoFault
  \/ /\ rcv' = [rcv EXCEPT !.state = "Error", !.target = target]
     /\ part' = [part EXCEPT ![target] = NoFile]
     /\ toS' = SentByR(Cancels) /\ Fault

\* The name to receive under: the one offered, or one that is free.
Replacing   == (rcv.state = "OfferPrompt" /\ disk[OfferedName] = NoFile) \/ rcv.state = "CollisionPrompt"
FreeName(t) == rcv.state = "CollisionPrompt" /\ disk[t] = NoFile
Chosen      == {t \in Names : FreeName(t) \/ (t = OfferedName /\ Replacing)}

\* The hidden file of an interrupted transfer is written on.
AcceptOfferAppends ==
  /\ \E t \in Chosen : OpenPart(t, part[t])
  /\ ReceiverOnly /\ UNCHANGED <<toR, disk, backup>>

AcceptOffer ==
  /\ \E t \in Chosen : OpenPart(t, NoFile)
  /\ ReceiverOnly /\ UNCHANGED <<toR, disk, backup>>

\* The card is too full for the file, or no name is free.
AcceptFails ==
  /\ \/ Replacing /\ ReceiverFails(R("Reject", 0), <<>>) /\ Fault
     \/ /\ rcv.state = "CollisionPrompt" /\ \A t \in Names : ~FreeName(t)
        /\ ReceiverFails(<<>>, <<>>) /\ NoFault
  /\ ReceiverOnly /\ UNCHANGED <<toR, disk, backup>>

\* sendPendingAccept, once the receiving screen is drawn; the radio may fail.
SendPendingAccept ==
  /\ rcv.acceptPending /\ rcv.step = "none"
  /\ \/ /\ rcv' = [rcv EXCEPT !.acceptPending = FALSE]
        /\ toS' = SentByR(R("Accept", 0))
        /\ UNCHANGED part /\ NoFault
     \/ ReceiverFails(<<>>, <<>>) /\ Fault
  /\ ReceiverOnly /\ UNCHANGED <<toR, disk, backup>>

\* updateTimers: no acknowledgement was sent for RECEIVE_TIMEOUT_MS.
ReceiveTimeout ==
  /\ rcv.state = "Receiving" /\ rcv.step = "none"
  /\ ReceiverFails(<<>>, <<>>)
  /\ ReceiverOnly /\ UNCHANGED <<toR, disk, backup, faults>>

-----------------------------------------------------------------------------
(* finishReceivedFile, its renames.                                        *)

Target == rcv.target

\* The old file is deleted, not renamed.
BackupByDeleting ==
  /\ rcv.step = "backup"
  /\ disk' = [disk EXCEPT ![Target] = NoFile]
  /\ rcv' = [rcv EXCEPT !.step = "replace"]
  /\ ReceiverOnly /\ UNCHANGED <<radio, part, backup, faults>>

\* An older backup is removed first.
BackupOld ==
  /\ rcv.step = "backup"
  /\ backup' = [backup EXCEPT ![Target] = disk[Target]]
  /\ disk' = [disk EXCEPT ![Target] = NoFile]
  /\ rcv' = [rcv EXCEPT !.step = "replace"]
  /\ ReceiverOnly /\ UNCHANGED <<radio, part, faults>>

BackupFails ==
  /\ rcv.step = "backup" /\ Fault
  /\ backup' = [backup EXCEPT ![Target] = NoFile]
  /\ ReceiverFails(<<>>, R("ResultFailed", 0))
  /\ ReceiverOnly /\ UNCHANGED <<toR, disk>>

InstallNew ==
  /\ rcv.step \in {"install", "replace"}
  /\ disk' = [disk EXCEPT ![Target] = part[Target]]
  /\ part' = [part EXCEPT ![Target] = NoFile]
  /\ rcv' = [rcv EXCEPT !.step = IF @ = "replace" THEN "cleanup" ELSE "report"]
  /\ ReceiverOnly /\ UNCHANGED <<radio, backup, faults>>

\* The old file gets its name back, unless that rename, whose result nobody looks at, is refused
\* like the one before it: one fault is a card that refuses both.
InstallFails ==
  /\ rcv.step \in {"install", "replace"} /\ Fault
  /\ \/ /\ rcv.step = "replace"
        /\ disk' = [disk EXCEPT ![Target] = backup[Target]]
        /\ backup' = [backup EXCEPT ![Target] = NoFile]
     \/ UNCHANGED <<disk, backup>>
  /\ ReceiverFails(<<>>, R("ResultFailed", 0))
  /\ ReceiverOnly /\ UNCHANGED toR

\* The result of removing the backup is not looked at.
RemoveBackup ==
  /\ rcv.step = "cleanup"
  /\ rcv' = [rcv EXCEPT !.step = "report"]
  /\ \/ backup' = [backup EXCEPT ![Target] = NoFile] /\ NoFault
     \/ UNCHANGED backup /\ Fault
  /\ ReceiverOnly /\ UNCHANGED <<radio, disk, part>>

\* The result is sent before it is known.
ReportEarly ==
  /\ rcv.step \in {"install", "replace"}
  /\ toS' = SentByR(R("ResultOk", 0))
  /\ rcv' = [rcv EXCEPT !.step = "none", !.state = "Success"]
  /\ ReceiverOnly /\ UNCHANGED <<toR, card, faults>>

ReportSuccess ==
  /\ rcv.step = "report"
  /\ toS' = SentByR(R("ResultOk", 0))
  /\ rcv' = [rcv EXCEPT !.step = "none", !.state = "Success"]
  /\ ReceiverOnly /\ UNCHANGED <<toR, card, faults>>

\* exitAfterRadio or openReceivedFile: the device restarts.
ReceiverExit ==
  /\ rcv.state \in {"Listening", "Receiving", "Success", "Error"} /\ rcv.step = "none"
  /\ IF rcv.state = "Receiving"
     THEN toS' = SentByR(Cancels) /\ part' = PartRemoved
     ELSE UNCHANGED <<toS, part>>
  /\ rcv' = Away /\ toR' = <<>>
  /\ ReceiverOnly /\ UNCHANGED <<disk, backup, faults>>

\* Hidden files stay as they are.
ReceiverPowerLoss ==
  /\ rcv.state # "off"
  /\ rcv' = Away /\ toR' = <<>>
  /\ ReceiverOnly /\ UNCHANGED <<toS, card, faults>>

-----------------------------------------------------------------------------
LosePacket ==
  /\ \/ toR # <<>> /\ toR' = Tail(toR) /\ UNCHANGED toS
     \/ toS # <<>> /\ toS' = Tail(toS) /\ UNCHANGED toR
  /\ UNCHANGED <<snd, rcv, card, started, faults>>

SenderPackets == HandleAdvertise \/ HandleAccept \/ HandleReject \/ HandleAck
                 \/ HandleResult \/ SenderCancelled \/ SenderDrops
SenderTimers  == DiscoverAgain \/ OfferAgain \/ SendAgain
SenderUser    == StartDiscovery \/ SelectPeer \/ SenderExit

ReceiverPackets == HandleDiscover \/ HandleOffer \/ HandleOfferAgain \/ HandleData
                   \/ HandleComplete \/ HandleCompleteAgain \/ HandleCancel \/ ReceiverDrops
ReceiverFinish  == BackupOld \/ InstallNew \/ RemoveBackup \/ ReportSuccess \/ BackupFails \/ InstallFails
ReceiverUser    == StartListening \/ AskWhatToDo \/ AcceptOffer \/ AcceptFails
                   \/ RejectOffer \/ ReceiverExit

Next == SenderPackets \/ SenderTimers \/ SenderUser \/ SenderPowerLoss
        \/ ReceiverPackets \/ SendPendingAccept \/ ReceiveTimeout
        \/ ReceiverFinish \/ ReceiverUser \/ ReceiverPowerLoss
        \/ LosePacket

Spec == Init /\ [][Next]_vars

\* The loop of the sender looks at its timers forever; packets, users and the
\* other device owe it nothing.
FairSpec == Spec /\ WF_vars(OfferAgain) /\ WF_vars(SendAgain)

-----------------------------------------------------------------------------
SenderStates   == {"off", "Discovering", "DeviceList", "WaitingForApproval", "Sending", "Success", "Error"}
ReceiverStates == {"off", "Listening", "OfferPrompt", "CollisionPrompt", "Receiving", "Success", "Error"}
Steps          == {"none", "backup", "install", "replace", "cleanup", "report"}

\* The variables hold what the code keeps in them: acknowledgement and retry
\* counters stay in range, the receiver is in finishReceivedFile only while it
\* receives, and a hidden file belongs to the transfer that names it.
TypeOK ==
  /\ snd.state \in SenderStates /\ snd.session \in 0..MaxSessions
  /\ snd.seq \in 0..NumChunks /\ (snd.pending => snd.seq < NumChunks)
  /\ snd.retry \in 0..(IF snd.state = "WaitingForApproval" THEN MaxApprovalRetries ELSE
                       IF snd.state = "Sending" THEN MaxRetries ELSE MaxRetries + MaxApprovalRetries)
  /\ rcv.state \in ReceiverStates /\ rcv.session \in 0..MaxSessions
  /\ rcv.seq \in 0..NumChunks /\ rcv.target \in Names \cup {NoName}
  /\ rcv.step \in Steps /\ (rcv.step # "none" => rcv.state = "Receiving")
  /\ rcv.state \in {"Receiving", "Success"} => rcv.target # NoName
  /\ rcv.acceptPending => rcv.state \in {"Receiving", "Success"}
  /\ Len(toR) <= Capacity /\ Len(toS) <= Capacity

Whole(f) == f \in {NoFile, Old} \/ \E s \in Sessions : f = File(s)

\* "verifies its size and contents before making it available": whatever is
\* lost, repeated, cancelled or cut off, a name holds a whole file or none.
NoPartialFile == \A t \in Names : Whole(disk[t]) /\ Whole(backup[t])

\* Once there is a file of a name there always is, if only as the backup that
\* finishReceivedFile makes before it moves the new one in.
NeverWithout ==
  [][\A t \in Names : (disk[t] # NoFile \/ backup[t] # NoFile) => (disk[t] # NoFile \/ backup[t] # NoFile)']_vars

\* While both ends are in one transfer the receiver has acknowledged the chunk
\* being sent or not yet, and holds exactly the chunks before it.
StopAndWait ==
  (/\ snd.state = "Sending" /\ rcv.state = "Receiving"
   /\ snd.session = rcv.session /\ rcv.step = "none") =>
     /\ rcv.seq \in {snd.seq, snd.seq + 1}
     /\ part[rcv.target] = SubSeq(File(rcv.session), 1, rcv.seq)

\* "File sent" and "File received" are shown only when the file is there under
\* the name it was received under.
SuccessMeansStored ==
  /\ snd.state = "Success" => \E t \in Names : disk[t] = File(snd.session)
  /\ rcv.state = "Success" => disk[rcv.target] = File(rcv.session)

\* What a user finds for each name who also looks at the backup, and what the
\* two screens say.
Shelf        == [t \in Names |-> IF disk[t] # NoFile THEN disk[t] ELSE backup[t]]
SaidSent     == IF snd.state = "Success" THEN File(snd.session) ELSE NoFile
SaidReceived == IF rcv.state = "Success" THEN [name |-> rcv.target, file |-> File(rcv.session)]
                ELSE [name |-> NoName, file |-> NoFile]

\* All the packets, renames and failures amount to one step that delivers the
\* file: as a whole, once, and before anybody speaks of success.
D == INSTANCE Delivery WITH
  Files    <- {File(s) : s \in Sessions},
  Older    <- {NoFile, Old},
  shelf    <- Shelf,
  sent     <- SaidSent,
  received <- SaidReceived
DeliveredWhole == D!Spec

\* An offer nobody answers, and a chunk nobody acknowledges, is given up: the
\* retry counters of updateTimers reach their limit whatever the radio does.
SenderGivesUp ==
  /\ snd.state = "WaitingForApproval" ~> snd.state # "WaitingForApproval"
  /\ \A k \in 0..(NumChunks - 1) :
       (snd.state = "Sending" /\ snd.pending /\ snd.seq = k) ~> ~(snd.state = "Sending" /\ snd.pending /\ snd.seq = k)
=============================================================================
