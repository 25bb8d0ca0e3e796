------------------------ MODULE NearbyTransferProofs ------------------------
(***************************************************************************)
(* Proofs about NearbyTransfer for any names, any number of chunks,        *)
(* retries, transfers, packets on their way and faults: a name never holds *)
(* part of a file and is never left without one, the two ends stay one     *)
(* chunk apart, and success is shown only for a file that is stored.       *)
(***************************************************************************)
EXTENDS NearbyTransfer, SequenceTheorems, TLAPS

PacketTypes == {"Discover", "Offer", "Data", "Complete", "Cancel", "Advertise",
                "Accept", "Reject", "Ack", "ResultOk", "ResultFailed"}
Packets     == [type : PacketTypes, session : Sessions, n : 0..NumChunks]

\* The packets on their way, whatever their order.
OnWay(q) == {q[i] : i \in 1..Len(q)}

\* Packets of these types and this session.
Only(types, s) == {p \in Packets : p.type \in types /\ p.session = s}

Prompts   == {"OfferPrompt", "CollisionPrompt"}
Preparing == {"Discovering", "DeviceList", "WaitingForApproval"}

SndType ==
  /\ snd \in [state : SenderStates, session : 0..MaxSessions, peer : BOOLEAN,
              seq : 0..NumChunks, pending : BOOLEAN, retry : Nat]
  /\ snd.pending => snd.seq < NumChunks
  /\ snd.state = "WaitingForApproval" => snd.retry <= MaxApprovalRetries
  /\ snd.state = "Sending" => snd.retry <= MaxRetries
  /\ snd.retry <= MaxRetries + MaxApprovalRetries
RcvType ==
  /\ rcv \in [state : ReceiverStates, session : 0..MaxSessions, peer : BOOLEAN,
              seq : 0..NumChunks, target : Names \cup {NoName},
              acceptPending : BOOLEAN, step : Steps]
  /\ rcv.step # "none" => rcv.state = "Receiving"
  /\ rcv.state \in {"Receiving", "Success"} => rcv.target # NoName
  /\ rcv.acceptPending => rcv.state \in {"Receiving", "Success"}
RadioType ==
  /\ toR \in Seq(Packets) /\ Len(toR) <= Capacity
  /\ toS \in Seq(Packets) /\ Len(toS) <= Capacity
CardType  == DOMAIN disk = Names /\ DOMAIN part = Names /\ DOMAIN backup = Names
CountType == started \in 0..MaxSessions /\ faults \in 0..MaxFaults
Types     == SndType /\ RcvType /\ RadioType /\ CardType /\ CountType

\* Every session there is a trace of has been started, the sender is in the
\* last one, and a device that is off has no packets.
Sent ==
  /\ snd.session = started /\ (snd.state # "off" => started # 0)
  /\ rcv.session \in 0..started /\ (rcv.peer => rcv.session # 0)
  /\ rcv.state \in Prompts \cup {"Receiving", "Success"} => rcv.peer
  /\ rcv.state \in Prompts \cup {"off", "Listening"} => rcv.seq = 0
  /\ rcv.state = "off" => toR = <<>>
  /\ \A p \in OnWay(toR) : /\ p.session \in 1..started
                           /\ p.type = "Data" => p.n \in 0..(NumChunks - 1)
                           /\ p.type = "Complete" => p.n = NumChunks
  /\ \A p \in OnWay(toS) : p.session \in 1..started

\* The file of the sender's transfer is there; some of it has been received.
Stored == \E t \in Names : disk[t] = File(snd.session)
Begun ==
  \/ snd.seq > 0
  \/ \E p \in OnWay(toS) : p.type = "Ack" /\ p.session = snd.session /\ p.n > 0
  \/ Stored

\* A receiver that has got part of the sender's file cannot join a transfer
\* again: an offer still on its way comes to one that is busy.
Joined == Begun =>
  /\ rcv.state \notin Prompts
  /\ rcv.state \in {"Receiving", "Success"} => rcv.session = snd.session
  /\ \A p \in OnWay(toR) : p.type = "Offer" => rcv.state \in {"Receiving", "Success", "Error"}

\* Before the sender has had its offer accepted nothing of the file exists.
Before == snd.state \in Preparing =>
  /\ ~Begun
  /\ \A p \in OnWay(toR) : p.session = snd.session => p.type \notin {"Data", "Complete"}
  /\ \A p \in OnWay(toS) : p.session = snd.session => p.type # "ResultOk"
  /\ rcv.state \in {"Receiving", "Success"} /\ rcv.session = snd.session =>
       rcv.state = "Receiving" /\ rcv.seq = 0 /\ rcv.step = "none"
  /\ \A t \in Names : backup[t] # File(snd.session)

\* Chunks on their way are not ahead of the sender, acknowledgements not of
\* the receiver, and the two not more than one apart.
Window ==
  /\ snd.state = "Sending" =>
       \A p \in OnWay(toR) : p.type = "Data" /\ p.session = snd.session => p.n <= snd.seq
  /\ rcv.state = "Receiving" /\ rcv.session = snd.session =>
       /\ \A p \in OnWay(toS) : p.type = "Ack" /\ p.session = snd.session => p.n <= rcv.seq
       /\ snd.state = "Sending" => rcv.seq \in {snd.seq, snd.seq + 1}

\* The first k chunks of a session; a whole file of one that has started.
Collected(s, k)  == [i \in 1..k |-> <<s, i>>]
WholeSince(f, n) == f \in {NoFile, Old} \/ \E s \in 1..n : f = File(s)

\* What finishReceivedFile and the transfer before it have on the card.
Files ==
  /\ \A t \in Names : WholeSince(disk[t], started) /\ WholeSince(backup[t], started)
  /\ rcv.state = "Receiving" /\ rcv.step \in {"none", "backup", "install", "replace"} =>
       /\ part[rcv.target] = Collected(rcv.session, rcv.seq)
       /\ rcv.session = snd.session => ~Stored
  /\ rcv.step # "none" => rcv.seq = NumChunks
  /\ rcv.step = "backup" => disk[rcv.target] # NoFile
  /\ rcv.step = "replace" => backup[rcv.target] # NoFile
  /\ rcv.step \in {"cleanup", "report"} \/ rcv.state = "Success" =>
       disk[rcv.target] = File(rcv.session)

\* A result is reported when the file is stored.
Results ==
  /\ \A p \in OnWay(toS) : p.type = "ResultOk" /\ p.session = snd.session => Stored
  /\ snd.state = "Success" => Stored

Transfer == Sent /\ Joined /\ Before /\ Window /\ Files /\ Results
IInv     == Types /\ Transfer

-----------------------------------------------------------------------------
(* Files and queues.                                                       *)

LEMMA FileFacts ==
  /\ \A s, r : File(s) = File(r) => s = r
  /\ \A s : File(s) # NoFile
  /\ \A s \in Sessions : File(s) # Old
  <1>1. NumChunks \in Nat /\ 1 \in 1..NumChunks
    BY ConstantsAssumption
  <1>2. \A s : File(s)[1] = <<s, 1>> /\ DOMAIN File(s) = 1..NumChunks
    BY <1>1 DEF File
  <1>3. DOMAIN NoFile = {} /\ Old[1] = <<0, 0>>
    BY DEF NoFile, Old
  <1>4. \A s \in Sessions : s # 0
    BY ConstantsAssumption DEF Sessions
  <1> QED
    BY <1>1, <1>2, <1>3, <1>4

LEMMA CollectedFacts ==
  /\ \A s : File(s) = Collected(s, NumChunks)
  /\ \A s : Collected(s, 0) = NoFile
  /\ \A s, k \in Nat : Append(Collected(s, k), <<s, k + 1>>) = Collected(s, k + 1)
  /\ \A s \in Nat : \A k \in 0..NumChunks : SubSeq(File(s), 1, k) = Collected(s, k)
  <1>1. \A s : File(s) = Collected(s, NumChunks)
    BY DEF File, Collected
  <1>2. ASSUME NEW s PROVE Collected(s, 0) = NoFile
    BY DEF Collected, NoFile
  <1>3. ASSUME NEW s \in Nat, NEW k \in Nat
        PROVE  Append(Collected(s, k), <<s, k + 1>>) = Collected(s, k + 1)
    <2>1. Collected(s, k) \in Seq(Nat \X Nat) /\ Len(Collected(s, k)) = k
      BY DEF Collected
    <2> DEFINE b == Append(Collected(s, k), <<s, k + 1>>)
    <2>2. b \in Seq(Nat \X Nat) /\ Len(b) = k + 1 /\ b[k + 1] = <<s, k + 1>>
          /\ \A i \in 1..k : b[i] = Collected(s, k)[i]
      BY <2>1
    <2>3. \A i \in 1..k : b[i] = <<s, i>>
      BY <2>2 DEF Collected
    <2>4. DOMAIN b = 1..(k + 1) /\ b = [i \in DOMAIN b |-> b[i]]
      BY <2>2
    <2>5. \A i \in 1..(k + 1) : b[i] = <<s, i>>
      BY <2>2, <2>3
    <2> HIDE DEF b
    <2> QED
      <3>1. b = [i \in 1..(k + 1) |-> <<s, i>>]
        BY <2>4, <2>5
      <3> QED
        BY <3>1 DEF Collected, b
  <1>4. ASSUME NEW s \in Nat, NEW k \in 0..NumChunks
        PROVE  SubSeq(File(s), 1, k) = Collected(s, k)
    <2>1. File(s) \in Seq(Nat \X Nat) /\ Len(File(s)) = NumChunks /\ NumChunks \in Nat
      BY ConstantsAssumption DEF File
    <2> DEFINE b == SubSeq(File(s), 1, k)
    <2>2. \A i \in 1..k : File(s)[i] \in Nat \X Nat /\ File(s)[i] = <<s, i>>
      BY <2>1 DEF File
    <2>3. b \in Seq(Nat \X Nat) /\ Len(b) = k /\ \A i \in 1..k : b[i] = File(s)[i]
      BY <2>1, <2>2, SubSeqProperties
    <2>4. DOMAIN b = 1..k /\ b = [i \in DOMAIN b |-> b[i]]
      BY <2>3
    <2> HIDE DEF b
    <2>5. b = [i \in 1..k |-> <<s, i>>]
      BY <2>2, <2>3, <2>4
    <2> QED
      BY <2>5 DEF Collected, b
  <1> QED
    BY <1>1, <1>2, <1>3, <1>4

LEMMA QueueFacts ==
  ASSUME NEW q \in Seq(Packets), NEW ps \in Seq(Packets)
  PROVE  /\ Queue(q, ps) \in Seq(Packets) /\ Len(Queue(q, ps)) <= Capacity
         /\ OnWay(Queue(q, ps)) \subseteq OnWay(q) \cup OnWay(ps)
  <1> DEFINE both == q \o ps
  <1>1. both \in Seq(Packets) /\ Len(both) \in Nat /\ Capacity \in Nat
    BY ConstantsAssumption
  <1>2. \A i \in 1..Len(both) : both[i] \in OnWay(q) \cup OnWay(ps)
    <2> SUFFICES ASSUME NEW i \in 1..Len(both) PROVE both[i] \in OnWay(q) \cup OnWay(ps)
      OBVIOUS
    <2>1. CASE i \in 1..Len(q)
      BY <2>1 DEF OnWay
    <2>2. CASE i \notin 1..Len(q)
      <3>1. i - Len(q) \in 1..Len(ps) /\ both[i] = ps[i - Len(q)]
        BY <2>2
      <3> QED
        BY <3>1 DEF OnWay
    <2> QED
      BY <2>1, <2>2
  <1> HIDE DEF both
  <1>3. CASE Len(both) > Capacity
    <2> DEFINE cut == SubSeq(both, 1, Capacity)
    <2>1. \A i \in 1..Capacity : both[i] \in Packets
      BY <1>1, <1>3
    <2>2. cut \in Seq(Packets) /\ Len(cut) = Capacity /\ \A i \in 1..Capacity : cut[i] = both[i]
      BY <1>1, <1>3, <2>1, SubSeqProperties
    <2> HIDE DEF cut
    <2>3. OnWay(cut) \subseteq OnWay(q) \cup OnWay(ps)
      BY <1>1, <1>2, <1>3, <2>2 DEF OnWay
    <2>4. Queue(q, ps) = cut
      BY <1>3 DEF Queue, both, cut
    <2> QED
      BY <1>1, <2>2, <2>3, <2>4
  <1>4. CASE ~(Len(both) > Capacity)
    <2>1. Queue(q, ps) = both
      BY <1>4 DEF Queue, both
    <2>2. Len(both) <= Capacity
      BY <1>1, <1>4
    <2>3. OnWay(both) \subseteq OnWay(q) \cup OnWay(ps)
      BY <1>2 DEF OnWay
    <2> QED
      BY <1>1, <2>1, <2>2, <2>3
  <1> QED
    BY <1>3, <1>4

LEMMA HeadFacts ==
  ASSUME NEW q \in Seq(Packets), q # <<>>
  PROVE  /\ Head(q) \in OnWay(q) /\ Head(q) \in Packets
         /\ Tail(q) \in Seq(Packets) /\ Len(Tail(q)) <= Len(q)
         /\ OnWay(Tail(q)) \subseteq OnWay(q)
  <1>1. Len(q) \in Nat \ {0} /\ 1 \in 1..Len(q) /\ Head(q) = q[1]
    OBVIOUS
  <1>2. Tail(q) \in Seq(Packets) /\ Len(Tail(q)) = Len(q) - 1
        /\ \A i \in 1..Len(Tail(q)) : Tail(q)[i] = q[i + 1]
    BY HeadTailProperties
  <1>3. OnWay(Tail(q)) \subseteq OnWay(q)
    <2> SUFFICES ASSUME NEW i \in 1..Len(Tail(q)) PROVE Tail(q)[i] \in OnWay(q)
      BY DEF OnWay
    <2>1. i + 1 \in 1..Len(q)
      BY <1>1, <1>2
    <2> QED
      BY <1>2, <2>1 DEF OnWay
  <1> QED
    BY <1>1, <1>2, <1>3 DEF OnWay

LEMMA OnWayTyped ==
  ASSUME NEW q \in Seq(Packets)
  PROVE  OnWay(q) \subseteq Packets /\ \A p \in OnWay(q) : p.n \in Nat
  <1>1. \A p \in Packets : p.n \in Nat
    BY ConstantsAssumption DEF Packets
  <1> QED
    BY <1>1 DEF OnWay

LEMMA OneOnWay ==
  /\ OnWay(<<>>) = {}
  /\ \A p : OnWay(<<p>>) = {p}
  BY DEF OnWay

LEMMA BothOnWay ==
  ASSUME NEW q \in Seq(Packets), NEW ps \in Seq(Packets)
  PROVE  q \o ps \in Seq(Packets) /\ OnWay(q \o ps) \subseteq OnWay(q) \cup OnWay(ps)
  <1> SUFFICES ASSUME NEW i \in 1..Len(q \o ps) PROVE (q \o ps)[i] \in OnWay(q) \cup OnWay(ps)
    BY DEF OnWay
  <1>1. CASE i \in 1..Len(q)
    BY <1>1 DEF OnWay
  <1>2. CASE i \notin 1..Len(q)
    <2>1. i - Len(q) \in 1..Len(ps) /\ (q \o ps)[i] = ps[i - Len(q)]
      BY <1>2
    <2> QED
      BY <2>1 DEF OnWay
  <1> QED
    BY <1>1, <1>2

-----------------------------------------------------------------------------
(* What the two devices send.                                              *)

LEMMA TypesGive == Types => TypeOK
  BY DEF Types, SndType, RcvType, RadioType, CountType, TypeOK

\* A packet of the sender.
LEMMA SenderSends ==
  ASSUME Types, Sent, snd.state # "off", NEW type \in PacketTypes, NEW n \in 0..NumChunks
  PROVE  /\ Packet(type, snd.session, n) \in Packets
         /\ SentByS(S(type, n)) \in Seq(Packets) /\ Len(SentByS(S(type, n))) <= Capacity
         /\ OnWay(SentByS(S(type, n))) \subseteq OnWay(toR) \cup {Packet(type, snd.session, n)}
         /\ rcv.state = "off" => SentByS(S(type, n)) = toR
  <1>1. Packet(type, snd.session, n) \in Packets
    BY ConstantsAssumption DEF Types, SndType, CountType, Sent, Packet, Packets, Sessions
  <1>2. S(type, n) \in Seq(Packets) /\ OnWay(S(type, n)) = {Packet(type, snd.session, n)}
    BY <1>1, OneOnWay DEF S
  <1>3. toR \in Seq(Packets) /\ Len(toR) <= Capacity
    BY DEF Types, RadioType
  <1> QED
    BY <1>1, <1>2, <1>3, QueueFacts DEF SentByS

LEMMA SenderCancels ==
  ASSUME Types, Sent, snd.state # "off"
  PROVE  /\ SentByS(CancelToR) \in Seq(Packets) /\ Len(SentByS(CancelToR)) <= Capacity
         /\ OnWay(SentByS(CancelToR)) \subseteq OnWay(toR) \cup {Packet("Cancel", snd.session, 0)}
         /\ rcv.state = "off" => SentByS(CancelToR) = toR
         /\ Packet("Cancel", snd.session, 0) \in Packets
  <1>1. "Cancel" \in PacketTypes /\ 0 \in 0..NumChunks
    BY ConstantsAssumption DEF PacketTypes
  <1>2. CASE snd.peer
    BY <1>1, <1>2, SenderSends DEF CancelToR
  <1>3. CASE ~snd.peer
    <2>1. CancelToR = <<>> /\ CancelToR \in Seq(Packets) /\ OnWay(CancelToR) = {}
      BY <1>3, OneOnWay DEF CancelToR
    <2>2. toR \in Seq(Packets) /\ Len(toR) <= Capacity
      BY DEF Types, RadioType
    <2> QED
      BY <1>1, <2>1, <2>2, QueueFacts, SenderSends DEF SentByS
  <1> QED
    BY <1>2, <1>3

\* Packets of the receiver that say nothing of a file.
Harmless == {"Cancel", "Reject", "Accept", "ResultFailed"}

LEMMA ReceiverPacket ==
  ASSUME Types, Sent, rcv.peer, NEW type \in PacketTypes, NEW n \in 0..NumChunks
  PROVE  /\ Packet(type, rcv.session, n) \in Packets
         /\ R(type, n) \in Seq(Packets) /\ OnWay(R(type, n)) = {Packet(type, rcv.session, n)}
  <1>1. Packet(type, rcv.session, n) \in Packets
    BY ConstantsAssumption DEF Types, RcvType, CountType, Sent, Packet, Packets, Sessions
  <1> QED
    BY <1>1, OneOnWay DEF R

LEMMA ReceiverSends ==
  ASSUME Types, NEW ps \in Seq(Packets)
  PROVE  /\ SentByR(ps) \in Seq(Packets) /\ Len(SentByR(ps)) <= Capacity
         /\ OnWay(SentByR(ps)) \subseteq OnWay(toS) \cup OnWay(ps)
  BY QueueFacts DEF SentByR, Types, RadioType

LEMMA HarmlessPackets ==
  ASSUME Types, Sent, rcv.peer
  PROVE  /\ \A type \in Harmless : R(type, 0) \in Seq(Packets)
                                   /\ OnWay(R(type, 0)) \subseteq Only(Harmless, rcv.session)
         /\ Cancels \in Seq(Packets) /\ OnWay(Cancels) \subseteq Only(Harmless, rcv.session)
         /\ <<>> \in Seq(Packets) /\ OnWay(<<>>) \subseteq Only(Harmless, rcv.session)
  <1>1. 0 \in 0..NumChunks /\ Harmless \subseteq PacketTypes /\ "Cancel" \in Harmless
    BY ConstantsAssumption DEF Harmless, PacketTypes
  <1>2. ASSUME NEW type \in Harmless
        PROVE  R(type, 0) \in Seq(Packets) /\ OnWay(R(type, 0)) \subseteq Only(Harmless, rcv.session)
    <2>1. /\ Packet(type, rcv.session, 0) \in Packets
          /\ R(type, 0) \in Seq(Packets) /\ OnWay(R(type, 0)) = {Packet(type, rcv.session, 0)}
      BY <1>1, ReceiverPacket
    <2>2. Packet(type, rcv.session, 0).type = type /\ Packet(type, rcv.session, 0).session = rcv.session
      BY DEF Packet
    <2> QED
      BY <2>1, <2>2 DEF Only
  <1> QED
    BY <1>1, <1>2, OneOnWay DEF Cancels

\* setError of the receiver.
LEMMA ReceiverFailed ==
  ASSUME Types, Sent, rcv.peer,
         NEW before \in Seq(Packets), OnWay(before) \subseteq Only(Harmless, rcv.session),
         NEW after \in Seq(Packets), OnWay(after) \subseteq Only(Harmless, rcv.session),
         ReceiverFails(before, after)
  PROVE  /\ rcv' = [rcv EXCEPT !.state = "Error", !.acceptPending = FALSE, !.step = "none"]
         /\ toS' \in Seq(Packets) /\ Len(toS') <= Capacity
         /\ OnWay(toS') \subseteq OnWay(toS) \cup Only(Harmless, rcv.session)
         /\ DOMAIN part' = DOMAIN part
  <1>1. Cancels \in Seq(Packets) /\ OnWay(Cancels) \subseteq Only(Harmless, rcv.session)
    BY HarmlessPackets
  <1>2. /\ before \o Cancels \in Seq(Packets)
        /\ OnWay(before \o Cancels) \subseteq Only(Harmless, rcv.session)
    BY <1>1, BothOnWay
  <1>3. /\ before \o Cancels \o after \in Seq(Packets)
        /\ OnWay(before \o Cancels \o after) \subseteq Only(Harmless, rcv.session)
    BY <1>2, BothOnWay
  <1>4. toS' = SentByR(before \o Cancels \o after) /\ part' = PartRemoved
    BY DEF ReceiverFails
  <1> QED
    BY <1>3, <1>4, ReceiverSends DEF ReceiverFails, PartRemoved

-----------------------------------------------------------------------------
(* The types.                                                              *)

SenderStep   == SenderPackets \/ SenderTimers \/ SenderUser \/ SenderPowerLoss
ReceiverStep == ReceiverPackets \/ SendPendingAccept \/ ReceiveTimeout
                \/ ReceiverFinish \/ ReceiverUser \/ ReceiverPowerLoss

LEMMA Arithmetic ==
  /\ NumChunks \in Nat \ {0} /\ MaxRetries \in Nat /\ MaxApprovalRetries \in Nat
  /\ MaxSessions \in Nat /\ Capacity \in Nat /\ MaxFaults \in Nat
  /\ 0 \in 0..NumChunks /\ NumChunks \in 0..NumChunks
  /\ \A k \in 0..NumChunks : k < NumChunks => k + 1 \in 0..NumChunks
  BY ConstantsAssumption

\* The packet that a queue loses.
LEMMA Taken ==
  ASSUME NEW q \in Seq(Packets), Len(q) <= Capacity, q # <<>>
  PROVE  /\ Head(q) \in OnWay(q) /\ Head(q) \in Packets
         /\ Tail(q) \in Seq(Packets) /\ Len(Tail(q)) <= Capacity
         /\ OnWay(Tail(q)) \subseteq OnWay(q)
  <1>1. Len(q) \in Nat /\ Len(Tail(q)) \in Nat /\ Capacity \in Nat /\ Len(Tail(q)) <= Len(q)
    BY HeadFacts, Arithmetic
  <1>2. Len(Tail(q)) <= Capacity
    BY <1>1
  <1> QED
    BY <1>2, HeadFacts

\* A step of the sender that leaves its place in the file alone, unless it gives
\* up: it sends offers only before one is accepted.
OffersOnly == IF snd.state \in Preparing THEN Only({"Offer"}, snd.session) ELSE {}
QuietSender ==
  /\ SndType' /\ (snd'.state # "off" => snd.state # "off")
  /\ snd'.session = snd.session /\ snd'.seq \in {snd.seq, 0}
  /\ \/ snd'.state \in {"off", "Error"}
     \/ snd'.seq = snd.seq /\ (snd'.state = snd.state \/ {snd.state, snd'.state} \subseteq Preparing)
  /\ OnWay(toS') \subseteq OnWay(toS)
  /\ OnWay(toR') \subseteq OnWay(toR) \cup Only({"Discover", "Cancel"}, snd.session) \cup OffersOnly
  /\ rcv.state = "off" => toR' = toR
  /\ RadioType' /\ faults' \in 0..MaxFaults
  /\ UNCHANGED <<rcv, card, started>>

\* The same for the chunk, or the end of the file, that the sender sends.
SendsChunk(seq) ==
  /\ snd.state \in {"WaitingForApproval", "Sending"} /\ snd'.state = "Sending" /\ SndType'
  /\ snd'.session = snd.session /\ snd'.seq = seq
  /\ OnWay(toS') \subseteq OnWay(toS)
  /\ \E p \in Packets : /\ p.session = snd.session
                        /\ \/ p.type = "Data" /\ p.n = seq /\ seq < NumChunks
                           \/ p.type = "Complete" /\ p.n = NumChunks
                        /\ OnWay(toR') \subseteq OnWay(toR) \cup {p}
  /\ rcv.state = "off" => toR' = toR
  /\ RadioType' /\ faults' \in 0..MaxFaults
  /\ UNCHANGED <<rcv, card, started>>

LEMMA WellTyped ==
  ASSUME Types, Sent
  PROVE  /\ toR \in Seq(Packets) /\ Len(toR) <= Capacity /\ toS \in Seq(Packets) /\ Len(toS) <= Capacity
         /\ <<>> \in Seq(Packets) /\ Len(<<>>) <= Capacity /\ OnWay(<<>>) = {}
         /\ faults \in 0..MaxFaults /\ (Fault => faults' \in 0..MaxFaults)
  BY OneOnWay, Arithmetic DEF Types, RadioType, CountType, Fault

\* setError of the sender.
LEMMA SenderFailed ==
  ASSUME Types, Sent, snd.state # "off", SenderFails, toS' \in {toS, Tail(toS)}, toS' # toS => toS # <<>>,
         faults' \in 0..MaxFaults, UNCHANGED <<rcv, card, started>>
  PROVE  QuietSender
  <1>1. /\ toR' \in Seq(Packets) /\ Len(toR') <= Capacity
        /\ OnWay(toR') \subseteq OnWay(toR) \cup {Packet("Cancel", snd.session, 0)}
        /\ rcv.state = "off" => toR' = toR
    BY SenderCancels DEF SenderFails
  <1>2. Packet("Cancel", snd.session, 0) \in Only({"Discover", "Cancel"}, snd.session)
    BY SenderCancels DEF Only, Packet
  <1>3. toS' \in Seq(Packets) /\ Len(toS') <= Capacity /\ OnWay(toS') \subseteq OnWay(toS)
    BY WellTyped, Taken
  <1>4. SndType' /\ snd'.session = snd.session /\ snd'.seq = snd.seq /\ snd'.state = "Error"
    BY DEF Types, SndType, SenderFails, SenderStates
  <1> QED
    BY <1>1, <1>2, <1>3, <1>4 DEF QuietSender, RadioType

\* A packet of these types goes out, and a packet may have been taken in.
LEMMA SenderSent ==
  ASSUME Types, Sent, snd.state # "off",
         NEW type \in {"Discover", "Offer"}, type = "Offer" => snd.state \in Preparing,
         toR' = SentByS(S(type, 0))
  PROVE  /\ toR' \in Seq(Packets) /\ Len(toR') <= Capacity
         /\ OnWay(toR') \subseteq OnWay(toR) \cup Only({"Discover", "Cancel"}, snd.session) \cup OffersOnly
         /\ rcv.state = "off" => toR' = toR
  <1>1. type \in PacketTypes /\ 0 \in 0..NumChunks
    BY Arithmetic DEF PacketTypes
  <1>2. /\ Packet(type, snd.session, 0) \in Packets
        /\ toR' \in Seq(Packets) /\ Len(toR') <= Capacity
        /\ OnWay(toR') \subseteq OnWay(toR) \cup {Packet(type, snd.session, 0)}
        /\ rcv.state = "off" => toR' = toR
    BY <1>1, SenderSends
  <1>3. Packet(type, snd.session, 0) \in Only({"Discover", "Cancel"}, snd.session) \cup OffersOnly
    BY <1>2 DEF Only, OffersOnly, Packet
  <1> QED
    BY <1>2, <1>3

LEMMA QuietSenders ==
  ASSUME Types, Sent,
         \/ DiscoverAgain \/ HandleAdvertise \/ SelectPeer \/ HandleReject \/ SenderCancelled
         \/ SenderDrops \/ OfferAgain \/ SenderExit \/ SenderPowerLoss
  PROVE  QuietSender
  <1>0. /\ toR \in Seq(Packets) /\ Len(toR) <= Capacity /\ toS \in Seq(Packets) /\ Len(toS) <= Capacity
        /\ <<>> \in Seq(Packets) /\ Len(<<>>) <= Capacity /\ OnWay(<<>>) = {}
        /\ faults \in 0..MaxFaults /\ SndType
    BY WellTyped DEF Types
  <1>s. ASSUME UNCHANGED snd PROVE SndType'
    BY <1>0, <1>s DEF SndType
  <1>1. CASE DiscoverAgain
    <2>1. snd.state = "Discovering" /\ toR' = SentByS(S("Discover", 0))
          /\ UNCHANGED <<rcv, card, started, snd, toS, faults>>
      BY <1>1 DEF DiscoverAgain, SenderOnly
    <2> QED
      BY <1>0, <1>s, <2>1, SenderSent DEF QuietSender, RadioType
  <1>2. CASE HandleAdvertise
    <2>1. snd' = [snd EXCEPT !.state = "DeviceList"] /\ toS' = Tail(toS) /\ toS # <<>>
          /\ snd.state = "Discovering" /\ UNCHANGED <<rcv, card, started, toR, faults>>
      BY <1>2 DEF HandleAdvertise, SenderOnly, SenderGets
    <2>2. SndType' /\ snd'.session = snd.session /\ snd'.seq = snd.seq /\ snd'.state = "DeviceList"
      BY <1>0, <2>1 DEF SndType, SenderStates
    <2> QED
      BY <1>0, <1>2, <2>1, <2>2, Taken DEF QuietSender, RadioType, Preparing
  <1>3. CASE SelectPeer
    <2>1. snd' = [snd EXCEPT !.state = "WaitingForApproval", !.peer = TRUE, !.retry = 0]
          /\ toR' = SentByS(S("Offer", 0))
          /\ snd.state = "DeviceList" /\ UNCHANGED <<rcv, card, started, toS, faults>>
      BY <1>3 DEF SelectPeer, SenderOnly
    <2>2. SndType' /\ snd'.session = snd.session /\ snd'.seq = snd.seq /\ snd'.state = "WaitingForApproval"
      <3>1. /\ snd'.state = "WaitingForApproval" /\ snd'.session = snd.session /\ snd'.peer = TRUE
            /\ snd'.seq = snd.seq /\ snd'.pending = snd.pending /\ snd'.retry = 0
        BY <1>0, <2>1 DEF SndType
      <3>2. snd' \in [state : SenderStates, session : 0..MaxSessions, peer : BOOLEAN,
                      seq : 0..NumChunks, pending : BOOLEAN, retry : Nat]
        BY <1>0, <2>1 DEF SndType, SenderStates
      <3>3. 0 <= MaxApprovalRetries /\ 0 <= MaxRetries + MaxApprovalRetries
        BY Arithmetic
      <3> QED
        BY <1>0, <3>1, <3>2, <3>3 DEF SndType
    <2> QED
      BY <1>0, <2>1, <2>2, SenderSent DEF QuietSender, RadioType, Preparing
  <1>4. CASE HandleReject \/ SenderCancelled
    <2>1. SenderFails /\ toS' = Tail(toS) /\ toS # <<>> /\ snd.state # "off"
          /\ UNCHANGED <<rcv, card, started, faults>>
      BY <1>4 DEF HandleReject, SenderCancelled, SenderOnly, SenderGets, NoFault
    <2> QED
      BY <1>0, <2>1, SenderFailed
  <1>5. CASE SenderDrops
    <2>1. toS # <<>> /\ toS' = Tail(toS) /\ UNCHANGED <<rcv, card, started, faults, snd, toR>>
      BY <1>5 DEF SenderDrops, SenderOnly
    <2> QED
      BY <1>0, <1>s, <2>1, Taken DEF QuietSender, RadioType
  <1>6. CASE OfferAgain
    <2>1. CASE /\ snd.retry < MaxApprovalRetries
               /\ snd' = [snd EXCEPT !.retry = @ + 1]
               /\ toR' = SentByS(S("Offer", 0))
      <3>1. snd.state = "WaitingForApproval" /\ UNCHANGED <<rcv, card, started, toS, faults>>
        BY <1>6 DEF OfferAgain, SenderOnly
      <3>2. /\ snd'.state = snd.state /\ snd'.session = snd.session /\ snd'.peer = snd.peer
            /\ snd'.seq = snd.seq /\ snd'.pending = snd.pending /\ snd'.retry = snd.retry + 1
            /\ snd.retry \in Nat
        BY <1>0, <2>1 DEF SndType
      <3>3. snd' \in [state : SenderStates, session : 0..MaxSessions, peer : BOOLEAN,
                      seq : 0..NumChunks, pending : BOOLEAN, retry : Nat]
        BY <1>0, <2>1, <3>2 DEF SndType
      <3>4. snd'.retry <= MaxApprovalRetries /\ snd'.retry <= MaxRetries + MaxApprovalRetries
        BY <2>1, <3>2, Arithmetic
      <3>5. SndType'
        BY <1>0, <3>1, <3>2, <3>3, <3>4 DEF SndType
      <3>6. snd.state \in Preparing /\ snd.state # "off"
        BY <3>1 DEF Preparing
      <3>7. /\ toR' \in Seq(Packets) /\ Len(toR') <= Capacity
            /\ OnWay(toR') \subseteq OnWay(toR) \cup Only({"Discover", "Cancel"}, snd.session) \cup OffersOnly
            /\ rcv.state = "off" => toR' = toR
        BY <2>1, <3>6, SenderSent
      <3> QED
        BY <1>0, <3>1, <3>2, <3>5, <3>7 DEF QuietSender, RadioType
    <2>2. CASE SenderFails
      <3>1. snd.state # "off" /\ UNCHANGED <<rcv, card, started, toS, faults>>
        BY <1>6 DEF OfferAgain, SenderOnly
      <3> QED
        BY <1>0, <2>2, <3>1, SenderFailed
    <2> QED
      BY <1>6, <2>1, <2>2 DEF OfferAgain
  <1>7. CASE SenderExit \/ SenderPowerLoss
    <2>1. /\ snd.state # "off" /\ snd' = Off(snd.session) /\ toS' = <<>>
          /\ toR' = toR \/ toR' = SentByS(CancelToR)
          /\ UNCHANGED <<rcv, card, started, faults>>
      BY <1>7 DEF SenderExit, SenderPowerLoss, SenderOnly, NoFault
    <2>2. SndType' /\ snd'.session = snd.session /\ snd'.seq = 0 /\ snd'.state = "off"
      <3>1. 0 <= MaxRetries /\ 0 <= MaxApprovalRetries /\ 0 <= MaxRetries + MaxApprovalRetries /\ 0 \in 0..NumChunks
        BY Arithmetic
      <3> QED
        BY <1>0, <2>1, <3>1 DEF SndType, Off, SenderStates
    <2>3. /\ toR' \in Seq(Packets) /\ Len(toR') <= Capacity
          /\ OnWay(toR') \subseteq OnWay(toR) \cup Only({"Discover", "Cancel"}, snd.session)
          /\ rcv.state = "off" => toR' = toR
      <3>1. Packet("Cancel", snd.session, 0) \in Only({"Discover", "Cancel"}, snd.session)
        BY <2>1, SenderCancels DEF Only, Packet
      <3> QED
        BY <1>0, <2>1, <3>1, SenderCancels
    <2> QED
      BY <1>0, <2>1, <2>2, <2>3 DEF QuietSender, RadioType
  <1> QED
    BY <1>1, <1>2, <1>3, <1>4, <1>5, <1>6, <1>7

\* A chunk, or the end of the file, goes out.
LEMMA ChunkSent ==
  ASSUME Types, Sent, snd.state \in {"WaitingForApproval", "Sending"}, NEW seq \in 0..NumChunks,
         \/ snd' = [snd EXCEPT !.state = "Sending", !.seq = seq, !.pending = TRUE, !.retry = 0]
            /\ toR' = SentByS(S("Data", seq)) /\ seq < NumChunks
         \/ snd' = [snd EXCEPT !.retry = @ + 1] /\ snd.state = "Sending" /\ snd.retry < MaxRetries
            /\ toR' = SentByS(S("Data", seq)) /\ seq < NumChunks /\ seq = snd.seq
         \/ SendComplete(seq) /\ snd.state = "Sending",
         toS' \in {toS, Tail(toS)}, toS' # toS => toS # <<>>,
         faults' \in 0..MaxFaults, UNCHANGED <<rcv, card, started>>
  PROVE  SendsChunk(seq)
  <1>1. toS' \in Seq(Packets) /\ Len(toS') <= Capacity /\ OnWay(toS') \subseteq OnWay(toS)
    BY WellTyped, Taken
  <1>2. \E p \in Packets : /\ p.session = snd.session
                           /\ \/ p.type = "Data" /\ p.n = seq /\ seq < NumChunks
                              \/ p.type = "Complete" /\ p.n = NumChunks
                           /\ OnWay(toR') \subseteq OnWay(toR) \cup {p}
                           /\ toR' \in Seq(Packets) /\ Len(toR') <= Capacity
                           /\ rcv.state = "off" => toR' = toR
    <2>1. CASE toR' = SentByS(S("Data", seq)) /\ seq < NumChunks
      <3>1. "Data" \in PacketTypes /\ snd.state # "off"
        BY DEF PacketTypes
      <3> DEFINE p == Packet("Data", snd.session, seq)
      <3>2. p \in Packets /\ p.session = snd.session /\ p.type = "Data" /\ p.n = seq
        BY <3>1, SenderSends DEF Packet
      <3> HIDE DEF p
      <3>3. OnWay(toR') \subseteq OnWay(toR) \cup {p} /\ toR' \in Seq(Packets)
            /\ Len(toR') <= Capacity /\ (rcv.state = "off" => toR' = toR)
        BY <2>1, <3>1, SenderSends DEF p
      <3> QED
        BY <2>1, <3>2, <3>3
    <2>2. CASE toR' = SentByS(S("Complete", NumChunks))
      <3>1. "Complete" \in PacketTypes /\ snd.state # "off" /\ NumChunks \in 0..NumChunks
        BY Arithmetic DEF PacketTypes
      <3> DEFINE p == Packet("Complete", snd.session, NumChunks)
      <3>2. p \in Packets /\ p.session = snd.session /\ p.type = "Complete" /\ p.n = NumChunks
        BY <3>1, SenderSends DEF Packet
      <3> HIDE DEF p
      <3>3. OnWay(toR') \subseteq OnWay(toR) \cup {p} /\ toR' \in Seq(Packets)
            /\ Len(toR') <= Capacity /\ (rcv.state = "off" => toR' = toR)
        BY <2>2, <3>1, SenderSends DEF p
      <3> QED
        BY <3>2, <3>3
    <2> QED
      BY <2>1, <2>2 DEF SendComplete
  <1>3. SndType' /\ snd'.session = snd.session /\ snd'.seq = seq /\ snd'.state = "Sending"
    <2>0. SndType /\ 0 <= MaxRetries /\ 0 <= MaxRetries + MaxApprovalRetries
          /\ MaxRetries \in Nat /\ MaxApprovalRetries \in Nat
      BY Arithmetic DEF Types
    <2>1. CASE snd' = [snd EXCEPT !.state = "Sending", !.seq = seq, !.pending = TRUE, !.retry = 0]
               /\ seq < NumChunks
      BY <2>0, <2>1 DEF SndType, SenderStates
    <2>2. CASE snd' = [snd EXCEPT !.retry = @ + 1] /\ snd.state = "Sending" /\ snd.retry < MaxRetries
               /\ seq = snd.seq
      <3>1. /\ snd'.state = snd.state /\ snd'.session = snd.session /\ snd'.peer = snd.peer
            /\ snd'.seq = snd.seq /\ snd'.pending = snd.pending /\ snd'.retry = snd.retry + 1
            /\ snd.retry \in Nat
        BY <2>0, <2>2 DEF SndType
      <3>2. snd' \in [state : SenderStates, session : 0..MaxSessions, peer : BOOLEAN,
                      seq : 0..NumChunks, pending : BOOLEAN, retry : Nat]
        BY <2>0, <2>2, <3>1 DEF SndType
      <3>3. snd'.retry <= MaxRetries /\ snd'.retry <= MaxRetries + MaxApprovalRetries
        BY <2>0, <2>2, <3>1
      <3> QED
        BY <2>0, <2>2, <3>1, <3>2, <3>3 DEF SndType
    <2>3. CASE snd' = [snd EXCEPT !.seq = seq, !.pending = FALSE, !.retry = 0] /\ snd.state = "Sending"
      BY <2>0, <2>3 DEF SndType
    <2> QED
      BY <2>1, <2>2, <2>3 DEF SendComplete
  <1> QED
    BY <1>1, <1>2, <1>3 DEF SendsChunk, RadioType

LEMMA Chunks ==
  ASSUME Types, Sent, HandleAccept \/ HandleAck \/ SendAgain
  PROVE  \/ QuietSender
         \/ snd.state = "WaitingForApproval" /\ SendsChunk(0)
         \/ snd.state = "Sending" /\ SendsChunk(snd.seq)
         \/ /\ snd.state = "Sending" /\ SendsChunk(snd.seq + 1)
            /\ \E p \in OnWay(toS) : p.type = "Ack" /\ p.session = snd.session /\ p.n = snd.seq + 1
  <1>0. snd.seq \in 0..NumChunks /\ faults \in 0..MaxFaults /\ (Fault => faults' \in 0..MaxFaults)
        /\ (snd.pending => snd.seq < NumChunks) /\ 0 \in 0..NumChunks /\ 0 < NumChunks
    BY WellTyped, Arithmetic DEF Types, SndType
  <1>1. CASE HandleAccept
    <2>1. /\ snd.state = "WaitingForApproval" /\ toS' = Tail(toS) /\ toS # <<>>
          /\ (SendNextChunk(0) /\ NoFault) \/ (SenderFails /\ Fault)
          /\ UNCHANGED <<rcv, card, started>>
      BY <1>1 DEF HandleAccept, SenderGets, SenderOnly
    <2>2. CASE SendNextChunk(0) /\ NoFault
      BY <1>0, <2>1, <2>2, ChunkSent DEF SendNextChunk, NoFault
    <2>3. CASE SenderFails /\ Fault
      BY <1>0, <2>1, <2>3, SenderFailed
    <2> QED
      BY <2>1, <2>2, <2>3
  <1>2. CASE HandleAck
    <2>1. /\ snd.state = "Sending" /\ toS' = Tail(toS) /\ toS # <<>>
          /\ UNCHANGED <<rcv, card, started>> /\ SenderGets("Ack") /\ Head(toS).n = snd.seq + 1
          /\ \/ snd.seq + 1 = NumChunks /\ SendComplete(snd.seq + 1) /\ NoFault
             \/ snd.seq + 1 < NumChunks /\ SendNextChunk(snd.seq + 1) /\ NoFault
             \/ SenderFails /\ Fault
      BY <1>2 DEF HandleAck, SenderGets, SenderOnly
    <2>2. \E p \in OnWay(toS) : p.type = "Ack" /\ p.session = snd.session /\ p.n = snd.seq + 1
      BY <2>1, WellTyped, Taken DEF SenderGets
    <2>3. CASE snd.seq + 1 = NumChunks /\ SendComplete(snd.seq + 1) /\ NoFault
      BY <1>0, <2>1, <2>2, <2>3, ChunkSent, Arithmetic DEF NoFault
    <2>4. CASE snd.seq + 1 < NumChunks /\ SendNextChunk(snd.seq + 1) /\ NoFault
      <3>1. snd.seq + 1 \in 0..NumChunks
        BY <1>0, <2>4, Arithmetic
      <3> QED
        BY <1>0, <2>1, <2>2, <2>4, <3>1, ChunkSent DEF SendNextChunk, NoFault
    <2>5. CASE SenderFails /\ Fault
      BY <1>0, <2>1, <2>5, SenderFailed
    <2> QED
      BY <2>1, <2>3, <2>4, <2>5
  <1>3. CASE SendAgain
    <2>1. snd.state = "Sending" /\ UNCHANGED <<rcv, card, started, toS, faults>>
      BY <1>3 DEF SendAgain, SenderOnly
    <2>2. CASE SenderFails
      BY <1>0, <2>1, <2>2, SenderFailed
    <2>3. CASE ~SenderFails
      <3>1. \/ /\ snd.retry < MaxRetries /\ snd.pending
               /\ snd' = [snd EXCEPT !.retry = @ + 1] /\ toR' = SentByS(S("Data", snd.seq))
            \/ SendComplete(snd.seq)
        BY <1>3, <2>3 DEF SendAgain
      <3> QED
        BY <1>0, <2>1, <3>1, ChunkSent
    <2> QED
      BY <2>2, <2>3
  <1> QED
    BY <1>1, <1>2, <1>3

-----------------------------------------------------------------------------
(* The sender keeps the invariant.                                         *)

LEMMA SenderTypes ==
  ASSUME Types, SndType', RadioType', faults' \in 0..MaxFaults, started' \in 0..MaxSessions,
         UNCHANGED <<rcv, card>>
  PROVE  Types'
  BY DEF Types, RcvType, CardType, CountType, card

LEMMA QuietSenderStep == IInv /\ QuietSender => IInv'
  <1> SUFFICES ASSUME IInv, QuietSender PROVE IInv'
    OBVIOUS
  <1>0. /\ Types /\ Sent /\ Joined /\ Before /\ Window /\ Files /\ Results
        /\ snd'.session = snd.session /\ started' = started
        /\ rcv' = rcv /\ disk' = disk /\ part' = part /\ backup' = backup
        /\ Stored' <=> Stored
    BY DEF IInv, Transfer, QuietSender, card, Stored
  <1>1. Types'
    BY <1>0, SenderTypes DEF QuietSender, Types, CountType
  <1>2. \A p \in OnWay(toR') : \/ p \in OnWay(toR)
                               \/ /\ p \in Packets /\ p.session = snd.session
                                  /\ p.type \in {"Discover", "Cancel"} \/ (p.type = "Offer" /\ snd.state \in Preparing)
    BY DEF QuietSender, OffersOnly, Only
  <1>3. \A p \in OnWay(toS') : p \in OnWay(toS)
    BY DEF QuietSender
  <1>4. /\ snd'.seq > 0 => snd.seq > 0
        /\ snd'.state \in Preparing => snd.state \in Preparing
        /\ snd'.state = "Success" => snd.state = "Success"
        /\ snd'.state = "Sending" => snd.state = "Sending" /\ snd'.seq = snd.seq
    BY DEF QuietSender, Preparing
  <1>5. Sent'
    <2>1. snd.session \in Sessions => snd.session \in 1..started
      BY <1>0 DEF Sent, Sessions
    <2>2. snd'.state # "off" => started # 0
      BY <1>0 DEF Sent, QuietSender
    <2> QED
      BY <1>0, <1>2, <1>3, <2>1, <2>2 DEF Sent, Packets, QuietSender
  <1>6. Begun' => Begun
    BY <1>0, <1>3, <1>4 DEF Begun
  <1>7. Joined'
    BY <1>0, <1>2, <1>6 DEF Joined, Before
  <1>8. Before'
    BY <1>0, <1>2, <1>3, <1>4, <1>6 DEF Before
  <1>9. Window'
    BY <1>0, <1>2, <1>3, <1>4 DEF Window
  <1>10. Files' /\ Results'
    BY <1>0, <1>3, <1>4 DEF Files, Results
  <1> QED
    BY <1>1, <1>5, <1>7, <1>8, <1>9, <1>10 DEF IInv, Transfer

LEMMA ChunkStep ==
  ASSUME IInv,
         \/ snd.state = "WaitingForApproval" /\ SendsChunk(0)
         \/ snd.state = "Sending" /\ SendsChunk(snd.seq)
         \/ /\ snd.state = "Sending" /\ SendsChunk(snd.seq + 1)
            /\ \E p \in OnWay(toS) : p.type = "Ack" /\ p.session = snd.session /\ p.n = snd.seq + 1
  PROVE  IInv'
  <1>1. PICK k \in {0, snd.seq, snd.seq + 1} :
          /\ SendsChunk(k)
          /\ \/ snd.state = "WaitingForApproval" /\ k = 0
             \/ snd.state = "Sending" /\ k = snd.seq
             \/ /\ snd.state = "Sending" /\ k = snd.seq + 1
                /\ \E p \in OnWay(toS) : p.type = "Ack" /\ p.session = snd.session /\ p.n = k
    OBVIOUS
  <1>0. /\ Types /\ Sent /\ Joined /\ Before /\ Window /\ Files /\ Results
        /\ snd'.session = snd.session /\ started' = started /\ snd'.seq = k /\ snd'.state = "Sending"
        /\ rcv' = rcv /\ disk' = disk /\ part' = part /\ backup' = backup
        /\ Stored' <=> Stored
        /\ snd.seq \in Nat /\ rcv.seq \in Nat /\ NumChunks \in Nat
    BY <1>1, Arithmetic DEF IInv, Transfer, SendsChunk, card, Stored, Types, SndType, RcvType
  <1>2. Types'
    BY <1>0, <1>1, SenderTypes DEF SendsChunk, Types, CountType
  <1>3. PICK new \in Packets : /\ new.session = snd.session
                               /\ \/ new.type = "Data" /\ new.n = k /\ k < NumChunks
                                  \/ new.type = "Complete" /\ new.n = NumChunks
                               /\ OnWay(toR') \subseteq OnWay(toR) \cup {new}
    BY <1>1 DEF SendsChunk
  <1>4. \A p \in OnWay(toS') : p \in OnWay(toS)
    BY <1>1 DEF SendsChunk
  <1>5. k \in Nat /\ (snd.state = "WaitingForApproval" => snd.seq = 0 /\ snd.state \in Preparing)
    <2>1. snd.state = "WaitingForApproval" => snd.state \in Preparing /\ ~(snd.seq > 0)
      BY <1>0 DEF Before, Preparing, Begun
    <2> QED
      BY <1>0, <1>1, <2>1
  <1>6. Sent'
    <2>1. new.session \in 1..started /\ started # 0
      BY <1>0, <1>1, <1>3 DEF Sent, Packets, Sessions
    <2>2. new.type = "Data" => new.n \in 0..(NumChunks - 1)
      BY <1>0, <1>3, <1>5
    <2>3. rcv.state = "off" => toR' = <<>>
      BY <1>0, <1>1 DEF Sent, SendsChunk
    <2> QED
      BY <1>0, <1>3, <1>4, <2>1, <2>2, <2>3 DEF Sent
  <1>7. Begun' => Begun
    BY <1>0, <1>1, <1>4, <1>5 DEF Begun
  <1>8. Joined'
    BY <1>0, <1>3, <1>7 DEF Joined
  <1>9. Before'
    BY <1>0 DEF Before, Preparing
  <1>10. Window'
    <2>1. \A p \in OnWay(toR') : p.type = "Data" /\ p.session = snd.session => p.n <= k
      <3>1. CASE snd.state = "WaitingForApproval"
        BY <1>0, <1>1, <1>3, <1>5, <3>1 DEF Before
      <3>2. CASE snd.state = "Sending"
        <4>1. k >= snd.seq
          BY <1>0, <1>1, <3>2
        <4>2. \A p \in OnWay(toR) : p.type = "Data" => p.n \in Nat
          BY <1>0 DEF Sent
        <4>3. \A p \in OnWay(toR) : p.type = "Data" /\ p.session = snd.session => p.n <= snd.seq
          BY <1>0, <3>2 DEF Window
        <4> QED
          BY <1>0, <1>3, <1>5, <4>1, <4>2, <4>3
      <3> QED
        BY <1>1, <3>1, <3>2
    <2>2. ASSUME rcv.state = "Receiving", rcv.session = snd.session
          PROVE  rcv.seq \in {k, k + 1}
      <3>1. CASE snd.state = "WaitingForApproval"
        BY <1>0, <1>1, <1>5, <2>2, <3>1 DEF Before
      <3>2. CASE snd.state = "Sending"
        <4>1. rcv.seq \in {snd.seq, snd.seq + 1}
          BY <1>0, <2>2, <3>2 DEF Window
        <4>2. k = snd.seq + 1 => k <= rcv.seq \/ k = snd.seq
          BY <1>0, <1>1, <2>2, <3>2 DEF Window
        <4> QED
          BY <1>0, <1>1, <3>2, <4>1, <4>2
      <3> QED
        BY <1>1, <3>1, <3>2
    <2> QED
      BY <1>0, <1>4, <2>1, <2>2 DEF Window
  <1>11. Files' /\ Results'
    BY <1>0, <1>4 DEF Files, Results
  <1> QED
    BY <1>2, <1>6, <1>8, <1>9, <1>10, <1>11 DEF IInv, Transfer

LEMMA ResultStep == IInv /\ HandleResult => IInv'
  <1> SUFFICES ASSUME IInv, HandleResult PROVE IInv'
    OBVIOUS
  <1>0. Types /\ Sent /\ faults \in 0..MaxFaults
    BY WellTyped DEF IInv, Transfer
  <1>1. CASE SenderFails
    <2>1. toS' = Tail(toS) /\ toS # <<>> /\ snd.state # "off" /\ UNCHANGED <<rcv, card, started, faults>>
      BY DEF HandleResult, SenderGets, SenderOnly, NoFault
    <2> QED
      BY <1>0, <1>1, <2>1, SenderFailed, QuietSenderStep
  <1>2. CASE ~SenderFails
    <2>0. /\ Types /\ Sent /\ Joined /\ Before /\ Window /\ Files /\ Results
          /\ SenderGets("ResultOk") /\ snd.state = "Sending"
          /\ snd' = [snd EXCEPT !.state = "Success"] /\ toS' = Tail(toS) /\ toR' = toR
          /\ started' = started /\ faults' = faults
          /\ rcv' = rcv /\ disk' = disk /\ part' = part /\ backup' = backup
      BY <1>2 DEF IInv, Transfer, HandleResult, SenderOnly, NoFault, card
    <2>1. SndType' /\ snd'.session = snd.session /\ snd'.seq = snd.seq /\ snd'.state = "Success"
      BY <2>0 DEF Types, SndType, SenderStates
    <2>2. toS' \in Seq(Packets) /\ Len(toS') <= Capacity /\ \A p \in OnWay(toS') : p \in OnWay(toS)
      BY <2>0, WellTyped, Taken DEF SenderGets
    <2>3. Types'
      BY <2>0, <2>1, <2>2, SenderTypes DEF RadioType, Types, CountType, card
    <2>4. Stored /\ (Stored' <=> Stored)
      <3>1. \E p \in OnWay(toS) : p.type = "ResultOk" /\ p.session = snd.session
        BY <2>0, WellTyped, Taken DEF SenderGets
      <3>2. Stored
        BY <2>0, <3>1 DEF Results
      <3> QED
        BY <2>0, <2>1, <3>2 DEF Stored
    <2>5. Begun
      BY <2>4 DEF Begun
    <2>6. Sent'
      BY <2>0, <2>1, <2>2 DEF Sent
    <2>7. Joined' /\ Before' /\ Window' /\ Files' /\ Results'
      BY <2>0, <2>1, <2>2, <2>4, <2>5 DEF Joined, Before, Window, Files, Results, Preparing
    <2> QED
      BY <2>3, <2>6, <2>7 DEF IInv, Transfer
  <1> QED
    BY <1>1, <1>2

\* A new transfer: nothing knows of its session.
LEMMA DiscoveryStep == IInv /\ StartDiscovery => IInv'
  <1> SUFFICES ASSUME IInv, StartDiscovery PROVE IInv'
    OBVIOUS
  <1> DEFINE s == started + 1
             new == Packet("Discover", s, 0)
  <1>0. /\ Types /\ Sent /\ Joined /\ Before /\ Window /\ Files /\ Results
        /\ started' = s /\ snd' = [Off(s) EXCEPT !.state = "Discovering"]
        /\ toR' = SentByS(<<new>>) /\ toS' = toS /\ faults' = faults
        /\ rcv' = rcv /\ disk' = disk /\ part' = part /\ backup' = backup
        /\ started < MaxSessions
    BY DEF IInv, Transfer, StartDiscovery, card
  <1>1. started \in Nat /\ s \in Nat /\ s \in Sessions /\ s \in 0..MaxSessions /\ s > started
        /\ MaxSessions \in Nat /\ NumChunks \in Nat \ {0} /\ faults \in 0..MaxFaults
        /\ MaxRetries \in Nat /\ MaxApprovalRetries \in Nat /\ 0 <= MaxRetries + MaxApprovalRetries
    BY <1>0, Arithmetic DEF Types, CountType, Sessions
  <1>2. new \in Packets /\ new.type = "Discover" /\ new.session = s /\ new.n = 0
    BY <1>1, Arithmetic DEF Packets, PacketTypes, Packet
  <1>3. /\ toR' \in Seq(Packets) /\ Len(toR') <= Capacity
        /\ OnWay(toR') \subseteq OnWay(toR) \cup {new}
        /\ rcv.state = "off" => toR' = toR
    <2>1. <<new>> \in Seq(Packets) /\ OnWay(<<new>>) = {new}
      BY <1>2, OneOnWay
    <2>2. toR \in Seq(Packets) /\ Len(toR) <= Capacity
      BY <1>0, WellTyped
    <2> HIDE DEF new
    <2>3. /\ Queue(toR, <<new>>) \in Seq(Packets) /\ Len(Queue(toR, <<new>>)) <= Capacity
          /\ OnWay(Queue(toR, <<new>>)) \subseteq OnWay(toR) \cup {new}
      BY <2>1, <2>2, QueueFacts
    <2> QED
      BY <1>0, <2>2, <2>3 DEF SentByS
  <1> HIDE DEF s, new
  <1>4. /\ snd'.state = "Discovering" /\ snd'.session = s /\ snd'.seq = 0 /\ snd'.retry = 0
        /\ snd'.pending = FALSE /\ snd'.peer = FALSE
    BY <1>0 DEF Off
  <1>5. SndType'
    <2>1. snd' = [state |-> "Discovering", session |-> s, peer |-> FALSE,
                  seq |-> 0, pending |-> FALSE, retry |-> 0]
      BY <1>0 DEF Off
    <2>2. snd' \in [state : SenderStates, session : 0..MaxSessions, peer : BOOLEAN,
                    seq : 0..NumChunks, pending : BOOLEAN, retry : Nat]
      BY <1>1, <2>1, Arithmetic DEF SenderStates
    <2> QED
      BY <1>1, <1>4, <2>2 DEF SndType
  <1>6. Types'
    <2>1. RadioType' /\ faults' \in 0..MaxFaults /\ started' \in 0..MaxSessions
      BY <1>0, <1>1, <1>3 DEF Types, RadioType
    <2> QED
      BY <1>0, <1>5, <2>1, SenderTypes DEF card
  <1>7. \A p \in OnWay(toR) \cup OnWay(toS) : p.session \in 1..started /\ p.session # s
    BY <1>0, <1>1 DEF Sent
  <1>8. rcv.session \in 0..started /\ rcv.session # s
    BY <1>0, <1>1 DEF Sent
  <1>9. 1..started \subseteq 1..s /\ 0..started \subseteq 0..s /\ s \in 1..s
    <2>1. s >= 1
      BY <1>1 DEF s
    <2> QED
      BY <1>1, <2>1
  <1>10. Sent'
    BY <1>0, <1>1, <1>2, <1>3, <1>4, <1>7, <1>8, <1>9 DEF Sent
  <1>11. ~Stored' /\ \A t \in Names : backup'[t] # File(s)
    <2>1. ASSUME NEW f, WholeSince(f, started), f = File(s) PROVE FALSE
      <3>1. f # NoFile /\ f # Old
        BY <1>1, <2>1, FileFacts
      <3>2. PICK r \in 1..started : f = File(r)
        BY <2>1, <3>1 DEF WholeSince
      <3>3. r = s
        BY <2>1, <3>2, FileFacts
      <3> QED
        BY <1>1, <3>3
    <2>2. \A t \in Names : WholeSince(disk[t], started) /\ WholeSince(backup[t], started)
      BY <1>0 DEF Files
    <2>3. \A t \in Names : disk[t] # File(s) /\ backup[t] # File(s)
      BY <2>1, <2>2
    <2> QED
      BY <1>0, <1>4, <2>3 DEF Stored
  <1>12. ~Begun'
    BY <1>0, <1>4, <1>7, <1>11 DEF Begun
  <1>13. Joined' /\ Before' /\ Window' /\ Results'
    BY <1>0, <1>2, <1>3, <1>4, <1>7, <1>8, <1>11, <1>12 DEF Joined, Before, Window, Results
  <1>14. Files'
    <2>1. \A f : WholeSince(f, started) => WholeSince(f, s)
      BY <1>9 DEF WholeSince
    <2> QED
      BY <1>0, <1>4, <1>8, <2>1 DEF Files
  <1> QED
    BY <1>6, <1>10, <1>13, <1>14 DEF IInv, Transfer

LEMMA SenderKeeps == IInv /\ SenderStep => IInv'
  <1> SUFFICES ASSUME IInv, SenderStep PROVE IInv'
    OBVIOUS
  <1>1. Types /\ Sent
    BY DEF IInv, Transfer
  <1>2. CASE StartDiscovery
    BY <1>2, DiscoveryStep
  <1>3. CASE HandleResult
    BY <1>3, ResultStep
  <1>4. CASE HandleAccept \/ HandleAck \/ SendAgain
    BY <1>1, <1>4, Chunks, ChunkStep, QuietSenderStep
  <1>5. CASE \/ DiscoverAgain \/ HandleAdvertise \/ SelectPeer \/ HandleReject \/ SenderCancelled
             \/ SenderDrops \/ OfferAgain \/ SenderExit \/ SenderPowerLoss
    BY <1>1, <1>5, QuietSenders, QuietSenderStep
  <1> QED
    BY <1>2, <1>3, <1>4, <1>5 DEF SenderStep, SenderPackets, SenderTimers, SenderUser

\* The radio loses a packet: the sender's side of it is a quiet step.
LEMMA LossStep == IInv /\ LosePacket => IInv'
  <1> SUFFICES ASSUME IInv, LosePacket PROVE IInv'
    OBVIOUS
  <1>1. /\ Types /\ Sent
        /\ UNCHANGED <<snd, rcv, card, started, faults>>
        /\ \/ toR # <<>> /\ toR' = Tail(toR) /\ UNCHANGED toS
           \/ toS # <<>> /\ toS' = Tail(toS) /\ UNCHANGED toR
    BY DEF IInv, Transfer, LosePacket
  <1>2. RadioType' /\ OnWay(toR') \subseteq OnWay(toR) /\ OnWay(toS') \subseteq OnWay(toS)
    BY <1>1, WellTyped, Taken DEF RadioType
  <1>3. rcv.state = "off" => toR' = toR
    BY <1>1 DEF Sent
  <1>4. SndType' /\ faults' \in 0..MaxFaults
    BY <1>1 DEF Types, SndType, CountType
  <1>5. QuietSender
    BY <1>1, <1>2, <1>3, <1>4 DEF QuietSender
  <1> QED
    BY <1>5, QuietSenderStep

-----------------------------------------------------------------------------
(* The receiver keeps the invariant.                                       *)

\* A step of the receiver that moves no file and tells the sender nothing of
\* one: it stays where it is, fails, leaves, or waits for an offer.
StaysPut ==
  /\ rcv'.state = rcv.state \/ (rcv.state = "OfferPrompt" /\ rcv'.state = "CollisionPrompt")
  /\ rcv'.session = rcv.session /\ rcv'.peer = rcv.peer /\ rcv'.seq = rcv.seq
  /\ rcv'.target = rcv.target /\ rcv'.step = rcv.step
  /\ part' = part /\ backup' = backup
Fails ==
  /\ rcv'.state = "Error" /\ rcv'.session = rcv.session /\ rcv'.peer = rcv.peer /\ rcv'.step = "none"
  /\ \A t \in Names : backup'[t] \in {backup[t], NoFile}
Leaves == rcv'.state = "off" /\ rcv' = Away /\ backup' = backup
Listens ==
  /\ rcv'.state = "Listening" /\ rcv'.session \in 0..started /\ (rcv'.peer => rcv'.session # 0)
  /\ rcv'.seq = 0 /\ rcv'.step = "none"
  /\ rcv.state \in Prompts \cup {"off", "Listening"} /\ backup' = backup

Untold == Harmless \cup {"Advertise"}
QuietReceiver ==
  /\ StaysPut \/ Fails \/ Leaves \/ Listens
  /\ RcvType' /\ RadioType' /\ faults' \in 0..MaxFaults
  /\ DOMAIN part' = Names /\ DOMAIN backup' = Names
  /\ OnWay(toR') \subseteq OnWay(toR) /\ (rcv'.state = "off" => toR' = <<>>)
  /\ \A p \in OnWay(toS') : p \in OnWay(toS) \/ (p.type \in Untold /\ p.session \in 1..started)
  /\ UNCHANGED <<snd, started, disk>>

LEMMA ReceiverTypes ==
  ASSUME Types, RcvType', RadioType', faults' \in 0..MaxFaults,
         DOMAIN disk' = Names, DOMAIN part' = Names, DOMAIN backup' = Names,
         UNCHANGED <<snd, started>>
  PROVE  Types'
  BY DEF Types, SndType, CardType, CountType

LEMMA QuietReceiverStep == IInv /\ QuietReceiver => IInv'
  <1> SUFFICES ASSUME IInv, QuietReceiver PROVE IInv'
    OBVIOUS
  <1>0. /\ Types /\ Sent /\ Joined /\ Before /\ Window /\ Files /\ Results
        /\ snd' = snd /\ started' = started /\ disk' = disk
        /\ Stored' <=> Stored
    BY DEF IInv, Transfer, QuietReceiver, Stored
  <1>1. Types'
    BY <1>0, ReceiverTypes DEF QuietReceiver, Types, CardType
  <1>2. /\ \A p \in OnWay(toR') : p \in OnWay(toR)
        /\ \A p \in OnWay(toS') : p \in OnWay(toS) \/ (p.type \in Untold /\ p.session \in 1..started)
        /\ rcv'.state = "off" => toR' = <<>>
    BY DEF QuietReceiver
  <1>3. "Ack" \notin Untold /\ "ResultOk" \notin Untold
    BY DEF Untold, Harmless
  <1>4. Begun' => Begun
    BY <1>0, <1>2, <1>3 DEF Begun
  <1>5. Results'
    BY <1>0, <1>2, <1>3 DEF Results
  <1>6. \A t \in Names : WholeSince(disk'[t], started')
    BY <1>0 DEF Files
  <1>7. CASE StaysPut
    <2>1. Sent'
      BY <1>0, <1>2, <1>7 DEF Sent, StaysPut, Prompts
    <2>2. Joined'
      BY <1>0, <1>2, <1>4, <1>7 DEF Joined, StaysPut, Prompts
    <2>3. Before' /\ Window'
      BY <1>0, <1>2, <1>3, <1>4, <1>7 DEF Before, Window, StaysPut
    <2>4. Files'
      BY <1>0, <1>7 DEF Files, StaysPut
    <2> QED
      BY <1>1, <1>5, <2>1, <2>2, <2>3, <2>4 DEF IInv, Transfer
  <1>8. CASE Fails
    <2>1. Sent'
      BY <1>0, <1>2, <1>8 DEF Sent, Fails, Prompts
    <2>2. Joined'
      BY <1>0, <1>2, <1>4, <1>8 DEF Joined, Fails, Prompts
    <2>3. Before' /\ Window'
      BY <1>0, <1>2, <1>3, <1>4, <1>8, FileFacts DEF Before, Window, Fails
    <2>4. Files'
      BY <1>0, <1>6, <1>8 DEF Files, Fails, WholeSince
    <2> QED
      BY <1>1, <1>5, <2>1, <2>2, <2>3, <2>4 DEF IInv, Transfer
  <1>9. CASE Leaves
    <2>0. rcv'.state = "off" /\ rcv'.session = 0 /\ rcv'.peer = FALSE /\ rcv'.seq = 0 /\ rcv'.step = "none"
          /\ toR' = <<>> /\ OnWay(toR') = {} /\ backup' = backup /\ 0 \in 0..started
      BY <1>0, <1>2, <1>9, OneOnWay DEF Leaves, Away, Types, CountType
    <2>1. Sent'
      BY <1>0, <1>2, <2>0 DEF Sent, Prompts
    <2>2. Joined'
      BY <1>0, <1>2, <1>4, <2>0 DEF Joined, Prompts
    <2>3. Before' /\ Window'
      BY <1>0, <1>2, <1>3, <1>4, <2>0 DEF Before, Window
    <2>4. Files'
      BY <1>0, <1>6, <2>0 DEF Files
    <2> QED
      BY <1>1, <1>5, <2>1, <2>2, <2>3, <2>4 DEF IInv, Transfer
  <1>10. CASE Listens
    <2>1. Sent'
      BY <1>0, <1>2, <1>10 DEF Sent, Listens, Prompts
    <2>2. Joined'
      <3> SUFFICES ASSUME Begun' PROVE \A p \in OnWay(toR') : p.type # "Offer"
        BY <1>10 DEF Joined, Listens, Prompts
      <3>1. Begun /\ rcv.state \in {"off", "Listening"}
        BY <1>0, <1>4, <1>10 DEF Joined, Listens
      <3> QED
        BY <1>0, <1>2, <3>1 DEF Joined
    <2>3. Before' /\ Window'
      BY <1>0, <1>2, <1>3, <1>4, <1>10 DEF Before, Window, Listens
    <2>4. Files'
      BY <1>0, <1>6, <1>10 DEF Files, Listens
    <2> QED
      BY <1>1, <1>5, <2>1, <2>2, <2>3, <2>4 DEF IInv, Transfer
  <1> QED
    BY <1>7, <1>8, <1>9, <1>10 DEF QuietReceiver

LEMMA ReceiverSession ==
  ASSUME Types, Sent, rcv.peer
  PROVE  rcv.session \in 1..started
  BY DEF Types, CountType, Sent

LEMMA ToldNothing ==
  ASSUME Types, Sent, rcv.peer, NEW q, OnWay(q) \subseteq OnWay(toS) \cup Only(Harmless, rcv.session)
  PROVE  \A p \in OnWay(q) : p \in OnWay(toS) \/ (p.type \in Untold /\ p.session \in 1..started)
  BY ReceiverSession DEF Only, Untold

LEMMA HarmlessSent ==
  ASSUME Types, Sent, rcv.peer, NEW ps \in Seq(Packets), OnWay(ps) \subseteq Only(Harmless, rcv.session),
         toS' = SentByR(ps)
  PROVE  /\ toS' \in Seq(Packets) /\ Len(toS') <= Capacity
         /\ \A p \in OnWay(toS') : p \in OnWay(toS) \/ (p.type \in Untold /\ p.session \in 1..started)
  <1>1. /\ toS' \in Seq(Packets) /\ Len(toS') <= Capacity
        /\ OnWay(toS') \subseteq OnWay(toS) \cup Only(Harmless, rcv.session)
    BY ReceiverSends
  <1> QED
    BY <1>1, ToldNothing

\* setError of the receiver tells the sender nothing of a file.
LEMMA FailsQuietly ==
  ASSUME Types, Sent, rcv.peer,
         NEW before \in Seq(Packets), OnWay(before) \subseteq Only(Harmless, rcv.session),
         NEW after \in Seq(Packets), OnWay(after) \subseteq Only(Harmless, rcv.session),
         ReceiverFails(before, after)
  PROVE  /\ RcvType' /\ DOMAIN part' = Names
         /\ rcv'.state = "Error" /\ rcv'.session = rcv.session /\ rcv'.peer = rcv.peer /\ rcv'.step = "none"
         /\ toS' \in Seq(Packets) /\ Len(toS') <= Capacity
         /\ \A p \in OnWay(toS') : p \in OnWay(toS) \/ (p.type \in Untold /\ p.session \in 1..started)
  <1>1. /\ rcv' = [rcv EXCEPT !.state = "Error", !.acceptPending = FALSE, !.step = "none"]
        /\ toS' \in Seq(Packets) /\ Len(toS') <= Capacity
        /\ OnWay(toS') \subseteq OnWay(toS) \cup Only(Harmless, rcv.session)
        /\ DOMAIN part' = DOMAIN part
    BY ReceiverFailed
  <1>2. RcvType /\ DOMAIN part = Names
    BY DEF Types, CardType
  <1>3. RcvType' /\ rcv'.state = "Error" /\ rcv'.session = rcv.session /\ rcv'.peer = rcv.peer
        /\ rcv'.step = "none"
    BY <1>1, <1>2 DEF RcvType, ReceiverStates, Steps
  <1> QED
    BY <1>1, <1>2, <1>3, ToldNothing

\* In what it sends before and after its Cancel the receiver may only refuse.
Refusals == {<<>>, R("ResultFailed", 0), R("Reject", 0), Cancels}

LEMMA QuietFailure ==
  ASSUME Types, Sent, rcv.peer, NEW before \in Refusals, NEW after \in Refusals,
         ReceiverFails(before, after),
         toR' \in {toR, Tail(toR)}, toR' # toR => toR # <<>>, faults' \in 0..MaxFaults,
         UNCHANGED <<snd, started, disk>>,
         backup' = backup \/ \E t : backup' = [backup EXCEPT ![t] = NoFile]
  PROVE  QuietReceiver
  <1>1. /\ before \in Seq(Packets) /\ OnWay(before) \subseteq Only(Harmless, rcv.session)
        /\ after \in Seq(Packets) /\ OnWay(after) \subseteq Only(Harmless, rcv.session)
    BY HarmlessPackets DEF Refusals, Harmless
  <1>2. /\ RcvType' /\ DOMAIN part' = Names
        /\ rcv'.state = "Error" /\ rcv'.session = rcv.session /\ rcv'.peer = rcv.peer /\ rcv'.step = "none"
        /\ toS' \in Seq(Packets) /\ Len(toS') <= Capacity
        /\ \A p \in OnWay(toS') : p \in OnWay(toS) \/ (p.type \in Untold /\ p.session \in 1..started)
    BY <1>1, FailsQuietly
  <1>3. toR' \in Seq(Packets) /\ Len(toR') <= Capacity /\ OnWay(toR') \subseteq OnWay(toR)
    BY WellTyped, Taken
  <1>4. DOMAIN backup' = Names /\ \A t \in Names : backup'[t] \in {backup[t], NoFile}
    BY DEF Types, CardType
  <1> QED
    BY <1>2, <1>3, <1>4 DEF QuietReceiver, Fails, RadioType

LEMMA FailingSteps ==
  ASSUME Types, Sent,
         \/ HandleCancel \/ AcceptFails \/ ReceiveTimeout \/ BackupFails
         \/ HandleData /\ rcv'.state = "Error"
         \/ HandleComplete /\ rcv'.state = "Error"
         \/ SendPendingAccept /\ rcv'.state = "Error"
  PROVE  QuietReceiver
  <1>0. /\ faults \in 0..MaxFaults /\ (Fault => faults' \in 0..MaxFaults)
        /\ (NoFault => faults' \in 0..MaxFaults)
        /\ (rcv.state \in Prompts \cup {"Receiving", "Success"} => rcv.peer)
        /\ (rcv.step # "none" => rcv.state = "Receiving")
        /\ (rcv.acceptPending => rcv.state \in {"Receiving", "Success"})
    BY WellTyped DEF NoFault, Types, RcvType, Sent
  <1>1. CASE HandleCancel
    <2>1. /\ rcv.peer /\ ReceiverFails(Cancels, <<>>) /\ toR' = Tail(toR) /\ toR # <<>>
          /\ UNCHANGED <<snd, started, disk, backup, faults>>
      BY <1>1 DEF HandleCancel, OfTransfer, ReceiverGets, ReceiverOnly
    <2> QED
      BY <1>0, <2>1, QuietFailure DEF Refusals
  <1>2. CASE AcceptFails
    <2>1. /\ rcv.state \in Prompts /\ faults' \in 0..MaxFaults
          /\ ReceiverFails(R("Reject", 0), <<>>) \/ ReceiverFails(<<>>, <<>>)
          /\ UNCHANGED <<snd, started, disk, backup, toR>>
      BY <1>0, <1>2 DEF AcceptFails, ReceiverOnly, Replacing, Prompts
    <2> QED
      BY <1>0, <2>1, QuietFailure DEF Refusals
  <1>3. CASE ReceiveTimeout
    <2>1. /\ rcv.state = "Receiving" /\ ReceiverFails(<<>>, <<>>)
          /\ UNCHANGED <<snd, started, disk, backup, toR, faults>>
      BY <1>3 DEF ReceiveTimeout, ReceiverOnly
    <2> QED
      BY <1>0, <2>1, QuietFailure DEF Refusals
  <1>4. CASE BackupFails
    <2>1. /\ rcv.state = "Receiving" /\ ReceiverFails(<<>>, R("ResultFailed", 0)) /\ Fault
          /\ backup' = [backup EXCEPT ![Target] = NoFile]
          /\ UNCHANGED <<snd, started, disk, toR>>
      BY <1>0, <1>4 DEF BackupFails, ReceiverOnly
    <2> QED
      BY <1>0, <2>1, QuietFailure DEF Refusals
  <1>5. CASE HandleData /\ rcv'.state = "Error"
    <2>1. /\ rcv.state = "Receiving" /\ rcv.peer /\ toR' = Tail(toR) /\ toR # <<>>
          /\ UNCHANGED <<snd, started, disk, backup>>
          /\ StoreChunk \/ UNCHANGED rcv
      BY <1>5 DEF HandleData, OfTransfer, ReceiverGets, ReceiverOnly
    <2>2. ReceiverFails(R("ResultFailed", 0), <<>>) /\ Fault
      <3>1. RcvType
        BY DEF Types
      <3>2. CASE rcv' = [rcv EXCEPT !.seq = @ + 1]
        BY <1>5, <2>1, <3>1, <3>2 DEF RcvType
      <3> QED
        BY <1>5, <2>1, <3>2 DEF StoreChunk
    <2> QED
      BY <1>0, <2>1, <2>2, QuietFailure DEF Refusals
  <1>6. CASE HandleComplete /\ rcv'.state = "Error"
    <2>1. /\ rcv.state = "Receiving" /\ rcv.peer /\ toR' = Tail(toR) /\ toR # <<>>
          /\ UNCHANGED <<snd, started, disk, backup>>
          /\ \/ rcv' = [rcv EXCEPT !.step = IF disk[rcv.target] # NoFile THEN "backup" ELSE "install"]
             \/ ReceiverFails(<<>>, R("ResultFailed", 0)) /\ faults' \in 0..MaxFaults
      BY <1>0, <1>6 DEF HandleComplete, OfTransfer, ReceiverGets, ReceiverOnly
    <2>2. ReceiverFails(<<>>, R("ResultFailed", 0)) /\ faults' \in 0..MaxFaults
      BY <1>6, <2>1 DEF Types, RcvType
    <2> QED
      BY <1>0, <2>1, <2>2, QuietFailure DEF Refusals
  <1>7. CASE SendPendingAccept /\ rcv'.state = "Error"
    <2>1. /\ rcv.state \in {"Receiving", "Success"}
          /\ UNCHANGED <<snd, started, disk, backup, toR>>
          /\ rcv' = [rcv EXCEPT !.acceptPending = FALSE] \/ (ReceiverFails(<<>>, <<>>) /\ Fault)
      BY <1>0, <1>7 DEF SendPendingAccept, ReceiverOnly
    <2>2. ReceiverFails(<<>>, <<>>) /\ Fault
      BY <1>7, <2>1 DEF Types, RcvType
    <2> QED
      BY <1>0, <2>1, <2>2, QuietFailure DEF Refusals
  <1> QED
    BY <1>1, <1>2, <1>3, <1>4, <1>5, <1>6, <1>7

\* The receiver's record after it starts to listen, or leaves.
LEMMA AwayTyped ==
  ASSUME Types, Sent
  PROVE  /\ \A s \in 0..started : LET r == [Away EXCEPT !.state = "Listening", !.session = s]
                                  IN  rcv' = r => /\ RcvType' /\ rcv'.state = "Listening" /\ rcv'.session = s
                                                  /\ rcv'.peer = FALSE /\ rcv'.seq = 0 /\ rcv'.step = "none"
         /\ rcv' = Away => RcvType' /\ rcv'.state = "off"
  <1>1. 0..started \subseteq 0..MaxSessions /\ 0 \in 0..MaxSessions /\ 0 \in 0..NumChunks
    BY Arithmetic DEF Types, CountType
  <1>2. ASSUME NEW s \in 0..started, rcv' = [Away EXCEPT !.state = "Listening", !.session = s]
        PROVE  /\ RcvType' /\ rcv'.state = "Listening" /\ rcv'.session = s
               /\ rcv'.peer = FALSE /\ rcv'.seq = 0 /\ rcv'.step = "none"
    <2>1. rcv' = [state |-> "Listening", session |-> s, peer |-> FALSE, seq |-> 0,
                  target |-> NoName, acceptPending |-> FALSE, step |-> "none"]
      BY <1>2 DEF Away
    <2> QED
      BY <1>1, <2>1 DEF RcvType, ReceiverStates, Steps
  <1>3. ASSUME rcv' = Away PROVE RcvType' /\ rcv'.state = "off"
    BY <1>1, <1>3 DEF RcvType, Away, ReceiverStates, Steps
  <1> QED
    BY <1>2, <1>3

LEMMA QuietReceivers ==
  ASSUME Types, Sent,
         \/ StartListening \/ HandleDiscover \/ HandleOfferAgain \/ ReceiverDrops \/ RejectOffer
         \/ AskWhatToDo \/ ReceiverExit \/ ReceiverPowerLoss
         \/ AcceptOffer /\ rcv'.state = "Error"
         \/ SendPendingAccept /\ rcv'.state # "Error"
  PROVE  QuietReceiver
  <1>0. /\ toR \in Seq(Packets) /\ Len(toR) <= Capacity /\ toS \in Seq(Packets) /\ Len(toS) <= Capacity
        /\ <<>> \in Seq(Packets) /\ Len(<<>>) <= Capacity /\ OnWay(<<>>) = {}
        /\ faults \in 0..MaxFaults /\ (Fault => faults' \in 0..MaxFaults)
        /\ RcvType /\ DOMAIN disk = Names /\ DOMAIN part = Names /\ DOMAIN backup = Names
        /\ rcv.session \in 0..started /\ (rcv.state = "off" => toR = <<>>)
        /\ (rcv.state \in Prompts \cup {"Receiving", "Success"} => rcv.peer)
        /\ (rcv.acceptPending => rcv.state \in {"Receiving", "Success"})
    BY WellTyped DEF Types, CardType, RcvType, Sent
  <1>1. CASE StartListening
    <2>1. rcv.state = "off" /\ rcv' = [Away EXCEPT !.state = "Listening", !.session = rcv.session]
          /\ UNCHANGED <<snd, started, toR, toS, disk, part, backup, faults>>
      BY <1>1 DEF StartListening, ReceiverOnly, Listening, radio, card
    <2>2. RcvType' /\ Listens
      BY <1>0, <2>1, AwayTyped DEF Listens
    <2> QED
      BY <1>0, <2>1, <2>2 DEF QuietReceiver, RadioType, Listens
  <1>2. CASE HandleDiscover
    <2>1. /\ rcv.state = "Listening" /\ rcv' = [rcv EXCEPT !.session = Head(toR).session]
          /\ toR # <<>> /\ toR' = Tail(toR)
          /\ toS' = SentByR(<<Packet("Advertise", Head(toR).session, 0)>>)
          /\ UNCHANGED <<snd, started, disk, part, backup, faults>>
      BY <1>2 DEF HandleDiscover, ReceiverGets, ReceiverOnly, card
    <2>2. /\ Head(toR) \in OnWay(toR) /\ Head(toR) \in Packets
          /\ toR' \in Seq(Packets) /\ Len(toR') <= Capacity /\ OnWay(toR') \subseteq OnWay(toR)
      BY <1>0, <2>1, Taken
    <2> DEFINE s   == Head(toR).session
               new == Packet("Advertise", s, 0)
    <2>3. s \in 1..started /\ s \in Sessions /\ s \in 0..started /\ s \in 0..MaxSessions
      BY <2>2, Arithmetic DEF Sent, Packets, Sessions
    <2>4. new \in Packets /\ new.type \in Untold /\ new.session = s
      BY <2>3, Arithmetic DEF Packet, Packets, PacketTypes, Untold
    <2>5. <<new>> \in Seq(Packets) /\ OnWay(<<new>>) = {new}
      BY <2>4, OneOnWay
    <2>6. /\ toS' \in Seq(Packets) /\ Len(toS') <= Capacity
          /\ OnWay(toS') \subseteq OnWay(toS) \cup {new}
      BY <2>1, <2>5, ReceiverSends
    <2> HIDE DEF s, new
    <2>7. /\ rcv'.state = "Listening" /\ rcv'.session = s /\ rcv'.peer = rcv.peer /\ rcv'.seq = rcv.seq
          /\ rcv'.step = rcv.step /\ RcvType'
      BY <1>0, <2>1, <2>3 DEF RcvType, s
    <2>8. Listens
      <3>1. s # 0 /\ rcv.seq = 0 /\ rcv.step = "none"
        BY <1>0, <2>1, <2>3, Arithmetic DEF RcvType, Sent
      <3> QED
        BY <1>0, <2>1, <2>3, <2>7, <3>1 DEF Listens
    <2> QED
      BY <1>0, <2>1, <2>2, <2>3, <2>4, <2>6, <2>7, <2>8 DEF QuietReceiver, RadioType
  <1>3. CASE HandleOfferAgain
    <2>1. /\ rcv.peer /\ rcv.state = "Receiving" /\ toR # <<>> /\ toR' = Tail(toR)
          /\ toS' = toS \/ toS' = SentByR(R("Accept", 0))
          /\ UNCHANGED <<rcv, snd, started, disk, part, backup, faults>>
      BY <1>3 DEF HandleOfferAgain, OfTransfer, ReceiverGets, ReceiverOnly, card
    <2>2. toR' \in Seq(Packets) /\ Len(toR') <= Capacity /\ OnWay(toR') \subseteq OnWay(toR)
      BY <1>0, <2>1, Taken
    <2>3. /\ toS' \in Seq(Packets) /\ Len(toS') <= Capacity
          /\ \A p \in OnWay(toS') : p \in OnWay(toS) \/ (p.type \in Untold /\ p.session \in 1..started)
      BY <1>0, <2>1, HarmlessSent, HarmlessPackets DEF Harmless
    <2>4. RcvType' /\ StaysPut
      BY <1>0, <2>1 DEF RcvType, StaysPut
    <2> QED
      BY <1>0, <2>1, <2>2, <2>3, <2>4 DEF QuietReceiver, RadioType
  <1>4. CASE ReceiverDrops
    <2>1. /\ toR # <<>> /\ toR' = Tail(toR)
          /\ UNCHANGED <<rcv, snd, started, toS, disk, part, backup, faults>>
      BY <1>4 DEF ReceiverDrops, ReceiverOnly, card
    <2>2. toR' \in Seq(Packets) /\ Len(toR') <= Capacity /\ OnWay(toR') \subseteq OnWay(toR)
      BY <1>0, <2>1, Taken
    <2>3. RcvType' /\ StaysPut
      BY <1>0, <2>1 DEF RcvType, StaysPut
    <2> QED
      BY <1>0, <2>1, <2>2, <2>3 DEF QuietReceiver, RadioType
  <1>5. CASE RejectOffer
    <2>1. /\ rcv.state \in Prompts /\ toS' = SentByR(R("Reject", 0))
          /\ rcv' = [Away EXCEPT !.state = "Listening", !.session = rcv.session]
          /\ UNCHANGED <<snd, started, toR, disk, part, backup, faults>>
      BY <1>5 DEF RejectOffer, ReceiverOnly, Listening, card, Prompts
    <2>2. /\ toS' \in Seq(Packets) /\ Len(toS') <= Capacity
          /\ \A p \in OnWay(toS') : p \in OnWay(toS) \/ (p.type \in Untold /\ p.session \in 1..started)
      BY <1>0, <2>1, HarmlessSent, HarmlessPackets DEF Harmless
    <2>3. RcvType' /\ Listens
      BY <1>0, <2>1, AwayTyped DEF Listens
    <2> QED
      BY <1>0, <2>1, <2>2, <2>3 DEF QuietReceiver, RadioType, Listens
  <1>6. CASE AskWhatToDo
    <2>1. /\ rcv.state = "OfferPrompt" /\ rcv' = [rcv EXCEPT !.state = "CollisionPrompt"]
          /\ UNCHANGED <<snd, started, toR, toS, disk, part, backup, faults>>
      BY <1>6 DEF AskWhatToDo, ReceiverOnly, radio, card
    <2>2. RcvType' /\ StaysPut /\ rcv'.state # "off"
      BY <1>0, <2>1 DEF RcvType, StaysPut, ReceiverStates
    <2> QED
      BY <1>0, <2>1, <2>2 DEF QuietReceiver, RadioType
  <1>7. CASE ReceiverExit \/ ReceiverPowerLoss
    <2>1. /\ rcv' = Away /\ toR' = <<>> /\ UNCHANGED <<snd, started, disk, backup, faults>>
          /\ \/ UNCHANGED <<toS, part>>
             \/ rcv.state = "Receiving" /\ toS' = SentByR(Cancels) /\ part' = PartRemoved
      BY <1>7 DEF ReceiverExit, ReceiverPowerLoss, ReceiverOnly, card
    <2>2. /\ toS' \in Seq(Packets) /\ Len(toS') <= Capacity
          /\ \A p \in OnWay(toS') : p \in OnWay(toS) \/ (p.type \in Untold /\ p.session \in 1..started)
      BY <1>0, <2>1, HarmlessSent, HarmlessPackets
    <2>3. RcvType' /\ Leaves /\ DOMAIN part' = Names
      BY <1>0, <2>1, AwayTyped DEF Leaves, PartRemoved
    <2> QED
      BY <1>0, <2>1, <2>2, <2>3 DEF QuietReceiver, RadioType
  <1>8. CASE AcceptOffer /\ rcv'.state = "Error"
    <2>1. PICK t \in Names : OpenPart(t, NoFile) /\ rcv.state \in Prompts
          /\ UNCHANGED <<snd, started, toR, disk, backup>>
      BY <1>8 DEF AcceptOffer, Chosen, FreeName, Replacing, ReceiverOnly, Prompts
    <2>2. /\ rcv' = [rcv EXCEPT !.state = "Error", !.target = t]
          /\ part' = [part EXCEPT ![t] = NoFile] /\ toS' = SentByR(Cancels) /\ Fault
      <3>1. rcv' = [rcv EXCEPT !.state = "Receiving", !.target = t, !.acceptPending = TRUE] =>
              rcv'.state = "Receiving"
        BY <1>0 DEF RcvType
      <3> QED
        BY <1>8, <2>1, <3>1 DEF OpenPart
    <2>3. /\ toS' \in Seq(Packets) /\ Len(toS') <= Capacity
          /\ \A p \in OnWay(toS') : p \in OnWay(toS) \/ (p.type \in Untold /\ p.session \in 1..started)
      BY <1>0, <2>1, <2>2, HarmlessSent, HarmlessPackets
    <2>4. RcvType' /\ Fails
      BY <1>0, <2>1, <2>2 DEF RcvType, Fails, ReceiverStates, Prompts
    <2> QED
      BY <1>0, <2>1, <2>2, <2>3, <2>4 DEF QuietReceiver, RadioType
  <1>9. CASE SendPendingAccept /\ rcv'.state # "Error"
    <2>1. /\ rcv.peer /\ rcv' = [rcv EXCEPT !.acceptPending = FALSE] /\ toS' = SentByR(R("Accept", 0))
          /\ UNCHANGED <<snd, started, toR, disk, part, backup, faults>>
      BY <1>0, <1>9 DEF SendPendingAccept, ReceiverOnly, NoFault, ReceiverFails, RcvType
    <2>2. /\ toS' \in Seq(Packets) /\ Len(toS') <= Capacity
          /\ \A p \in OnWay(toS') : p \in OnWay(toS) \/ (p.type \in Untold /\ p.session \in 1..started)
      BY <1>0, <2>1, HarmlessSent, HarmlessPackets DEF Harmless
    <2>3. RcvType' /\ StaysPut
      BY <1>0, <2>1 DEF RcvType, StaysPut
    <2> QED
      BY <1>0, <2>1, <2>2, <2>3 DEF QuietReceiver, RadioType
  <1> QED
    BY <1>1, <1>2, <1>3, <1>4, <1>5, <1>6, <1>7, <1>8, <1>9

\* The first offer: who has got part of the sender's file is not listening.
LEMMA OfferStep == IInv /\ HandleOffer => IInv'
  <1> SUFFICES ASSUME IInv, HandleOffer PROVE IInv'
    OBVIOUS
  <1>0. /\ Types /\ Sent /\ Joined /\ Before /\ Window /\ Files /\ Results
        /\ toR # <<>> /\ toR' = Tail(toR) /\ Head(toR).type = "Offer" /\ rcv.state = "Listening"
        /\ rcv' = [rcv EXCEPT !.state = "OfferPrompt", !.session = Head(toR).session, !.peer = TRUE]
        /\ snd' = snd /\ started' = started /\ toS' = toS /\ faults' = faults
        /\ disk' = disk /\ part' = part /\ backup' = backup /\ (Stored' <=> Stored)
    BY DEF IInv, Transfer, HandleOffer, ReceiverGets, ReceiverOnly, card, Stored
  <1>1. /\ Head(toR) \in OnWay(toR) /\ Head(toR) \in Packets
        /\ toR' \in Seq(Packets) /\ Len(toR') <= Capacity /\ OnWay(toR') \subseteq OnWay(toR)
    BY <1>0, WellTyped, Taken
  <1> DEFINE s == Head(toR).session
  <1>2. s \in 1..started /\ s \in 0..started /\ s # 0 /\ s \in 0..MaxSessions
    BY <1>0, <1>1, Arithmetic DEF Sent, Packets, Sessions
  <1> HIDE DEF s
  <1>3. /\ rcv'.state = "OfferPrompt" /\ rcv'.session = s /\ rcv'.peer = TRUE /\ rcv'.seq = rcv.seq
        /\ rcv'.step = rcv.step /\ rcv.step = "none" /\ rcv.seq = 0 /\ RcvType'
    BY <1>0, <1>2 DEF Types, RcvType, ReceiverStates, Sent, s
  <1>4. Types'
    BY <1>0, <1>1, <1>3, ReceiverTypes DEF Types, CardType, CountType, RadioType
  <1>5. ~Begun /\ ~Begun'
    BY <1>0, <1>1 DEF Joined, Begun
  <1>6. Sent'
    BY <1>0, <1>1, <1>2, <1>3 DEF Sent, Prompts
  <1>7. Joined' /\ Before' /\ Window' /\ Files' /\ Results'
    BY <1>0, <1>1, <1>3, <1>5 DEF Joined, Before, Window, Files, Results
  <1> QED
    BY <1>4, <1>6, <1>7 DEF IInv, Transfer

LEMMA AcceptStep == IInv /\ AcceptOffer => IInv'
  <1> SUFFICES ASSUME IInv, AcceptOffer PROVE IInv'
    OBVIOUS
  <1>0. /\ Types /\ Sent /\ Joined /\ Before /\ Window /\ Files /\ Results
    BY DEF IInv, Transfer
  <1>1. CASE rcv'.state = "Error"
    BY <1>0, <1>1, QuietReceivers, QuietReceiverStep
  <1>2. CASE rcv'.state # "Error"
    <2>1. PICK t \in Names : OpenPart(t, NoFile) /\ rcv.state \in Prompts
          /\ UNCHANGED <<snd, started, toR, disk, backup>>
      BY DEF AcceptOffer, Chosen, FreeName, Replacing, ReceiverOnly, Prompts
    <2>2. /\ rcv' = [rcv EXCEPT !.state = "Receiving", !.target = t, !.acceptPending = TRUE]
          /\ part' = [part EXCEPT ![t] = NoFile] /\ toS' = toS /\ faults' = faults
      <3>1. rcv' = [rcv EXCEPT !.state = "Error", !.target = t] => rcv'.state = "Error"
        BY <1>0 DEF Types, RcvType
      <3> QED
        BY <1>2, <2>1, <3>1 DEF OpenPart, NoFault
    <2>3. /\ rcv'.state = "Receiving" /\ rcv'.session = rcv.session /\ rcv'.peer = rcv.peer
          /\ rcv'.seq = 0 /\ rcv.seq = 0 /\ rcv'.step = "none" /\ rcv'.target = t /\ RcvType'
          /\ rcv.peer /\ part'[t] = NoFile
      BY <1>0, <2>1, <2>2, ConstantsAssumption
      DEF Types, RcvType, CardType, ReceiverStates, Sent, Prompts
    <2>4. Types'
      BY <1>0, <2>1, <2>2, <2>3, ReceiverTypes DEF Types, CardType, CountType, RadioType
    <2>5. ~Begun /\ ~Begun' /\ ~Stored' /\ ~Stored
      BY <1>0, <2>1, <2>2 DEF Joined, Begun, Stored
    <2>6. Sent'
      BY <1>0, <2>1, <2>2, <2>3 DEF Sent, Prompts
    <2>7. Joined' /\ Before' /\ Results'
      BY <1>0, <2>1, <2>2, <2>3, <2>5 DEF Joined, Before, Results
    <2>8. Window'
      <3>1. snd.seq \in Nat /\ toS \in Seq(Packets) /\ \A p \in OnWay(toS) : p.n \in Nat
        <4>1. snd.seq \in Nat /\ toS \in Seq(Packets)
          BY <1>0, Arithmetic DEF Types, SndType, RadioType
        <4> QED
          BY <4>1, OnWayTyped
      <3>2. snd.seq = 0
        BY <2>5, <3>1 DEF Begun
      <3>3. \A p \in OnWay(toS) : p.type = "Ack" /\ p.session = snd.session => p.n <= 0
        BY <2>5, <3>1 DEF Begun
      <3> QED
        BY <1>0, <2>1, <2>2, <2>3, <3>2, <3>3 DEF Window
    <2>9. Files'
      <3>1. part'[t] = Collected(rcv.session, 0)
        BY <2>3, CollectedFacts
      <3> QED
        BY <1>0, <2>1, <2>2, <2>3, <2>5, <3>1 DEF Files
    <2> QED
      BY <2>4, <2>6, <2>7, <2>8, <2>9 DEF IInv, Transfer
  <1> QED
    BY <1>1, <1>2

\* A chunk that arrives, the next one or not, is answered with what is there.
LEMMA DataStep == IInv /\ HandleData => IInv'
  <1> SUFFICES ASSUME IInv, HandleData PROVE IInv'
    OBVIOUS
  <1>0. /\ Types /\ Sent /\ Joined /\ Before /\ Window /\ Files /\ Results
    BY DEF IInv, Transfer
  <1>1. CASE rcv'.state = "Error"
    BY <1>0, <1>1, FailingSteps, QuietReceiverStep
  <1>2. CASE rcv'.state # "Error"
    <2>0. /\ rcv.state = "Receiving" /\ rcv.peer /\ rcv.step = "none"
          /\ toR # <<>> /\ toR' = Tail(toR)
          /\ Head(toR).type = "Data" /\ Head(toR).session = rcv.session
          /\ UNCHANGED <<snd, started, disk, backup>>
          /\ \/ Head(toR).n = rcv.seq /\ StoreChunk
             \/ toS' = SentByR(R("Ack", rcv.seq)) /\ UNCHANGED <<rcv, part>> /\ NoFault
      BY DEF HandleData, ReceiverGets, OfTransfer, ReceiverOnly
    <2>1. /\ Head(toR) \in OnWay(toR) /\ Head(toR) \in Packets
          /\ toR' \in Seq(Packets) /\ Len(toR') <= Capacity /\ OnWay(toR') \subseteq OnWay(toR)
      BY <1>0, <2>0, WellTyped, Taken
    <2>2. Head(toR).n \in 0..(NumChunks - 1) /\ NumChunks \in Nat /\ rcv.seq \in 0..NumChunks
          /\ rcv.target \in Names /\ rcv.session \in 1..started
      BY <1>0, <2>0, <2>1, Arithmetic, ReceiverSession DEF Sent, Types, RcvType
    <2>3. ~ReceiverFails(R("ResultFailed", 0), <<>>)
      BY <1>0, <1>2 DEF ReceiverFails, Types, RcvType
    <2>4. PICK k \in {rcv.seq, rcv.seq + 1} :
            /\ rcv' = [rcv EXCEPT !.seq = k] /\ toS' = SentByR(R("Ack", k))
            /\ k = rcv.seq + 1 => Head(toR).n = rcv.seq
            /\ \/ part' = part /\ k = rcv.seq
               \/ /\ part' = [part EXCEPT ![rcv.target] = Append(@, <<rcv.session, Head(toR).n + 1>>)]
                  /\ k = rcv.seq + 1
            /\ faults' = faults
      <3>1. rcv = [rcv EXCEPT !.seq = rcv.seq]
        BY <1>0 DEF Types, RcvType
      <3> QED
        BY <2>0, <2>2, <2>3, <3>1 DEF StoreChunk, NoFault
    <2> DEFINE ack == Packet("Ack", rcv.session, k)
    <2>5. k \in 0..NumChunks /\ k \in Nat /\ k >= rcv.seq
      BY <2>2, <2>4
    <2>6. /\ ack \in Packets /\ ack.type = "Ack" /\ ack.session = rcv.session /\ ack.n = k
          /\ R("Ack", k) \in Seq(Packets) /\ OnWay(R("Ack", k)) = {ack}
      BY <1>0, <2>0, <2>5, ReceiverPacket DEF Packet, PacketTypes
    <2> HIDE DEF ack
    <2>7. toS' \in Seq(Packets) /\ Len(toS') <= Capacity /\ OnWay(toS') \subseteq OnWay(toS) \cup {ack}
      BY <1>0, <2>4, <2>6, ReceiverSends
    <2>8. /\ rcv'.state = "Receiving" /\ rcv'.session = rcv.session /\ rcv'.peer = rcv.peer
          /\ rcv'.seq = k /\ rcv'.step = "none" /\ rcv'.target = rcv.target /\ RcvType'
      BY <1>0, <2>0, <2>4, <2>5 DEF Types, RcvType
    <2>9. Types'
      BY <1>0, <2>0, <2>1, <2>4, <2>7, <2>8, ReceiverTypes DEF Types, CardType, CountType, RadioType
    <2>10. (Stored' <=> Stored) /\ (snd.state \in Preparing => rcv.session # snd.session)
      BY <1>0, <2>0, <2>1 DEF Stored, Before
    <2>11. Begun' => Begun \/ rcv.session = snd.session
      BY <2>0, <2>6, <2>7, <2>10 DEF Begun
    <2>12. Sent'
      BY <1>0, <2>0, <2>1, <2>2, <2>6, <2>7, <2>8 DEF Sent, Prompts
    <2>13. Joined'
      BY <1>0, <2>0, <2>1, <2>8, <2>11 DEF Joined, Prompts
    <2>14. Before'
      BY <1>0, <2>0, <2>1, <2>6, <2>7, <2>8, <2>10, <2>11 DEF Before
    <2>15. Results'
      BY <1>0, <2>0, <2>6, <2>7, <2>10 DEF Results
    <2>16. Window'
      <3>1. snd' = snd /\ \A p \in OnWay(toS) : p.n \in Nat
        BY <1>0, <2>0, OnWayTyped DEF Types, RadioType
      <3>2. ASSUME rcv.session = snd.session
            PROVE  \A p \in OnWay(toS') : p.type = "Ack" /\ p.session = snd.session => p.n <= k
        <4>1. \A p \in OnWay(toS) : p.type = "Ack" /\ p.session = snd.session => p.n <= rcv.seq
          BY <1>0, <2>0, <3>2 DEF Window
        <4> QED
          BY <2>2, <2>5, <2>6, <2>7, <3>1, <4>1
      <3>3. ASSUME rcv.session = snd.session, snd.state = "Sending"
            PROVE  k \in {snd.seq, snd.seq + 1}
        <4>1. rcv.seq \in {snd.seq, snd.seq + 1} /\ Head(toR).n <= snd.seq
          BY <1>0, <2>0, <2>1, <3>3 DEF Window
        <4>2. snd.seq \in Nat
          BY <1>0, Arithmetic DEF Types, SndType
        <4> QED
          BY <2>2, <2>4, <4>1, <4>2
      <3> QED
        BY <1>0, <2>1, <2>8, <3>1, <3>2, <3>3 DEF Window
    <2>17. Files'
      <3>1. part'[rcv.target] = Collected(rcv.session, k)
        <4>1. part[rcv.target] = Collected(rcv.session, rcv.seq) /\ rcv.target \in DOMAIN part
          BY <1>0, <2>0, <2>2 DEF Files, Types, CardType
        <4>2. Append(Collected(rcv.session, rcv.seq), <<rcv.session, rcv.seq + 1>>)
                = Collected(rcv.session, rcv.seq + 1)
          <5>1. rcv.session \in Nat /\ rcv.seq \in Nat
            BY <1>0, <2>2 DEF Types, CountType
          <5> QED
            BY <5>1, CollectedFacts
        <4> QED
          BY <2>4, <4>1, <4>2
      <3> QED
        BY <1>0, <2>0, <2>8, <2>10, <3>1 DEF Files
    <2> QED
      BY <2>9, <2>12, <2>13, <2>14, <2>15, <2>16, <2>17 DEF IInv, Transfer
  <1> QED
    BY <1>1, <1>2

\* finishReceivedFile begins when all the chunks are there.
LEMMA CompleteStep == IInv /\ HandleComplete => IInv'
  <1> SUFFICES ASSUME IInv, HandleComplete PROVE IInv'
    OBVIOUS
  <1>0. /\ Types /\ Sent /\ Joined /\ Before /\ Window /\ Files /\ Results
    BY DEF IInv, Transfer
  <1>1. CASE rcv'.state = "Error"
    BY <1>0, <1>1, FailingSteps, QuietReceiverStep
  <1>2. CASE rcv'.state # "Error"
    <2>0. /\ rcv.state = "Receiving" /\ rcv.peer /\ rcv.step = "none" /\ toR # <<>> /\ toR' = Tail(toR)
          /\ Head(toR).type = "Complete" /\ Head(toR).session = rcv.session
          /\ UNCHANGED <<snd, started, disk, backup>>
      BY DEF HandleComplete, ReceiverGets, OfTransfer, ReceiverOnly
    <2>1. /\ Head(toR) \in OnWay(toR) /\ Head(toR) \in Packets
          /\ toR' \in Seq(Packets) /\ Len(toR') <= Capacity /\ OnWay(toR') \subseteq OnWay(toR)
      BY <1>0, <2>0, WellTyped, Taken
    <2>2. ~ReceiverFails(<<>>, R("ResultFailed", 0))
      BY <1>0, <1>2 DEF ReceiverFails, Types, RcvType
    <2>3. /\ rcv.seq = Head(toR).n /\ UNCHANGED <<toS, part, faults>>
          /\ rcv' = [rcv EXCEPT !.step = IF disk[rcv.target] # NoFile THEN "backup" ELSE "install"]
      BY <2>2 DEF HandleComplete, NoFault
    <2>4. /\ rcv'.state = "Receiving" /\ rcv'.session = rcv.session /\ rcv'.peer = rcv.peer
          /\ rcv'.seq = rcv.seq /\ rcv'.target = rcv.target /\ rcv'.step \in {"backup", "install"}
          /\ rcv'.step = "backup" => disk[rcv.target] # NoFile
      BY <1>0, <2>0, <2>3 DEF Types, RcvType
    <2>5. RcvType'
      BY <1>0, <2>0, <2>3 DEF Types, RcvType, Steps
    <2>6. Types'
      BY <1>0, <2>0, <2>1, <2>3, <2>5, ReceiverTypes DEF Types, CardType, CountType, RadioType
    <2>7. /\ Stored' <=> Stored
          /\ Begun' <=> Begun
          /\ rcv.seq = NumChunks
          /\ snd.state \in Preparing => rcv.session # snd.session
      BY <1>0, <2>0, <2>1, <2>3 DEF Stored, Begun, Sent, Before
    <2>8. Sent'
      BY <1>0, <2>0, <2>1, <2>3, <2>4 DEF Sent, Prompts
    <2>9. Joined' /\ Before' /\ Window' /\ Results'
      BY <1>0, <2>0, <2>1, <2>3, <2>4, <2>7 DEF Joined, Before, Window, Results, Prompts
    <2>10. Files'
      BY <1>0, <2>0, <2>3, <2>4, <2>7 DEF Files
    <2> QED
      BY <2>6, <2>8, <2>9, <2>10 DEF IInv, Transfer
  <1> QED
    BY <1>1, <1>2

\* The result is told, for the first time or again, when the file is there.
LEMMA ReportStep == IInv /\ (ReportSuccess \/ HandleCompleteAgain) => IInv'
  <1> SUFFICES ASSUME IInv, ReportSuccess \/ HandleCompleteAgain PROVE IInv'
    OBVIOUS
  <1>0. /\ Types /\ Sent /\ Joined /\ Before /\ Window /\ Files /\ Results /\ RcvType
    BY DEF IInv, Transfer, Types
  <1>1. /\ toS' = SentByR(R("ResultOk", 0))
        /\ UNCHANGED <<snd, started, disk, part, backup, faults>>
        /\ toR' = toR \/ (toR # <<>> /\ toR' = Tail(toR))
        /\ \/ rcv' = [rcv EXCEPT !.step = "none", !.state = "Success"] /\ rcv.step = "report"
           \/ rcv' = rcv /\ rcv.state = "Success" /\ rcv.step = "none"
    BY DEF ReportSuccess, HandleCompleteAgain, ReceiverGets, ReceiverOnly, card
  <1>2. /\ rcv'.state = "Success" /\ rcv'.session = rcv.session /\ rcv'.peer = rcv.peer
        /\ rcv'.seq = rcv.seq /\ rcv'.target = rcv.target /\ rcv'.step = "none"
        /\ rcv.state \in {"Receiving", "Success"} /\ rcv.peer /\ disk[rcv.target] = File(rcv.session)
        /\ (rcv.state = "Success" \/ rcv.step = "report") /\ rcv.target \in Names
    BY <1>0, <1>1 DEF RcvType, Files, Sent
  <1>3. RcvType'
    BY <1>0, <1>1, <1>2 DEF RcvType, ReceiverStates, Steps
  <1>4. toR' \in Seq(Packets) /\ Len(toR') <= Capacity /\ OnWay(toR') \subseteq OnWay(toR)
    BY <1>0, <1>1, WellTyped, Taken
  <1> DEFINE ok == Packet("ResultOk", rcv.session, 0)
  <1>5. /\ ok.type = "ResultOk" /\ ok.session = rcv.session /\ rcv.session \in 1..started
        /\ R("ResultOk", 0) \in Seq(Packets) /\ OnWay(R("ResultOk", 0)) = {ok}
    BY <1>0, <1>2, Arithmetic, ReceiverPacket, ReceiverSession DEF Packet, PacketTypes
  <1> HIDE DEF ok
  <1>6. toS' \in Seq(Packets) /\ Len(toS') <= Capacity /\ OnWay(toS') \subseteq OnWay(toS) \cup {ok}
    BY <1>0, <1>1, <1>5, ReceiverSends
  <1>7. Types'
    BY <1>0, <1>1, <1>3, <1>4, <1>6, ReceiverTypes DEF Types, CardType, CountType, RadioType
  <1>8. /\ Stored' <=> Stored
        /\ Begun' => Begun
        /\ rcv.session = snd.session => Stored
        /\ snd.state \in Preparing => rcv.session # snd.session
    BY <1>0, <1>1, <1>2, <1>5, <1>6 DEF Stored, Begun, Before
  <1>9. Sent'
    BY <1>0, <1>1, <1>2, <1>4, <1>5, <1>6 DEF Sent, Prompts
  <1>10. Joined' /\ Before' /\ Results'
    BY <1>0, <1>1, <1>2, <1>4, <1>5, <1>6, <1>8 DEF Joined, Before, Results, Prompts
  <1>11. Window' /\ Files'
    BY <1>0, <1>1, <1>2, <1>4 DEF Window, Files
  <1> QED
    BY <1>7, <1>9, <1>10, <1>11 DEF IInv, Transfer

\* While a file is moved in, the sender's own is not there yet.
LEMMA Finishing ==
  ASSUME IInv, rcv.step \in {"backup", "install", "replace"}
  PROVE  /\ rcv.state = "Receiving" /\ rcv.peer /\ rcv.target \in Names /\ rcv.session \in 1..started
         /\ part[rcv.target] = File(rcv.session)
         /\ ~Stored
         /\ snd.state \in Preparing => rcv.session # snd.session
  <1>1. /\ Types /\ Sent /\ Joined /\ Before /\ Files
        /\ rcv.state = "Receiving" /\ rcv.peer /\ rcv.target \in Names
    BY DEF IInv, Transfer, Types, RcvType, Sent
  <1>2. part[rcv.target] = Collected(rcv.session, rcv.seq) /\ rcv.seq = NumChunks
    BY <1>1 DEF Files
  <1>3. Stored => rcv.session = snd.session
    BY <1>1 DEF Joined, Begun
  <1>4. rcv.session = snd.session => ~Stored
    BY <1>1 DEF Files
  <1>5. snd.state \in Preparing => rcv.session # snd.session
    BY <1>1 DEF Before
  <1> QED
    BY <1>1, <1>2, <1>3, <1>4, <1>5, ReceiverSession, CollectedFacts

\* A step of finishReceivedFile that sends nothing.
LEMMA MoveStep ==
  ASSUME IInv, BackupOld \/ InstallNew \/ RemoveBackup
  PROVE  IInv'
  <1>0. /\ Types /\ Sent /\ Joined /\ Before /\ Window /\ Files /\ Results /\ RcvType
        /\ DOMAIN disk = Names /\ DOMAIN part = Names /\ DOMAIN backup = Names
    BY DEF IInv, Transfer, Types, CardType
  <1>1. /\ rcv.step # "none" /\ rcv.state = "Receiving" /\ rcv.target \in Names
        /\ UNCHANGED <<snd, started, toR, toS>> /\ faults' \in 0..MaxFaults
        /\ DOMAIN disk' = Names /\ DOMAIN part' = Names /\ DOMAIN backup' = Names
        /\ \E s \in Steps \ {"none"} : rcv' = [rcv EXCEPT !.step = s]
    BY <1>0, WellTyped DEF BackupOld, InstallNew, RemoveBackup, ReceiverOnly, radio, Target, RcvType, NoFault, Steps
  <1>2. /\ rcv'.state = "Receiving" /\ rcv'.session = rcv.session /\ rcv'.peer = rcv.peer
        /\ rcv'.seq = rcv.seq /\ rcv'.target = rcv.target /\ rcv'.step # "none" /\ RcvType'
    BY <1>0, <1>1 DEF RcvType
  <1>3. Types'
    BY <1>0, <1>1, <1>2, ReceiverTypes DEF Types, RadioType
  <1>4. snd.state \in Preparing => rcv.session # snd.session
    BY <1>0, <1>1 DEF Before
  <1>5. Sent' /\ Window'
    BY <1>0, <1>1, <1>2 DEF Sent, Window, Prompts
  <1>6. /\ Stored' => Stored \/ rcv.session = snd.session
        /\ Stored => Stored'
        /\ snd.state \in Preparing => \A t \in Names : backup'[t] # File(snd.session)
        /\ Files'
    <2>1. CASE BackupOld
      <3>1. /\ rcv.step = "backup" /\ rcv' = [rcv EXCEPT !.step = "replace"]
            /\ backup' = [backup EXCEPT ![rcv.target] = disk[rcv.target]]
            /\ disk' = [disk EXCEPT ![rcv.target] = NoFile] /\ part' = part /\ snd' = snd
            /\ rcv'.step = "replace" /\ started' = started
        BY <1>0, <1>1, <2>1 DEF BackupOld, Target, ReceiverOnly, RcvType
      <3>2. ~Stored /\ part[rcv.target] = File(rcv.session)
        BY <3>1, Finishing
      <3>3. \A t \in Names : /\ disk'[t] = IF t = rcv.target THEN NoFile ELSE disk[t]
                             /\ backup'[t] = IF t = rcv.target THEN disk[t] ELSE backup[t]
        BY <1>0, <3>1
      <3>4. ~Stored'
        BY <3>1, <3>2, <3>3, FileFacts DEF Stored
      <3>5. snd.state \in Preparing => \A t \in Names : backup'[t] # File(snd.session)
        BY <1>0, <3>2, <3>3 DEF Before, Stored
      <3>6. Files'
        BY <1>0, <1>1, <1>2, <3>1, <3>2, <3>3, <3>4 DEF Files, WholeSince
      <3> QED
        BY <3>2, <3>4, <3>5, <3>6
    <2>2. CASE InstallNew
      <3>1. /\ rcv.step \in {"install", "replace"} /\ backup' = backup /\ snd' = snd
            /\ disk' = [disk EXCEPT ![rcv.target] = part[rcv.target]]
            /\ rcv'.step \in {"cleanup", "report"} /\ started' = started
        BY <1>0, <1>1, <2>2 DEF InstallNew, Target, ReceiverOnly, RcvType
      <3>2. ~Stored /\ part[rcv.target] = File(rcv.session) /\ rcv.session \in 1..started
        BY <3>1, Finishing
      <3>3. \A t \in Names : disk'[t] = IF t = rcv.target THEN File(rcv.session) ELSE disk[t]
        BY <1>0, <3>1, <3>2
      <3>4. Stored' => rcv.session = snd.session
        BY <3>1, <3>2, <3>3, FileFacts DEF Stored
      <3>5. snd.state \in Preparing => \A t \in Names : backup'[t] # File(snd.session)
        BY <1>0, <3>1 DEF Before
      <3>6. Files'
        BY <1>0, <1>1, <1>2, <3>1, <3>2, <3>3 DEF Files, WholeSince
      <3> QED
        BY <3>2, <3>4, <3>5, <3>6
    <2>3. CASE RemoveBackup
      <3>1. /\ rcv.step = "cleanup" /\ rcv'.step = "report" /\ disk' = disk /\ part' = part /\ snd' = snd
            /\ backup' = backup \/ backup' = [backup EXCEPT ![rcv.target] = NoFile]
            /\ started' = started
        BY <1>0, <1>1, <2>3 DEF RemoveBackup, Target, ReceiverOnly, RcvType
      <3>2. \A t \in Names : backup'[t] \in {NoFile, backup[t]}
        BY <1>0, <3>1
      <3>3. Stored' <=> Stored
        BY <3>1 DEF Stored
      <3>4. snd.state \in Preparing => \A t \in Names : backup'[t] # File(snd.session)
        BY <1>0, <3>2, FileFacts DEF Before
      <3>5. Files'
        BY <1>0, <1>1, <1>2, <3>1, <3>2 DEF Files, WholeSince
      <3> QED
        BY <3>3, <3>4, <3>5
    <2> QED
      BY <2>1, <2>2, <2>3
  <1>7. Begun' => Begun \/ rcv.session = snd.session
    BY <1>1, <1>6 DEF Begun
  <1>8. Joined' /\ Before'
    BY <1>0, <1>1, <1>2, <1>4, <1>6, <1>7 DEF Joined, Before, Prompts
  <1>9. Results'
    BY <1>0, <1>1, <1>6 DEF Results
  <1> QED
    BY <1>3, <1>5, <1>6, <1>8, <1>9 DEF IInv, Transfer

\* The new file cannot be moved in: the old one gets its name back, or stays in the backup.
LEMMA InstallFailsStep == IInv /\ InstallFails => IInv'
  <1> SUFFICES ASSUME IInv, InstallFails PROVE IInv'
    OBVIOUS
  <1>0. /\ Types /\ Sent /\ Joined /\ Before /\ Window /\ Files /\ Results /\ RcvType
        /\ DOMAIN disk = Names /\ DOMAIN part = Names /\ DOMAIN backup = Names
    BY DEF IInv, Transfer, Types, CardType
  <1>1. /\ rcv.step \in {"install", "replace"} /\ UNCHANGED <<snd, started, toR>> /\ faults' \in 0..MaxFaults
        /\ ReceiverFails(<<>>, R("ResultFailed", 0))
        /\ \/ /\ disk' = [disk EXCEPT ![rcv.target] = backup[rcv.target]]
              /\ backup' = [backup EXCEPT ![rcv.target] = NoFile]
           \/ disk' = disk /\ backup' = backup
    BY <1>0, WellTyped DEF InstallFails, Target, ReceiverOnly
  <1>2. /\ rcv.peer /\ rcv.target \in Names /\ ~Stored /\ rcv.session \in 1..started
        /\ snd.state \in Preparing => rcv.session # snd.session
    BY <1>1, Finishing
  <1>3. /\ RcvType' /\ DOMAIN part' = Names
        /\ rcv'.state = "Error" /\ rcv'.session = rcv.session /\ rcv'.peer = rcv.peer /\ rcv'.step = "none"
        /\ toS' \in Seq(Packets) /\ Len(toS') <= Capacity
        /\ \A p \in OnWay(toS') : p \in OnWay(toS) \/ (p.type \in Untold /\ p.session \in 1..started)
    BY <1>0, <1>1, <1>2, FailsQuietly, HarmlessPackets DEF Harmless
  <1>4. /\ DOMAIN disk' = Names /\ DOMAIN backup' = Names
        /\ \A t \in Names : disk'[t] \in {disk[t], backup[t]} /\ backup'[t] \in {backup[t], NoFile}
    BY <1>0, <1>1
  <1>5. Types'
    BY <1>0, <1>1, <1>3, <1>4, ReceiverTypes DEF Types, RadioType
  <1>6. "Ack" \notin Untold /\ "ResultOk" \notin Untold
    BY DEF Untold, Harmless
  <1>7. snd.state \in Preparing => ~Stored' /\ \A t \in Names : backup'[t] # File(snd.session)
    BY <1>0, <1>1, <1>2, <1>4, FileFacts DEF Before, Stored
  <1>8. snd.state \in Preparing => ~Begun'
    BY <1>0, <1>1, <1>3, <1>6, <1>7 DEF Begun, Before
  <1>9. Sent'
    BY <1>0, <1>1, <1>3 DEF Sent, Prompts
  <1>10. Joined' /\ Before' /\ Window'
    BY <1>0, <1>1, <1>3, <1>6, <1>7, <1>8 DEF Joined, Before, Window, Prompts
  <1>11. Results'
    BY <1>0, <1>1, <1>2, <1>3, <1>6 DEF Results
  <1>12. Files'
    BY <1>0, <1>1, <1>3, <1>4 DEF Files, WholeSince
  <1> QED
    BY <1>5, <1>9, <1>10, <1>11, <1>12 DEF IInv, Transfer

LEMMA ReceiverKeeps == IInv /\ ReceiverStep => IInv'
  <1> SUFFICES ASSUME IInv, ReceiverStep PROVE IInv'
    OBVIOUS
  <1>0. Types /\ Sent
    BY DEF IInv, Transfer
  <1>1. CASE HandleOffer \/ AcceptOffer \/ HandleData \/ HandleComplete
    BY <1>1, OfferStep, AcceptStep, DataStep, CompleteStep
  <1>2. CASE ReportSuccess \/ HandleCompleteAgain
    BY <1>2, ReportStep
  <1>3. CASE BackupOld \/ InstallNew \/ RemoveBackup \/ InstallFails
    BY <1>3, MoveStep, InstallFailsStep
  <1>4. CASE HandleCancel \/ AcceptFails \/ ReceiveTimeout \/ BackupFails
    BY <1>0, <1>4, FailingSteps, QuietReceiverStep
  <1>5. CASE \/ StartListening \/ HandleDiscover \/ HandleOfferAgain \/ ReceiverDrops \/ RejectOffer
             \/ AskWhatToDo \/ ReceiverExit \/ ReceiverPowerLoss
    BY <1>0, <1>5, QuietReceivers, QuietReceiverStep
  <1>6. CASE SendPendingAccept
    BY <1>0, <1>6, FailingSteps, QuietReceivers, QuietReceiverStep
  <1> QED
    BY <1>1, <1>2, <1>3, <1>4, <1>5, <1>6
    DEF ReceiverStep, ReceiverPackets, ReceiverFinish, ReceiverUser

-----------------------------------------------------------------------------
(* The theorems.                                                           *)

LEMMA InitIInv == Init => IInv
  <1> SUFFICES ASSUME Init PROVE IInv
    OBVIOUS
  <1>1. /\ snd.state = "off" /\ snd.session = 0 /\ snd.seq = 0 /\ rcv = Away /\ started = 0 /\ faults = 0
        /\ toR = <<>> /\ toS = <<>> /\ OnWay(toR) = {} /\ OnWay(toS) = {}
        /\ rcv.state = "off" /\ rcv.session = 0 /\ rcv.peer = FALSE /\ rcv.seq = 0 /\ rcv.step = "none"
    BY OneOnWay DEF Init, Off, Away
  <1>2. SndType /\ RcvType
    BY <1>1, Arithmetic DEF Init, Off, Away, SndType, RcvType, SenderStates, ReceiverStates, Steps
  <1>3. /\ DOMAIN disk = Names /\ DOMAIN part = Names /\ DOMAIN backup = Names
        /\ \A t \in Names : disk[t] \in {NoFile, Old} /\ backup[t] = NoFile
    BY DEF Init
  <1>4. Types
    BY <1>1, <1>2, <1>3, Arithmetic DEF Types, RadioType, CardType, CountType
  <1>5. Sent /\ Joined /\ Before /\ Window /\ Files /\ Results
    BY <1>1, <1>3 DEF Sent, Joined, Before, Window, Files, Results, Prompts, Preparing, WholeSince
  <1> QED
    BY <1>4, <1>5 DEF IInv, Transfer

LEMMA NextIInv == IInv /\ [Next]_vars => IInv'
  <1> SUFFICES ASSUME IInv, [Next]_vars PROVE IInv'
    OBVIOUS
  <1>1. CASE UNCHANGED vars
    <2>1. UNCHANGED <<snd, rcv, toR, toS, disk, part, backup, started, faults>>
      BY <1>1 DEF vars, radio, card
    <2>2. Types'
      BY <2>1 DEF IInv, Types, SndType, RcvType, RadioType, CardType, CountType
    <2>3. Stored' <=> Stored
      BY <2>1 DEF Stored
    <2>4. Begun' <=> Begun
      BY <2>1, <2>3 DEF Begun
    <2>5. Sent' /\ Joined' /\ Before' /\ Window' /\ Results'
      BY <2>1, <2>3, <2>4 DEF IInv, Transfer, Sent, Joined, Before, Window, Results
    <2>6. Files'
      BY <2>1, <2>3 DEF IInv, Transfer, Files
    <2> QED
      BY <2>2, <2>5, <2>6 DEF IInv, Transfer
  <1>2. CASE Next
    <2>1. SenderStep \/ ReceiverStep \/ LosePacket
      BY <1>2 DEF Next, SenderStep, ReceiverStep
    <2> QED
      BY <2>1, SenderKeeps, ReceiverKeeps, LossStep
  <1> QED
    BY <1>1, <1>2

\* The invariant of the transfer holds in every state.
THEOREM TransferKept == Spec => []IInv
  BY InitIInv, NextIInv, PTL DEF Spec

\* TypeOK: counters stay in range for any number of chunks and retries, queues
\* within their capacity.
THEOREM TypeCorrect == Spec => []TypeOK
  <1>1. IInv => TypeOK
    BY TypesGive DEF IInv
  <1> QED
    BY <1>1, TransferKept, PTL

\* finishReceivedFile, cut off or failing anywhere, leaves whole files under
\* the names and in the backups.
THEOREM NamesHoldWholeFiles == Spec => []NoPartialFile
  <1>1. ASSUME IInv PROVE NoPartialFile
    <2>1. 1..started \subseteq Sessions
      BY <1>1, Arithmetic DEF IInv, Types, CountType, Sessions
    <2>2. \A f : WholeSince(f, started) => Whole(f)
      BY <2>1 DEF WholeSince, Whole
    <2> QED
      BY <1>1, <2>2 DEF IInv, Transfer, Files, NoPartialFile
  <1> QED
    BY <1>1, TransferKept, PTL

\* handleAck and handleData: both ends of one transfer are at the same chunk
\* or one apart, and the hidden file holds the chunks that were acknowledged.
THEOREM ChunksInStep == Spec => []StopAndWait
  <1>1. ASSUME IInv PROVE StopAndWait
    <2>1. Types /\ Window /\ Files /\ Sent
      BY <1>1 DEF IInv, Transfer
    <2>2. rcv.seq \in 0..NumChunks /\ rcv.session \in Nat
      BY <2>1, Arithmetic DEF Types, RcvType
    <2>3. SubSeq(File(rcv.session), 1, rcv.seq) = Collected(rcv.session, rcv.seq)
      BY <2>2, CollectedFacts
    <2> QED
      BY <2>1, <2>3 DEF StopAndWait, Window, Files
  <1> QED
    BY <1>1, TransferKept, PTL

\* Success on either screen means that the file of the transfer is stored.
THEOREM SuccessIsStored == Spec => []SuccessMeansStored
  <1>1. ASSUME IInv PROVE SuccessMeansStored
    BY <1>1 DEF IInv, Transfer, Files, Results, Stored, SuccessMeansStored
  <1> QED
    BY <1>1, TransferKept, PTL

\* Only these steps touch a stored file or a backup.
LEMMA CardSteps ==
  ASSUME Next
  PROVE  \/ UNCHANGED <<disk, backup>>
         \/ BackupOld \/ InstallNew \/ InstallFails \/ BackupFails \/ RemoveBackup
  <1>1. CASE SenderPackets \/ SenderTimers \/ SenderUser \/ SenderPowerLoss \/ LosePacket
    BY <1>1
    DEF SenderPackets, SenderTimers, SenderUser, HandleAdvertise, HandleAccept, HandleReject, HandleAck,
        HandleResult, SenderCancelled, SenderDrops, DiscoverAgain, OfferAgain, SendAgain,
        StartDiscovery, SelectPeer, SenderExit, SenderPowerLoss, LosePacket, SenderOnly, card
  <1>2. CASE ReceiverPackets
    BY <1>2
    DEF ReceiverPackets, HandleDiscover, HandleOffer, HandleOfferAgain, HandleData, HandleComplete,
        HandleCompleteAgain, HandleCancel, ReceiverDrops, card
  <1>3. CASE SendPendingAccept \/ ReceiveTimeout \/ ReceiverUser \/ ReceiverPowerLoss
    BY <1>3
    DEF SendPendingAccept, ReceiveTimeout, ReceiverUser, StartListening, AskWhatToDo, AcceptOffer,
        AcceptFails, RejectOffer, ReceiverExit, ReceiverPowerLoss, card
  <1>4. CASE ReceiverFinish
    BY <1>4 DEF ReceiverFinish, ReportSuccess, card
  <1> QED
    BY <1>1, <1>2, <1>3, <1>4 DEF Next

\* The backup of finishReceivedFile: a name that had a file keeps one, under
\* the name or in its backup, through every rename and every failure.
THEOREM NeverLeftWithout == Spec => NeverWithout
  <1> DEFINE Has(t)  == disk[t] # NoFile \/ backup[t] # NoFile
             Keeps   == \A t \in Names : Has(t) => Has(t)'
  <1>1. ASSUME IInv, [Next]_vars PROVE [Keeps]_vars
    <2>0. /\ RcvType /\ Files /\ DOMAIN disk = Names /\ DOMAIN backup = Names
          /\ rcv.step # "none" => rcv.target \in Names
      BY <1>1 DEF IInv, Transfer, Types, CardType, RcvType
    <2>1. CASE UNCHANGED vars
      BY <2>1
    <2>2. CASE UNCHANGED <<disk, backup>>
      BY <2>2
    <2>3. CASE BackupOld
      BY <2>0, <2>3 DEF BackupOld, Target, Files
    <2>4. CASE InstallNew
      <3>1. part[rcv.target] # NoFile
        BY <1>1, <2>4, Finishing, FileFacts DEF InstallNew
      <3> QED
        BY <2>0, <2>4, <3>1 DEF InstallNew, Target
    <2>5. CASE InstallFails
      BY <2>0, <2>5 DEF InstallFails, Target, Files
    <2>6. CASE BackupFails
      BY <2>0, <2>6 DEF BackupFails, Target, Files
    <2>7. CASE RemoveBackup
      BY <2>0, <2>7, FileFacts DEF RemoveBackup, Target, Files
    <2> QED
      BY <1>1, <2>1, <2>2, <2>3, <2>4, <2>5, <2>6, <2>7, CardSteps
  <1> QED
    BY <1>1, TransferKept, PTL DEF Spec, NeverWithout

-----------------------------------------------------------------------------
(* The transfer implements Delivery.                                       *)

\* The file of a session is under some name, or in its backup.
Kept(r) == \E t \in Names : disk[t] = File(r) \/ backup[t] = File(r)

\* The receiver may still move the file of a session in.
Coming(r) ==
  /\ rcv.session = r
  /\ \/ rcv.state \in Prompts
     \/ rcv.state = "Receiving" /\ rcv.step \in {"none", "backup", "install", "replace"}

\* An offer of a file that is there meets a receiver that does not listen, and
\* a receiver that leaves drops it: no file is received twice.
Once ==
  \A r \in 1..started : Kept(r) =>
    /\ ~Coming(r)
    /\ \A p \in OnWay(toR) :
         p.type = "Offer" /\ p.session = r => rcv.state \in {"Receiving", "Success", "Error"}

\* The receiver, the files and the offers for stored ones stay as they are.
LEMMA OnceStays ==
  ASSUME Once, UNCHANGED <<rcv, disk, backup, started>>,
         \A p \in OnWay(toR') : p \in OnWay(toR) \/ p.type # "Offer" \/ ~Kept(p.session)
  PROVE  Once'
  BY DEF Once, Kept, Coming

LEMMA OnceDiscovery ==
  ASSUME IInv, Once, StartDiscovery
  PROVE  Once'
  <1>1. /\ Types /\ Sent /\ Files /\ UNCHANGED <<rcv, disk, part, backup>> /\ started' = started + 1
        /\ snd.state = "off" /\ toR' = SentByS(<<Packet("Discover", started + 1, 0)>>)
        /\ started \in Nat /\ started + 1 \in Sessions
    BY Arithmetic DEF IInv, Transfer, StartDiscovery, card, Types, CountType, Sessions
  <1>2. Packet("Discover", started + 1, 0) \in Packets
    BY <1>1, Arithmetic DEF Packet, Packets, PacketTypes
  <1>3. OnWay(toR') \subseteq OnWay(toR) \cup {Packet("Discover", started + 1, 0)}
    <2> DEFINE ps == <<Packet("Discover", started + 1, 0)>>
    <2>1. ps \in Seq(Packets) /\ toR \in Seq(Packets) /\ OnWay(ps) = {Packet("Discover", started + 1, 0)}
      BY <1>1, <1>2, WellTyped, OneOnWay
    <2>2. toR' = toR \/ toR' = Queue(toR, ps)
      BY <1>1 DEF SentByS
    <2> HIDE DEF ps
    <2>3. OnWay(Queue(toR, ps)) \subseteq OnWay(toR) \cup OnWay(ps)
      BY <2>1, QueueFacts
    <2> QED
      BY <2>1, <2>2, <2>3
  <1>4. ~Kept(started + 1)
    BY <1>1, FileFacts DEF Kept, Files, WholeSince
  <1>5. \A r \in 1..started' : Kept(r)' => Kept(r) /\ r \in 1..started
    BY <1>1, <1>4 DEF Kept
  <1>6. \A r : Coming(r)' <=> Coming(r)
    BY <1>1 DEF Coming
  <1>7. \A p \in OnWay(toR') : p.type = "Offer" => p \in OnWay(toR)
    BY <1>3 DEF Packet
  <1> QED
    BY <1>1, <1>5, <1>6, <1>7 DEF Once

LEMMA OnceSender ==
  ASSUME IInv, Once, SenderStep \/ LosePacket
  PROVE  Once'
  <1>0. Types /\ Sent /\ Before
    BY DEF IInv, Transfer
  <1>1. ASSUME QuietSender
        PROVE  Once'
    <2>1. \A p \in OffersOnly : ~Kept(p.session)
      BY <1>0 DEF OffersOnly, Only, Before, Begun, Stored, Kept
    <2>2. \A p \in Only({"Discover", "Cancel"}, snd.session) : p.type # "Offer"
      BY DEF Only
    <2>3. /\ rcv' = rcv /\ disk' = disk /\ backup' = backup /\ started' = started
          /\ OnWay(toR') \subseteq OnWay(toR) \cup Only({"Discover", "Cancel"}, snd.session) \cup OffersOnly
      BY <1>1 DEF QuietSender, card
    <2>4. \A p \in OnWay(toR') : p \in OnWay(toR) \/ p.type # "Offer" \/ ~Kept(p.session)
      BY <2>1, <2>2, <2>3
    <2> QED
      BY <2>3, <2>4, OnceStays
  <1>2. ASSUME NEW seq, SendsChunk(seq)
        PROVE  Once'
    <2>1. /\ rcv' = rcv /\ disk' = disk /\ backup' = backup /\ started' = started
          /\ \E p \in Packets : /\ p.type \in {"Data", "Complete"}
                                /\ OnWay(toR') \subseteq OnWay(toR) \cup {p}
      BY <1>2 DEF SendsChunk, card
    <2>2. \A p \in OnWay(toR') : p \in OnWay(toR) \/ p.type # "Offer"
      BY <2>1
    <2> QED
      BY <2>1, <2>2, OnceStays
  <1>3. CASE StartDiscovery
    BY <1>3, OnceDiscovery
  <1>4. CASE HandleResult
    <2>1. snd.state # "off" /\ UNCHANGED <<rcv, disk, backup, started>>
      BY <1>4 DEF HandleResult, SenderOnly, card
    <2>2. toR' = toR \/ toR' = SentByS(CancelToR)
      BY <1>4 DEF HandleResult, SenderFails
    <2>3. OnWay(toR') \subseteq OnWay(toR) \cup {Packet("Cancel", snd.session, 0)}
      BY <1>0, <2>1, <2>2, SenderCancels
    <2>4. \A p \in OnWay(toR') : p \in OnWay(toR) \/ p.type # "Offer"
      BY <2>3 DEF Packet
    <2> QED
      BY <2>1, <2>4, OnceStays
  <1>5. CASE HandleAccept \/ HandleAck \/ SendAgain
    BY <1>0, <1>1, <1>2, <1>5, Chunks
  <1>6. CASE \/ DiscoverAgain \/ HandleAdvertise \/ SelectPeer \/ HandleReject \/ SenderCancelled
             \/ SenderDrops \/ OfferAgain \/ SenderExit \/ SenderPowerLoss
    BY <1>0, <1>1, <1>6, QuietSenders
  <1>7. CASE LosePacket
    <2>1. /\ UNCHANGED <<rcv, disk, backup, started>>
          /\ (toR # <<>> /\ toR' = Tail(toR)) \/ UNCHANGED toR
      BY <1>7 DEF LosePacket, card
    <2>2. OnWay(toR') \subseteq OnWay(toR)
      BY <1>0, <2>1, WellTyped, Taken
    <2> QED
      BY <2>1, <2>2, OnceStays
  <1> QED
    BY <1>3, <1>4, <1>5, <1>6, <1>7 DEF SenderStep, SenderPackets, SenderTimers, SenderUser

\* What a step of the receiver may do, unless it moves the new file in: it hears
\* no new offers, stores nothing, and is on its way to storing a file only if it
\* was before or has just heard an offer of it.
Unhurried ==
  /\ OnWay(toR') \subseteq OnWay(toR) /\ (rcv'.state = "off" => OnWay(toR') = {})
  /\ started' = started
  /\ \A r : Kept(r)' => Kept(r)
  /\ rcv.state \in {"Receiving", "Success", "Error"} =>
       rcv'.state \in {"Receiving", "Success", "Error", "off"}
  /\ \A r : Coming(r)' => Coming(r) \/ \E p \in OnWay(toR) : /\ p.type = "Offer" /\ p.session = r
                                                             /\ rcv.state = "Listening"

LEMMA OnceUnhurried ==
  ASSUME Once, Unhurried
  PROVE  Once'
  <1> SUFFICES ASSUME NEW r \in 1..started, Kept(r)'
               PROVE  /\ ~Coming(r)'
                      /\ \A p \in OnWay(toR') : p.type = "Offer" /\ p.session = r =>
                           rcv'.state \in {"Receiving", "Success", "Error"}
    BY DEF Once, Unhurried
  <1>1. Kept(r)
    BY DEF Unhurried
  <1>2. /\ ~Coming(r)
        /\ \A p \in OnWay(toR) : p.type = "Offer" /\ p.session = r =>
             rcv.state \in {"Receiving", "Success", "Error"}
    BY <1>1 DEF Once
  <1>3. ~Coming(r)'
    BY <1>2 DEF Unhurried
  <1>4. ASSUME NEW p \in OnWay(toR'), p.type = "Offer", p.session = r
        PROVE  rcv'.state \in {"Receiving", "Success", "Error"}
    BY <1>2, <1>4 DEF Unhurried
  <1> QED
    BY <1>3, <1>4

LEMMA QuietIsUnhurried ==
  ASSUME Types, Sent, QuietReceiver
  PROVE  Unhurried
  <1>1. /\ OnWay(toR') \subseteq OnWay(toR) /\ (rcv'.state = "off" => OnWay(toR') = {})
        /\ started' = started /\ disk' = disk
    BY OneOnWay DEF QuietReceiver
  <1>2. \A t \in Names : backup'[t] \in {backup[t], NoFile}
    BY DEF QuietReceiver, StaysPut, Fails, Leaves, Listens
  <1>3. \A r : Kept(r)' => Kept(r)
    BY <1>1, <1>2, FileFacts DEF Kept
  <1>4. rcv.state \in {"Receiving", "Success", "Error"} =>
          rcv'.state \in {"Receiving", "Success", "Error", "off"}
    BY DEF QuietReceiver, StaysPut, Fails, Leaves, Listens, Prompts
  <1>5. \A r : Coming(r)' => Coming(r)
    BY DEF QuietReceiver, StaysPut, Fails, Leaves, Listens, Coming, Prompts
  <1> QED
    BY <1>1, <1>3, <1>4, <1>5 DEF Unhurried

LEMMA UnhurriedSteps ==
  ASSUME IInv, ReceiverStep, ~InstallNew
  PROVE  Unhurried
  <1>0. /\ Types /\ Sent /\ RcvType /\ Files
        /\ DOMAIN disk = Names /\ DOMAIN backup = Names
    BY DEF IInv, Transfer, Types, CardType
  <1>p. toR # <<>> => Head(toR) \in OnWay(toR) /\ OnWay(Tail(toR)) \subseteq OnWay(toR)
    BY <1>0, WellTyped, Taken
  <1>1. CASE HandleOffer
    <2>1. /\ toR # <<>> /\ Head(toR).type = "Offer" /\ rcv.state = "Listening"
          /\ rcv'.state = "OfferPrompt" /\ rcv'.session = Head(toR).session /\ toR' = Tail(toR)
          /\ UNCHANGED <<started, disk, backup>>
      BY <1>0, <1>1 DEF HandleOffer, ReceiverGets, ReceiverOnly, card, RcvType
    <2>2. \A r : Coming(r)' => r = Head(toR).session
      BY <2>1 DEF Coming
    <2> QED
      BY <1>p, <2>1, <2>2 DEF Unhurried, Kept
  <1>2. CASE AcceptOffer
    <2>1. /\ rcv.state \in Prompts /\ rcv'.state \in {"Receiving", "Error"} /\ rcv'.session = rcv.session
          /\ UNCHANGED <<started, toR, disk, backup>>
      BY <1>0, <1>2 DEF AcceptOffer, OpenPart, Chosen, Replacing, FreeName, Prompts, ReceiverOnly, RcvType
    <2> QED
      BY <2>1 DEF Unhurried, Kept, Coming, Prompts
  <1>3. CASE HandleData \/ HandleComplete
    <2>1. /\ rcv.state = "Receiving" /\ rcv.step = "none" /\ toR # <<>> /\ toR' = Tail(toR)
          /\ rcv'.state \in {"Receiving", "Error"} /\ rcv'.session = rcv.session
          /\ UNCHANGED <<started, disk, backup>>
      BY <1>0, <1>3 DEF HandleData, HandleComplete, StoreChunk, ReceiverFails, ReceiverGets, ReceiverOnly, RcvType
    <2> QED
      BY <1>p, <2>1 DEF Unhurried, Kept, Coming, Prompts
  <1>4. CASE ReportSuccess \/ HandleCompleteAgain
    <2>1. /\ rcv.state \in {"Receiving", "Success"} /\ rcv'.state = "Success"
          /\ OnWay(toR') \subseteq OnWay(toR)
          /\ UNCHANGED <<started, disk, backup>>
      BY <1>0, <1>p, <1>4
         DEF ReportSuccess, HandleCompleteAgain, ReceiverGets, ReceiverOnly, card, RcvType
    <2> QED
      BY <2>1 DEF Unhurried, Kept, Coming, Prompts
  <1>5. CASE BackupOld \/ RemoveBackup
    <2>1. /\ rcv.state = "Receiving" /\ rcv.step \in {"backup", "cleanup"} /\ rcv.target \in Names
          /\ rcv'.state = "Receiving" /\ rcv'.session = rcv.session
          /\ rcv.step = "cleanup" => rcv'.step = "report"
          /\ UNCHANGED <<started, toR>>
      BY <1>0, <1>5 DEF BackupOld, RemoveBackup, ReceiverOnly, radio, RcvType
    <2>2. \A r : Kept(r)' => Kept(r)
      BY <1>0, <1>5, <2>1, FileFacts DEF BackupOld, RemoveBackup, Kept, Target
    <2> QED
      BY <2>1, <2>2 DEF Unhurried, Coming, Prompts
  <1>6. CASE InstallFails
    <2>1. /\ rcv.state = "Receiving" /\ rcv.target \in Names /\ rcv'.state = "Error"
          /\ UNCHANGED <<started, toR>>
      BY <1>0, <1>6 DEF InstallFails, ReceiverFails, ReceiverOnly, RcvType
    <2>2. \A r : Kept(r)' => Kept(r)
      BY <1>0, <1>6, <2>1, FileFacts DEF InstallFails, Kept, Target
    <2> QED
      BY <2>1, <2>2 DEF Unhurried, Coming, Prompts
  <1>7. CASE HandleCancel \/ AcceptFails \/ ReceiveTimeout \/ BackupFails
    BY <1>0, <1>7, FailingSteps, QuietIsUnhurried
  <1>8. CASE \/ StartListening \/ HandleDiscover \/ HandleOfferAgain \/ ReceiverDrops \/ RejectOffer
             \/ AskWhatToDo \/ ReceiverExit \/ ReceiverPowerLoss
    BY <1>0, <1>8, QuietReceivers, QuietIsUnhurried
  <1>9. CASE SendPendingAccept
    BY <1>0, <1>9, FailingSteps, QuietReceivers, QuietIsUnhurried
  <1> QED
    BY <1>1, <1>2, <1>3, <1>4, <1>5, <1>6, <1>7, <1>8, <1>9
       DEF ReceiverStep, ReceiverPackets, ReceiverFinish, ReceiverUser

\* Where the new file has been moved in, it is the only one that has come.
LEMMA OnceInstalled ==
  ASSUME IInv, Once, InstallNew
  PROVE  Once'
  <1>0. /\ RcvType /\ DOMAIN disk = Names /\ rcv.target \in Names /\ rcv.state = "Receiving"
        /\ part[rcv.target] = File(rcv.session)
    BY Finishing DEF IInv, Types, CardType, InstallNew
  <1>1. /\ disk' = [disk EXCEPT ![rcv.target] = part[rcv.target]]
        /\ rcv'.state = "Receiving" /\ rcv'.session = rcv.session /\ rcv'.step \in {"cleanup", "report"}
        /\ UNCHANGED <<started, toR, backup>>
    BY <1>0 DEF InstallNew, Target, ReceiverOnly, radio, RcvType
  <1>2. \A r : Kept(r)' => Kept(r) \/ r = rcv.session
    BY <1>0, <1>1, FileFacts DEF Kept
  <1>3. \A r : ~Coming(r)'
    BY <1>1 DEF Coming, Prompts
  <1> QED
    BY <1>1, <1>2, <1>3 DEF Once

LEMMA OnceStep == IInv /\ Once /\ [Next]_vars => Once'
  <1> SUFFICES ASSUME IInv, Once, [Next]_vars PROVE Once'
    OBVIOUS
  <1>1. CASE UNCHANGED vars
    BY <1>1, OnceStays DEF vars, radio, card
  <1>2. CASE SenderStep \/ LosePacket
    BY <1>2, OnceSender
  <1>3. CASE InstallNew
    BY <1>3, OnceInstalled
  <1>4. CASE ReceiverStep /\ ~InstallNew
    BY <1>4, UnhurriedSteps, OnceUnhurried
  <1> QED
    BY <1>1, <1>2, <1>3, <1>4 DEF Next, SenderStep, ReceiverStep

LEMMA OneDevice ==
  ASSUME Next
  PROVE  UNCHANGED snd \/ UNCHANGED <<rcv, disk, backup>>
  <1>1. CASE SenderPackets \/ SenderTimers \/ SenderUser \/ SenderPowerLoss \/ LosePacket
    BY <1>1
    DEF SenderPackets, SenderTimers, SenderUser, HandleAdvertise, HandleAccept, HandleReject, HandleAck,
        HandleResult, SenderCancelled, SenderDrops, DiscoverAgain, OfferAgain, SendAgain,
        StartDiscovery, SelectPeer, SenderExit, SenderPowerLoss, LosePacket, SenderOnly, card
  <1>2. CASE ReceiverPackets
    BY <1>2
    DEF ReceiverPackets, HandleDiscover, HandleOffer, HandleOfferAgain, HandleData, HandleComplete,
        HandleCompleteAgain, HandleCancel, ReceiverDrops, ReceiverOnly
  <1>3. CASE SendPendingAccept \/ ReceiveTimeout \/ ReceiverUser \/ ReceiverPowerLoss
    BY <1>3
    DEF SendPendingAccept, ReceiveTimeout, ReceiverUser, StartListening, AskWhatToDo, AcceptOffer,
        AcceptFails, RejectOffer, ReceiverExit, ReceiverPowerLoss, ReceiverOnly
  <1>4. CASE ReceiverFinish
    BY <1>4
    DEF ReceiverFinish, BackupOld, InstallNew, RemoveBackup, ReportSuccess, BackupFails, InstallFails,
        ReceiverOnly
  <1> QED
    BY <1>1, <1>2, <1>3, <1>4 DEF Next

\* Between the two renames the name itself is free.
Vacant == rcv.step = "replace" => disk[rcv.target] = NoFile

LEMMA VacantStep ==
  ASSUME IInv, Vacant, Next
  PROVE  Vacant'
  <1>0. /\ RcvType /\ DOMAIN disk = Names
        /\ rcv.step # "none" => rcv.target \in Names
    BY DEF IInv, Types, CardType, RcvType
  <1>1. CASE UNCHANGED <<rcv, disk, backup>>
    BY <1>1 DEF Vacant
  <1>2. CASE ReceiverPackets
    <2>1. CASE HandleDiscover \/ HandleOffer \/ HandleOfferAgain \/ HandleCompleteAgain \/ ReceiverDrops
      BY <1>0, <2>1
      DEF HandleDiscover, HandleOffer, HandleOfferAgain, HandleCompleteAgain, ReceiverDrops,
          ReceiverGets, RcvType, Vacant, card
    <2>2. CASE HandleData
      BY <1>0, <2>2 DEF HandleData, StoreChunk, ReceiverGets, ReceiverFails, RcvType, Vacant
    <2>3. CASE HandleComplete
      BY <1>0, <2>3 DEF HandleComplete, ReceiverFails, RcvType, Vacant
    <2>4. CASE HandleCancel
      BY <1>0, <2>4 DEF HandleCancel, ReceiverFails, RcvType, Vacant
    <2> QED
      BY <1>2, <2>1, <2>2, <2>3, <2>4 DEF ReceiverPackets
  <1>3. CASE SendPendingAccept \/ ReceiveTimeout \/ ReceiverUser \/ ReceiverPowerLoss
    <2>1. CASE StartListening \/ RejectOffer \/ ReceiverExit \/ ReceiverPowerLoss
      <3>1. rcv' = Away \/ rcv' = [Away EXCEPT !.state = "Listening", !.session = rcv.session]
        BY <2>1 DEF StartListening, RejectOffer, ReceiverExit, ReceiverPowerLoss, Listening
      <3>2. CASE rcv' = Away
        BY <3>2 DEF Away, Vacant
      <3>3. CASE rcv' = [Away EXCEPT !.state = "Listening", !.session = rcv.session]
        <4>1. rcv' = [state |-> "Listening", session |-> rcv.session, peer |-> FALSE, seq |-> 0,
                      target |-> NoName, acceptPending |-> FALSE, step |-> "none"]
          BY <3>3 DEF Away
        <4> QED
          BY <4>1 DEF Vacant
      <3> QED
        BY <3>1, <3>2, <3>3
    <2>2. CASE AskWhatToDo
      BY <1>0, <2>2 DEF AskWhatToDo, RcvType, Vacant
    <2>3. CASE AcceptOffer
      BY <1>0, <2>3 DEF AcceptOffer, OpenPart, Chosen, Replacing, FreeName, RcvType, Vacant
    <2>4. CASE AcceptFails \/ SendPendingAccept \/ ReceiveTimeout
      BY <1>0, <2>4 DEF AcceptFails, SendPendingAccept, ReceiveTimeout, ReceiverFails, RcvType, Vacant
    <2> QED
      BY <1>3, <2>1, <2>2, <2>3, <2>4 DEF ReceiverUser
  <1>4. CASE ReceiverFinish
    <2>1. CASE BackupOld
      BY <1>0, <2>1 DEF BackupOld, Vacant, Target, RcvType
    <2>2. CASE InstallNew \/ RemoveBackup \/ ReportSuccess
      BY <1>0, <2>2 DEF InstallNew, RemoveBackup, ReportSuccess, Vacant, RcvType
    <2>3. CASE BackupFails \/ InstallFails
      BY <1>0, <2>3 DEF BackupFails, InstallFails, ReceiverFails, Vacant, RcvType
    <2> QED
      BY <1>4, <2>1, <2>2, <2>3 DEF ReceiverFinish
  <1>5. CASE SenderPackets \/ SenderTimers \/ SenderUser \/ SenderPowerLoss \/ LosePacket
    BY <1>1, <1>5
    DEF SenderPackets, SenderTimers, SenderUser, HandleAdvertise, HandleAccept, HandleReject, HandleAck,
        HandleResult, SenderCancelled, SenderDrops, DiscoverAgain, OfferAgain, SendAgain,
        StartDiscovery, SelectPeer, SenderExit, SenderPowerLoss, LosePacket, SenderOnly, card
  <1> QED
    BY <1>2, <1>3, <1>4, <1>5 DEF Next

\* The renames but one only move a file between a name and its backup.
LEMMA ShelfStays ==
  ASSUME IInv, Vacant, Next, ~InstallNew
  PROVE  Shelf' = Shelf
  <1>0. /\ RcvType /\ Files /\ DOMAIN disk = Names /\ DOMAIN backup = Names
        /\ rcv.step # "none" => rcv.target \in Names
    BY DEF IInv, Transfer, Types, CardType, RcvType
  <1> SUFFICES ASSUME NEW t \in Names
               PROVE  (IF disk'[t] # NoFile THEN disk'[t] ELSE backup'[t])
                        = (IF disk[t] # NoFile THEN disk[t] ELSE backup[t])
    BY DEF Shelf
  <1>1. CASE UNCHANGED <<disk, backup>>
    BY <1>1
  <1>2. CASE BackupOld
    BY <1>0, <1>2 DEF BackupOld, Target, Files
  <1>3. CASE BackupFails
    BY <1>0, <1>3 DEF BackupFails, Target, Files
  <1>4. CASE InstallFails
    BY <1>0, <1>4 DEF InstallFails, Target, Files, Vacant
  <1>5. CASE RemoveBackup
    BY <1>0, <1>5, FileFacts DEF RemoveBackup, Target, Files
  <1> QED
    BY <1>1, <1>2, <1>3, <1>4, <1>5, CardSteps

\* The rename that moves the new file in delivers it.
LEMMA InstallDelivers ==
  ASSUME IInv, Once, InstallNew
  PROVE  D!Deliver(rcv.target, File(rcv.session))
  <1>0. /\ Types /\ Results /\ DOMAIN disk = Names /\ DOMAIN backup = Names
        /\ rcv.state = "Receiving" /\ rcv.target \in Names /\ rcv.session \in 1..started
        /\ part[rcv.target] = File(rcv.session) /\ ~Stored
        /\ rcv.step \in {"install", "replace"}
    BY Finishing DEF IInv, Transfer, Types, CardType, InstallNew
  <1>1. /\ disk' = [disk EXCEPT ![rcv.target] = File(rcv.session)] /\ backup' = backup
        /\ rcv'.state = "Receiving" /\ snd' = snd
    BY <1>0 DEF InstallNew, Target, ReceiverOnly, Types, RcvType
  <1>2. Shelf' = [Shelf EXCEPT ![rcv.target] = File(rcv.session)]
    BY <1>0, <1>1, FileFacts DEF Shelf
  <1>3. SaidSent = NoFile /\ SaidSent' = NoFile
    BY <1>0, <1>1 DEF SaidSent, Results
  <1>4. /\ SaidReceived = [name |-> NoName, file |-> NoFile]
        /\ SaidReceived' = [name |-> NoName, file |-> NoFile]
    BY <1>0, <1>1 DEF SaidReceived
  <1>5. ~Kept(rcv.session)
    BY <1>0 DEF Once, Coming
  <1>6. \A u \in Names : Shelf[u] # File(rcv.session)
    BY <1>5 DEF Shelf, Kept
  <1>7. SaidReceived.name # rcv.target
    BY <1>0, <1>4, ConstantsAssumption
  <1> QED
    BY <1>2, <1>3, <1>4, <1>6, <1>7 DEF D!Deliver

\* While no file moves in, a device that turns to success has one to speak of.
LEMMA DevicesSpeak ==
  ASSUME IInv, IInv', Vacant, Next, ~InstallNew
  PROVE  D!Next
  <1>0. Shelf' = Shelf
    BY ShelfStays
  <1>1. CASE UNCHANGED snd
    <2>1. SaidSent' = SaidSent
      BY <1>1 DEF SaidSent
    <2>2. CASE rcv'.state = "Success"
      <3>1. Types' /\ Sent' /\ Files'
        BY DEF IInv, Transfer
      <3>2. rcv'.target \in Names /\ disk'[rcv'.target] = File(rcv'.session)
        BY <2>2, <3>1 DEF Files, Types, RcvType
      <3>3. rcv'.session \in Sessions
        BY <2>2, <3>1, ConstantsAssumption DEF Sent, Types, CountType, Sessions
      <3>4. Shelf'[rcv'.target] = File(rcv'.session)
        BY <3>2, FileFacts DEF Shelf
      <3>5. D!SayReceived(rcv'.target, File(rcv'.session))
        BY <1>0, <2>1, <2>2, <3>4 DEF D!SayReceived, D!Received, SaidReceived
      <3> QED
        BY <3>2, <3>3, <3>5 DEF D!Next
    <2>3. CASE rcv'.state # "Success"
      BY <1>0, <2>1, <2>3 DEF D!Next, D!Leave, D!Silence, D!Received, SaidReceived
    <2> QED
      BY <2>2, <2>3
  <1>2. CASE UNCHANGED <<rcv, disk, backup>>
    <2>1. SaidReceived' = SaidReceived
      BY <1>2 DEF SaidReceived
    <2>2. CASE snd'.state = "Success"
      <3>1. Types' /\ Sent' /\ Results'
        BY DEF IInv, Transfer
      <3>2. snd'.session \in Sessions
        BY <2>2, <3>1, ConstantsAssumption DEF Sent, Types, CountType, Sessions
      <3>3. \E t \in Names : disk'[t] = File(snd'.session)
        BY <2>2, <3>1 DEF Results, Stored
      <3>4. \E t \in Names : Shelf'[t] = File(snd'.session)
        BY <3>3, FileFacts DEF Shelf
      <3>5. D!SaySent(File(snd'.session))
        BY <1>0, <2>1, <2>2, <3>4 DEF D!SaySent, SaidSent
      <3> QED
        BY <3>2, <3>5 DEF D!Next
    <2>3. CASE snd'.state # "Success"
      BY <1>0, <2>1, <2>3 DEF D!Next, D!Leave, SaidSent
    <2> QED
      BY <2>2, <2>3
  <1> QED
    BY <1>1, <1>2, OneDevice

\* The whole transfer, whatever gets lost, repeated or cut off, is one delivery
\* of the file, and success is spoken of after it.
THEOREM TransferDelivers == Spec => DeliveredWhole
  <1>1. ASSUME Init PROVE D!Init
    <2>1. snd.state = "off" /\ rcv.state = "off"
      BY <1>1 DEF Init, Off, Away
    <2>2. \A t \in Names : disk[t] \in {NoFile, Old} /\ backup[t] = NoFile
      BY <1>1 DEF Init
    <2>3. Shelf \in [Names -> {NoFile, Old}]
      BY <2>2 DEF Shelf
    <2> QED
      BY <2>1, <2>3 DEF D!Init, D!Silence, D!Received, SaidSent, SaidReceived
  <1>2. ASSUME Init PROVE Once /\ Vacant
    BY <1>2, Arithmetic DEF Init, Once, Vacant, Away
  <1>3. ASSUME IInv, IInv', Once, Vacant, [Next]_vars
        PROVE  [D!Next]_(D!vars)
    <2>1. CASE UNCHANGED vars
      BY <2>1 DEF vars, card, D!vars, Shelf, SaidSent, SaidReceived
    <2>2. CASE InstallNew
      <3>1. rcv.target \in Names /\ rcv.session \in Sessions
        BY <1>3, <2>2, Finishing, ConstantsAssumption
           DEF InstallNew, IInv, Types, CountType, Sessions
      <3> QED
        BY <1>3, <2>2, <3>1, InstallDelivers DEF D!Next
    <2>3. CASE Next /\ ~InstallNew
      BY <1>3, <2>3, DevicesSpeak
    <2> QED
      BY <1>3, <2>1, <2>2, <2>3
  <1>4. IInv /\ Vacant /\ [Next]_vars => Vacant'
    BY VacantStep DEF vars, card, Vacant
  <1> QED
    BY <1>1, <1>2, <1>3, <1>4, TransferKept, OnceStep, PTL DEF Spec, DeliveredWhole, D!Spec
=============================================================================
