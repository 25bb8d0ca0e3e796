------------------------------- MODULE OtaBoot -------------------------------
(***************************************************************************)
(* Installing firmware: src/network/FirmwareFlasher.cpp (from the card) and *)
(* OtaUpdater::installUpdate (from the network) write the app partition    *)
(* that is not running.  Then ota_boot::switchTo makes the bootloader choose *)
(* it by writing the otadata slot that is not in use; for a download the   *)
(* IDF's esp_ota_set_boot_partition does the same after a check of the     *)
(* image.                                                                  *)
(*                                                                         *)
(* Power is lost, and flash operations fail, between any two steps.  The   *)
(* bootloader is not part of the repository: it boots what the valid       *)
(* otadata slot with the highest sequence number names, and may give a new *)
(* image one try.  Nobody changes the card while flashFromSdPath runs.     *)
(***************************************************************************)
EXTENDS Integers

CONSTANTS
  MaxSeq,    \* bound on the sequence numbers
  MaxFaults  \* bound on the faults

ASSUME ConstantsAssumption == MaxSeq \in Nat /\ MaxFaults \in Nat

Slots      == {0, 1}   \* the two otadata sectors
Partitions == {0, 1}   \* app0 and app1
NoSlot     == -1

VARIABLES
  slots,   \* slots[i]: the SelectEntry in sector i; seq 0 when its CRC is wrong
  app,     \* app[p]: the image in partition p; "bad" is whole, but does not run
  sd,      \* the .bin file that was picked
  running, \* the running partition
  dest,    \* the next-update partition of the installation
  target,  \* targetSlot and newSeq of switchTo
  newSeq,
  pc,      \* the next step of the installation, or of the boot
  rollsBack, \* the bootloader gives a new image one try
  lastRun, \* history: the partition of the image that last ran
  faults

local == <<dest, target, newSeq>>
vars  == <<slots, app, sd, running, local, pc, rollsBack, lastRun, faults>>

Images  == {"good", "bad", "partial"}
States  == {"new", "pending", "valid", "invalid", "aborted"}
Entries == [seq : Nat, state : States]

\* An erased sector, or one whose entry was not written to its end.
Blank == [seq |-> 0, state |-> "invalid"]

-----------------------------------------------------------------------------
\* The entries the code and the bootloader look at.
Usable(e) == e.seq # 0 /\ e.state \notin {"invalid", "aborted"}

\* The slot among U with the highest sequence number.
Highest(ss, U) ==
  IF 0 \in U /\ (1 \in U => ss[1].seq <= ss[0].seq) THEN 0
  ELSE IF 1 \in U THEN 1 ELSE NoSlot

\* Every slot that was written, whatever became of its image.
Written(ss) == {i \in Slots : ss[i].seq # 0}

\* The slots switchTo looks at.
Candidates(ss) == {i \in Slots : Usable(ss[i])}

ActiveIdx(ss) == Highest(ss, Candidates(ss))
ActiveSeq(ss) == IF ActiveIdx(ss) = NoSlot THEN 0 ELSE ss[ActiveIdx(ss)].seq

\* ota_seq encodes the partition.
PartitionOf(seq) == (seq - 1) % 2

\* The next sequence number, whatever it selects.
SeqPlusOne(seq, p) == seq + 1

\* The smallest sequence number above seq that selects p.
NextSeq(seq, p) == IF PartitionOf(seq + 1) = p THEN seq + 1 ELSE seq + 2

\* What the bootloader chooses; app0 when there is no usable entry.
Booted(ss)   == Highest(ss, {i \in Slots : Usable(ss[i])})
Selected(ss) == IF Booted(ss) = NoSlot THEN 0 ELSE PartitionOf(ss[Booted(ss)].seq)

Room    == ActiveSeq(slots) + 2 <= MaxSeq
Fault   == faults < MaxFaults /\ faults' = faults + 1
Goto(l) == pc' = l

Init ==
  /\ slots \in {[i \in Slots |-> Blank],
                [i \in Slots |-> IF i = 0 THEN [seq |-> 1, state |-> "new"] ELSE Blank]}
  /\ app \in {[p \in Partitions |-> IF p = 0 THEN "good" ELSE i] : i \in Images}
  /\ sd = "partial" /\ running = 0
  /\ dest = 1 /\ target = 0 /\ newSeq = 0
  /\ rollsBack \in BOOLEAN
  /\ pc = "off" /\ lastRun = 0 /\ faults = 0

-----------------------------------------------------------------------------
(* SdFirmwareUpdateActivity and flashFromSdPath.                           *)

\* The file that was picked is checked before the user is asked.
Pick ==
  /\ pc = "idle"
  /\ \E f \in Images : sd' = f /\ Goto(IF f = "partial" THEN "idle" ELSE "confirm")
  /\ UNCHANGED <<slots, app, running, local, lastRun, faults>>

\* The card is changed while the user is asked.
ChangeCard ==
  /\ pc = "confirm"
  /\ sd' \in Images
  /\ UNCHANGED <<slots, app, running, local, pc, lastRun, faults>>

Decline ==
  /\ pc = "confirm"
  /\ Goto("idle")
  /\ UNCHANGED <<slots, app, sd, running, local, lastRun, faults>>

\* The check before the question is taken for good (alreadyValidated).
ConfirmUnchecked ==
  /\ pc = "confirm" /\ Room
  /\ dest' = 1 - running
  /\ Goto("flash")
  /\ UNCHANGED <<slots, app, sd, running, target, newSeq, lastRun, faults>>

\* The file is checked again, for the partition that is not running.
Confirm ==
  /\ pc = "confirm" /\ Room
  /\ IF sd = "partial"
     THEN Goto("idle") /\ UNCHANGED dest
     ELSE Goto("flash") /\ dest' = 1 - running
  /\ UNCHANGED <<slots, app, sd, running, target, newSeq, lastRun, faults>>

-----------------------------------------------------------------------------
(* OtaUpdater::installUpdate.                                              *)

StartDownload ==
  /\ pc = "idle" /\ Room
  /\ dest' = 1 - running
  /\ Goto("download")
  /\ UNCHANGED <<slots, app, sd, running, target, newSeq, lastRun, faults>>

-----------------------------------------------------------------------------
(* Writing the image.                                                      *)

\* The first erase takes the old image away.
Erase ==
  /\ pc \in {"flash", "download"}
  /\ app' = [app EXCEPT ![dest] = "partial"]
  /\ Goto(IF pc = "flash" THEN "copy" ELSE "receive")
  /\ UNCHANGED <<slots, sd, running, local, lastRun, faults>>

\* The rest of the file goes to flash chunk by chunk.
Copy ==
  /\ pc = "copy"
  /\ app' = [app EXCEPT ![dest] = sd]
  /\ Goto("switch")
  /\ UNCHANGED <<slots, sd, running, local, lastRun, faults>>

\* A download that switches whatever it received.
ReceiveUnverified ==
  /\ pc = "receive"
  /\ \E i \in Images : app' = [app EXCEPT ![dest] = i]
  /\ Goto("switch")
  /\ UNCHANGED <<slots, sd, running, local, lastRun, faults>>

\* Size, digest, esp_ota_end and the check of esp_ota_set_boot_partition stand
\* between the download and the switch.
Receive ==
  /\ pc = "receive"
  /\ \E i \in Images :
       /\ app' = [app EXCEPT ![dest] = i]
       /\ Goto(IF i = "partial" THEN "idle" ELSE "switch")
  /\ UNCHANGED <<slots, sd, running, local, lastRun, faults>>

\* An erase, read or write fails; a download is cancelled or breaks off.
InstallFails ==
  /\ pc \in {"flash", "download", "copy", "receive"}
  /\ Fault
  /\ Goto("idle")
  /\ UNCHANGED <<slots, app, sd, running, local, lastRun>>

-----------------------------------------------------------------------------
(* switchTo, and the part of esp_ota_set_boot_partition that is like it.   *)

\* The new entry goes where the active one is.
ChooseActiveSlot ==
  /\ pc = "switch"
  /\ newSeq' = NextSeq(ActiveSeq(slots), dest)
  /\ target' = ActiveIdx(slots)
  /\ Goto("eraseSlot")
  /\ UNCHANGED <<slots, app, sd, running, dest, lastRun, faults>>

\* Reads both slots, and prepares the entry and the slot it goes to.
ChooseSlot ==
  /\ pc = "switch"
  /\ newSeq' = NextSeq(ActiveSeq(slots), dest)
  /\ target' = IF ActiveIdx(slots) = 0 THEN 1 ELSE 0
  /\ Goto("eraseSlot")
  /\ UNCHANGED <<slots, app, sd, running, dest, lastRun, faults>>

EraseSlot ==
  /\ pc = "eraseSlot"
  /\ slots' = [slots EXCEPT ![target] = Blank]
  /\ Goto("writeSlot")
  /\ UNCHANGED <<app, sd, running, local, lastRun, faults>>

WriteSlot ==
  /\ pc = "writeSlot"
  /\ slots' = [slots EXCEPT ![target] = [seq |-> newSeq, state |-> "new"]]
  /\ Goto("restart")
  /\ UNCHANGED <<app, sd, running, local, lastRun, faults>>

\* A failing erase may have erased the sector already.
SwitchFails ==
  /\ pc \in {"switch", "eraseSlot", "writeSlot"}
  /\ Fault
  /\ slots' \in {slots} \cup (IF pc = "eraseSlot" THEN {[slots EXCEPT ![target] = Blank]} ELSE {})
  /\ Goto("idle")
  /\ UNCHANGED <<app, sd, running, local, lastRun>>

-----------------------------------------------------------------------------
(* Power, and the bootloader.                                              *)

PowerLoss ==
  /\ pc # "off" /\ Fault
  /\ Goto("off")
  /\ UNCHANGED <<slots, app, sd, running, local, lastRun>>

\* Switched on, or restarted.  A bootloader that rolls back marks a new entry
\* when it tries its image, and gives up on one it finds marked.
Boot ==
  /\ pc \in {"off", "restart"}
  /\ \A i \in Slots : i = Booted(slots) => slots[i].state # "pending"
  /\ running' = Selected(slots)
  /\ slots' = [i \in Slots |->
                IF rollsBack /\ i = Booted(slots) /\ slots[i].state = "new"
                THEN [slots[i] EXCEPT !.state = "pending"] ELSE slots[i]]
  /\ Goto("starting")
  /\ UNCHANGED <<app, sd, local, lastRun, faults>>

GiveUpOn ==
  /\ pc \in {"off", "restart"}
  /\ \E i \in Slots :
       /\ i = Booted(slots) /\ slots[i].state = "pending"
       /\ slots' = [slots EXCEPT ![i].state = "aborted"]
  /\ UNCHANGED <<app, sd, running, local, pc, lastRun, faults>>

\* The image runs, and confirms itself before setup().
Start ==
  /\ pc = "starting" /\ app[running] = "good"
  /\ lastRun' = running
  /\ slots' = [i \in Slots |-> IF i = Booted(slots) /\ slots[i].state = "pending"
                               THEN [slots[i] EXCEPT !.state = "valid"] ELSE slots[i]]
  /\ Goto("idle")
  /\ UNCHANGED <<app, sd, running, local, faults>>

Crash ==
  /\ pc = "starting" /\ app[running] # "good"
  /\ Goto("off")
  /\ UNCHANGED <<slots, app, sd, running, local, lastRun, faults>>

-----------------------------------------------------------------------------
Install ==
  Pick \/ ChangeCard \/ Decline \/ Confirm \/ StartDownload
  \/ Erase \/ Copy \/ Receive \/ InstallFails

SwitchTo == ChooseSlot \/ EraseSlot \/ WriteSlot \/ SwitchFails

Power == PowerLoss \/ Boot \/ GiveUpOn \/ Start \/ Crash

Next == (Install \/ SwitchTo \/ Power) /\ UNCHANGED rollsBack

Spec == Init /\ [][Next]_vars

-----------------------------------------------------------------------------
Labels == {"idle", "confirm", "flash", "copy", "download", "receive", "switch",
           "eraseSlot", "writeSlot", "restart", "off", "starting"}

\* Every variable has its type.
TypeOK ==
  /\ slots \in [Slots -> Entries]
  /\ app \in [Partitions -> Images]
  /\ sd \in Images
  /\ running \in Partitions /\ dest \in Partitions /\ lastRun \in Partitions
  /\ target \in Slots /\ newSeq \in Nat
  /\ pc \in Labels /\ rollsBack \in BOOLEAN
  /\ faults \in 0..MaxFaults

\* flashFromSdPath: "a truncated/corrupted .bin can never become the next boot
\* target", at no moment of an installation and whatever fails or is cut off.
NeverBootsPartial == app[Selected(slots)] # "partial"

\* switchTo returned true: the next boot takes the image just written.
SwitchTakesEffect == pc = "restart" => Selected(slots) = dest

\* Until a new image has run the one that ran last stays in its partition, and
\* is what the bootloader is left with when it gives up on every entry for the
\* other partition.
FallbackKept ==
  /\ app[lastRun] = "good"
  /\ Selected([i \in Slots |-> IF PartitionOf(slots[i].seq) = lastRun THEN slots[i] ELSE Blank])
       = lastRun

\* All the erasing, copying and renumbering amounts to a device with two
\* images of which one is chosen: an installation changes the choice in one step
\* and for a whole image only, and never the image it would go back to.
F == INSTANCE Firmware WITH
  Whole  <- Images \ {"partial"},
  Runs   <- {"good"},
  image  <- app,
  choice <- Selected(slots),
  last   <- lastRun,
  trial  <- rollsBack
ChoiceIsAtomic == F!Spec
=============================================================================
