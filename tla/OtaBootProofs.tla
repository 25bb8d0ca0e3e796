---------------------------- MODULE OtaBootProofs ----------------------------
(***************************************************************************)
(* An installation never leaves a device that does not boot: the safety    *)
(* properties of OtaBoot, for any number of installations and faults.      *)
(***************************************************************************)
EXTENDS OtaBoot, TLAPS

\* While firmware runs, the bootloader would boot it again.
Running ==
  /\ pc \notin {"off", "restart", "starting"} => running = lastRun /\ Selected(slots) = running
  /\ pc = "starting" => running = Selected(slots)

\* An installation goes to the other partition.
DestOK ==
  pc \in {"flash", "copy", "download", "receive", "switch", "eraseSlot", "writeSlot"} =>
    dest = 1 - running

\* Only a whole image gets as far as switchTo.
ImageOK ==
  /\ pc \in {"flash", "copy"} => sd # "partial"
  /\ pc \in {"switch", "eraseSlot", "writeSlot"} => app[dest] # "partial"

\* switchTo has chosen the slot that is not active, and a number above it.
TargetOK ==
  /\ pc \in {"eraseSlot", "writeSlot"} =>
       /\ target = (IF ActiveIdx(slots) = 0 THEN 1 ELSE 0)
       /\ newSeq = NextSeq(ActiveSeq(slots), dest)
  /\ pc = "writeSlot" => slots[target] = Blank

\* The bootloader can still find the partition that ran last.
Named ==
  lastRun = 0 \/ \E i \in Slots : Usable(slots[i]) /\ PartitionOf(slots[i].seq) = lastRun

\* A new image is on trial only until it runs, and the bootloader that gives
\* up on it boots the one that ran last.
OnTrial ==
  \A i \in Slots :
    /\ slots[i].state = "pending" => rollsBack
    /\ rollsBack /\ slots[i].seq # 0 /\ slots[i].state = "new" => pc \in {"off", "restart"}
    /\ rollsBack /\ slots[i].seq # 0 /\ slots[i].state = "pending" => pc \in {"off", "starting"}
    /\ rollsBack /\ slots[i].seq # 0 /\ slots[i].state \in {"new", "pending"} =>
         /\ i = Booted(slots)
         /\ Selected([slots EXCEPT ![i] = Blank]) = lastRun

IInv ==
  /\ TypeOK /\ Running /\ DestOK /\ ImageOK /\ TargetOK /\ Named /\ OnTrial
  /\ app[lastRun] = "good"
  /\ NeverBootsPartial
  /\ SwitchTakesEffect

-----------------------------------------------------------------------------
(* Sequence numbers and slots.                                             *)

Table == [Slots -> Entries]

\* A sequence number selects one of the two partitions.
LEMMA PartitionType == \A n \in Nat : PartitionOf(n) \in Partitions
  BY DEF PartitionOf, Partitions

\* switchTo's number is above the active one and selects dest.
LEMMA NextSeqSelects ==
  ASSUME NEW n \in Nat, NEW p \in Partitions
  PROVE  NextSeq(n, p) \in Nat /\ n < NextSeq(n, p) /\ PartitionOf(NextSeq(n, p)) = p
  BY DEF NextSeq, PartitionOf, Partitions

\* The chosen slot is usable, and no usable slot has a higher number.
LEMMA BootedHighest ==
  ASSUME NEW ss \in Table
  PROVE  /\ Booted(ss) \in Slots \cup {NoSlot}
         /\ Booted(ss) = NoSlot => \A i \in Slots : ~Usable(ss[i])
         /\ Booted(ss) \in Slots =>
              /\ Usable(ss[Booted(ss)])
              /\ \A i \in Slots : Usable(ss[i]) => ss[i].seq <= ss[Booted(ss)].seq
  <1>1. ss[0] \in Entries /\ ss[1] \in Entries
    BY DEF Table, Slots
  <1> QED
    BY <1>1 DEF Booted, Highest, Slots, NoSlot, Entries

\* The code and the bootloader look for the same slot.
LEMMA ActiveIsBooted == \A ss : ActiveIdx(ss) = Booted(ss)
  BY DEF ActiveIdx, Booted, Candidates

\* An entry that is not usable might as well be blank.
LEMMA SameChoice ==
  ASSUME NEW ss \in Table, NEW tt \in Table,
         \A i \in Slots : /\ Usable(ss[i]) <=> Usable(tt[i])
                          /\ Usable(ss[i]) => ss[i].seq = tt[i].seq
  PROVE  Booted(ss) = Booted(tt) /\ Selected(ss) = Selected(tt)
  <1>1. {i \in Slots : Usable(ss[i])} = {i \in Slots : Usable(tt[i])}
    OBVIOUS
  <1>2. Booted(ss) = Booted(tt)
    BY <1>1 DEF Booted, Highest, Slots
  <1>3. Booted(ss) # NoSlot => Booted(ss) \in Slots /\ Usable(ss[Booted(ss)])
    BY BootedHighest
  <1> QED
    BY <1>2, <1>3 DEF Selected

\* What is chosen is app0, or what a usable entry names.
LEMMA SelectedNamed ==
  ASSUME NEW ss \in Table
  PROVE  /\ Selected(ss) \in Partitions
         /\ Selected(ss) = 0 \/ \E i \in Slots : Usable(ss[i]) /\ PartitionOf(ss[i].seq) = Selected(ss)
  <1>1. CASE Booted(ss) = NoSlot
    BY <1>1 DEF Selected, Partitions
  <1>2. CASE Booted(ss) # NoSlot
    <2>1. Booted(ss) \in Slots /\ Usable(ss[Booted(ss)])
      BY <1>2, BootedHighest
    <2>2. Selected(ss) = PartitionOf(ss[Booted(ss)].seq)
      BY <1>2 DEF Selected
    <2>3. ss[Booted(ss)].seq \in Nat
      BY <2>1 DEF Table, Entries
    <2> QED
      BY <2>1, <2>2, <2>3, PartitionType
  <1> QED
    BY <1>1, <1>2

\* A usable entry with the highest number is the choice.
LEMMA HighestChosen ==
  ASSUME NEW ss \in Table, NEW k \in Slots, Usable(ss[k]),
         \A i \in Slots \ {k} : Usable(ss[i]) => ss[i].seq < ss[k].seq
  PROVE  Booted(ss) = k /\ Selected(ss) = PartitionOf(ss[k].seq)
  <1>1. Booted(ss) \in Slots
    BY BootedHighest
  <1>2. Booted(ss) = k
    <2>1. ss[k].seq <= ss[Booted(ss)].seq /\ Usable(ss[Booted(ss)])
      BY <1>1, BootedHighest
    <2>2. ss[k].seq \in Nat /\ ss[Booted(ss)].seq \in Nat
      BY <1>1 DEF Table, Entries
    <2> QED
      BY <1>1, <2>1, <2>2
  <1> QED
    BY <1>2 DEF Selected, NoSlot, Slots

\* Erasing the slot that is not active leaves the choice alone.
LEMMA EraseInactive ==
  ASSUME NEW ss \in Table, NEW t \in Slots, t # Booted(ss)
  PROVE  LET tt == [ss EXCEPT ![t] = Blank] IN
         /\ tt \in Table
         /\ Booted(tt) = Booted(ss) /\ Selected(tt) = Selected(ss)
         /\ ActiveIdx(tt) = ActiveIdx(ss) /\ ActiveSeq(tt) = ActiveSeq(ss)
  <1> DEFINE tt == [ss EXCEPT ![t] = Blank]
  <1>1. tt \in Table /\ tt[t] = Blank /\ ~Usable(tt[t]) /\ \A i \in Slots \ {t} : tt[i] = ss[i]
    BY DEF Table, Entries, States, Blank, Usable
  <1>2. Booted(tt) = Booted(ss) /\ Selected(tt) = Selected(ss)
    <2>1. CASE Booted(ss) = NoSlot
      <3>1. \A i \in Slots : ~Usable(ss[i]) /\ ~Usable(tt[i])
        BY <1>1, <2>1, BootedHighest
      <3> QED
        BY <1>1, <3>1, SameChoice
    <2>2. CASE Booted(ss) # NoSlot
      <3> DEFINE k == Booted(ss)
      <3>1. k \in Slots /\ Usable(ss[k])
        BY <2>2, BootedHighest
      <3>2. \A i \in Slots : i = k \/ i = t
        BY <3>1 DEF Slots
      <3>3. Usable(tt[k]) /\ \A i \in Slots \ {k} : ~Usable(tt[i])
        BY <1>1, <3>1, <3>2
      <3>4. Booted(tt) = k /\ Selected(tt) = PartitionOf(tt[k].seq)
        BY <1>1, <3>1, <3>3, HighestChosen
      <3>5. Selected(ss) = PartitionOf(ss[k].seq)
        BY <2>2 DEF Selected
      <3> QED
        BY <1>1, <3>1, <3>4, <3>5
    <2> QED
      BY <2>1, <2>2
  <1>3. Booted(ss) # NoSlot => Booted(ss) \in Slots
    BY BootedHighest
  <1>4. ActiveIdx(tt) = ActiveIdx(ss) /\ ActiveSeq(tt) = ActiveSeq(ss)
    BY <1>1, <1>2, <1>3, ActiveIsBooted DEF ActiveSeq
  <1> QED
    BY <1>1, <1>2, <1>4
-----------------------------------------------------------------------------
(* The invariant.                                                          *)

\* What every conjunct but the fixed ones is about.
LEMMA TypeFacts ==
  ASSUME TypeOK
  PROVE  /\ slots \in Table
         /\ \A i \in Slots : slots[i] \in Entries
         /\ \A t \in Slots : [slots EXCEPT ![t] = Blank] \in Table
         /\ Selected(slots) \in Partitions
         /\ 1 - running \in Partitions /\ 1 - running # running
  <1>1. slots \in Table /\ \A i \in Slots : slots[i] \in Entries
    BY DEF TypeOK, Table
  <1>2. Blank \in Entries
    BY DEF Blank, Entries, States
  <1>3. 1 - running \in Partitions /\ 1 - running # running
    BY DEF TypeOK, Partitions
  <1> QED
    BY <1>1, <1>2, <1>3, SelectedNamed DEF Table

LEMMA InitIInv == Init => IInv
  <1> SUFFICES ASSUME Init PROVE IInv
    OBVIOUS
  <1>1. TypeOK
    BY ConstantsAssumption
    DEF Init, TypeOK, Slots, Partitions, Entries, States, Images, Labels, Blank
  <1>2. Selected(slots) = 0 /\ \A i \in Slots : Selected([slots EXCEPT ![i] = Blank]) = 0
    <2>1. /\ slots[1] = Blank /\ (slots[0] = Blank \/ slots[0] = [seq |-> 1, state |-> "new"])
          /\ DOMAIN slots = Slots
      BY DEF Init, Slots
    <2>2. Selected(slots) = 0
      BY <2>1 DEF Selected, Booted, Highest, Usable, Slots, Blank, NoSlot, PartitionOf
    <2>3. \A i \in Slots : Selected([slots EXCEPT ![i] = Blank]) = 0
      BY <2>1 DEF Selected, Booted, Highest, Usable, Slots, Blank, NoSlot, PartitionOf
    <2> QED
      BY <2>2, <2>3
  <1>3. OnTrial
    <2>1. slots[1] = Blank /\ (slots[0] = Blank \/ slots[0] = [seq |-> 1, state |-> "new"])
      BY DEF Init, Slots
    <2>2. slots[0] # Blank => Booted(slots) = 0
      BY <2>1 DEF Booted, Highest, Usable, Slots, Blank
    <2>3. lastRun = 0 /\ pc = "off"
      BY DEF Init
    <2>4. Blank.seq = 0 /\ Blank.state = "invalid"
      BY DEF Blank
    <2>5. \A i \in Slots : /\ slots[i].state # "pending"
                           /\ slots[i].seq # 0 => i = Booted(slots)
      BY <2>1, <2>2, <2>4 DEF Slots
    <2> QED
      BY <1>2, <2>3, <2>5 DEF OnTrial
  <1>4. app[0] = "good" /\ lastRun = 0 /\ pc = "off"
    BY DEF Init, Partitions
  <1> QED
    BY <1>1, <1>2, <1>3, <1>4
    DEF IInv, Running, DestOK, ImageOK, TargetOK, Named, NeverBootsPartial, SwitchTakesEffect

\* Actions that write neither otadata nor an app partition, and confirm nothing.
LEMMA QuietSteps ==
  ASSUME IInv, UNCHANGED rollsBack,
         Pick \/ ChangeCard \/ Decline \/ Confirm \/ StartDownload \/ InstallFails
           \/ ChooseSlot \/ PowerLoss \/ Crash
  PROVE  IInv'
  <1> USE DEF IInv
  <1>1. TypeOK'
    <2>1. NextSeq(ActiveSeq(slots), dest) \in Nat
      <3>1. ActiveSeq(slots) \in Nat
        BY TypeFacts, BootedHighest, ActiveIsBooted DEF ActiveSeq, Entries
      <3> QED
        BY <3>1, NextSeqSelects DEF TypeOK
    <2>2. sd' \in Images /\ pc' \in Labels
      BY DEF TypeOK, Pick, ChangeCard, Decline, Confirm, StartDownload, InstallFails, ChooseSlot,
             PowerLoss, Crash, Goto, Labels
    <2>3. dest' \in Partitions /\ target' \in Slots /\ newSeq' \in Nat
      BY <2>1, TypeFacts
      DEF TypeOK, Pick, ChangeCard, Decline, Confirm, StartDownload, InstallFails, ChooseSlot,
          PowerLoss, Crash, local, Slots
    <2>4. faults' \in 0..MaxFaults
      BY ConstantsAssumption
      DEF TypeOK, Pick, ChangeCard, Decline, Confirm, StartDownload, InstallFails, ChooseSlot,
          PowerLoss, Crash, Fault
    <2>5. UNCHANGED <<slots, app, running, lastRun>>
      BY DEF Pick, ChangeCard, Decline, Confirm, StartDownload, InstallFails, ChooseSlot,
             PowerLoss, Crash
    <2> QED
      BY <2>2, <2>3, <2>4, <2>5 DEF TypeOK
  <1>2. UNCHANGED <<slots, app, running, lastRun>>
    BY DEF Pick, ChangeCard, Decline, Confirm, StartDownload, InstallFails, ChooseSlot,
           PowerLoss, Crash, local
  <1>3. Running' /\ DestOK' /\ ImageOK' /\ SwitchTakesEffect'
    BY <1>2
    DEF Running, DestOK, ImageOK, SwitchTakesEffect, Pick, ChangeCard, Decline, Confirm,
        StartDownload, InstallFails, ChooseSlot, PowerLoss, Crash, Goto, local
  <1>4. TargetOK'
    BY <1>2
    DEF TargetOK, Pick, ChangeCard, Decline, Confirm, StartDownload, InstallFails, ChooseSlot,
        PowerLoss, Crash, Goto, local
  <1>5. OnTrial'
    BY <1>2
    DEF OnTrial, Pick, ChangeCard, Decline, Confirm, StartDownload, InstallFails, ChooseSlot,
        PowerLoss, Crash, Goto, local
  <1> QED
    BY <1>1, <1>2, <1>3, <1>4, <1>5 DEF Named, NeverBootsPartial

\* The image goes to the partition that is not running.
LEMMA ImageSteps ==
  ASSUME IInv, UNCHANGED rollsBack, Erase \/ Copy \/ Receive
  PROVE  IInv'
  <1> USE DEF IInv
  <1>1. UNCHANGED <<slots, sd, running, local, lastRun, faults>>
    BY DEF Erase, Copy, Receive
  <1>2. pc \in {"flash", "download", "copy", "receive"}
        /\ pc' \in {"copy", "receive", "idle", "switch"}
    BY DEF Erase, Copy, Receive, Goto
  <1>3. dest = 1 - running /\ running = lastRun /\ Selected(slots) = running
    BY <1>2 DEF DestOK, Running
  <1>4. TypeOK'
    BY <1>1, <1>2 DEF TypeOK, Erase, Copy, Receive, Images, Labels, local
  <1>5. app'[running] = app[running]
    BY <1>3, TypeFacts DEF Erase, Copy, Receive, TypeOK
  <1>6. NeverBootsPartial' /\ app'[lastRun'] = "good"
    BY <1>1, <1>3, <1>5 DEF NeverBootsPartial
  <1>7. ImageOK'
    BY <1>1 DEF ImageOK, Erase, Copy, Receive, Goto, TypeOK, local
  <1>8. OnTrial'
    BY <1>1, <1>2 DEF OnTrial
  <1> QED
    BY <1>1, <1>2, <1>3, <1>4, <1>6, <1>7, <1>8
    DEF Running, DestOK, TargetOK, Named, SwitchTakesEffect, local

\* switchTo erases the slot that is not active, or fails at any of its steps.
LEMMA EraseSteps ==
  ASSUME IInv, UNCHANGED rollsBack, EraseSlot \/ SwitchFails
  PROVE  IInv'
  <1> USE DEF IInv
  <1>1. UNCHANGED <<app, sd, running, local, lastRun>>
    BY DEF EraseSlot, SwitchFails
  <1>2. /\ pc \in {"switch", "eraseSlot", "writeSlot"}
        /\ pc' \in {"idle", "writeSlot"}
        /\ pc' = "writeSlot" => pc = "eraseSlot" /\ slots' = [slots EXCEPT ![target] = Blank]
        /\ slots' = slots \/ (pc = "eraseSlot" /\ slots' = [slots EXCEPT ![target] = Blank])
    BY DEF EraseSlot, SwitchFails, Goto
  <1>3. slots \in Table /\ target \in Slots
    BY TypeFacts DEF TypeOK
  <1>4. pc = "eraseSlot" => target # Booted(slots)
    BY ActiveIsBooted DEF TargetOK
  <1>5. /\ slots' \in Table
        /\ Selected(slots') = Selected(slots)
        /\ ActiveIdx(slots') = ActiveIdx(slots) /\ ActiveSeq(slots') = ActiveSeq(slots)
    BY <1>2, <1>3, <1>4, EraseInactive
  <1>6. TypeOK'
    <2>1. faults' \in 0..MaxFaults
      BY ConstantsAssumption DEF TypeOK, EraseSlot, SwitchFails, Fault
    <2> QED
      BY <1>1, <1>2, <1>5, <2>1 DEF TypeOK, Labels, Table, local
  <1>7. Selected(slots) = running /\ running = lastRun /\ dest = 1 - running
    BY <1>2 DEF Running, DestOK
  <1>8. Running' /\ DestOK' /\ ImageOK' /\ NeverBootsPartial' /\ SwitchTakesEffect'
        /\ app'[lastRun'] = "good"
    BY <1>1, <1>2, <1>5, <1>7
    DEF Running, DestOK, ImageOK, NeverBootsPartial, SwitchTakesEffect, local
  <1>9. TargetOK'
    BY <1>1, <1>2, <1>3, <1>5 DEF TargetOK, Table, local
  <1>10. Named'
    BY <1>1, <1>5, <1>7, SelectedNamed DEF Named
  <1>11. OnTrial'
    <2>1. \A i \in Slots : slots'[i] = slots[i] \/ slots'[i] = Blank
      BY <1>2, <1>3 DEF Table
    <2>2. \A i \in Slots : ~(rollsBack /\ slots[i].seq # 0 /\ slots[i].state \in {"new", "pending"})
      BY <1>2 DEF OnTrial
    <2>3. \A i \in Slots : slots[i].state = "pending" => rollsBack
      BY DEF OnTrial
    <2>4. Blank.seq = 0 /\ Blank.state = "invalid"
      BY DEF Blank
    <2> QED
      BY <2>1, <2>2, <2>3, <2>4 DEF OnTrial
  <1> QED
    BY <1>6, <1>8, <1>9, <1>10, <1>11

\* The entry switchTo writes has the highest number, and names the new image.
LEMMA WriteStep ==
  ASSUME IInv, UNCHANGED rollsBack, WriteSlot
  PROVE  IInv'
  <1> USE DEF IInv
  <1> DEFINE e == [seq |-> newSeq, state |-> "new"]
  <1>1. pc = "writeSlot" /\ pc' = "restart" /\ slots' = [slots EXCEPT ![target] = e]
        /\ UNCHANGED <<app, sd, running, local, lastRun, faults>>
    BY DEF WriteSlot, Goto
  <1>2. slots \in Table /\ target \in Slots /\ target # Booted(slots) /\ slots[target] = Blank
    BY <1>1, TypeFacts, ActiveIsBooted DEF TypeOK, TargetOK
  <1>3. Selected(slots) = running /\ running = lastRun /\ dest = 1 - running
    BY <1>1 DEF Running, DestOK
  <1>4. ActiveSeq(slots) \in Nat
        /\ \A i \in Slots : Usable(slots[i]) => slots[i].seq <= ActiveSeq(slots)
    BY TypeFacts, BootedHighest, ActiveIsBooted DEF ActiveSeq, Entries, NoSlot, Slots
  <1>5. newSeq \in Nat /\ ActiveSeq(slots) < newSeq /\ PartitionOf(newSeq) = dest
    BY <1>1, <1>4, NextSeqSelects DEF TargetOK, TypeOK
  <1>6. e \in Entries /\ Usable(e)
    BY <1>4, <1>5 DEF Entries, States, Usable
  <1>7. /\ slots' \in Table /\ slots'[target] = e
        /\ \A i \in Slots \ {target} : slots'[i] = slots[i]
    BY <1>1, <1>2, <1>6 DEF Table
  <1>8. Booted(slots') = target /\ Selected(slots') = dest
    <2>1. \A i \in Slots \ {target} : Usable(slots'[i]) => slots'[i].seq < slots'[target].seq
      BY <1>4, <1>5, <1>7, TypeFacts DEF Entries
    <2> QED
      BY <1>2, <1>5, <1>6, <1>7, <2>1, HighestChosen
  <1>9. TypeOK'
    BY <1>1, <1>7 DEF TypeOK, Labels, Table, local
  <1>10. NeverBootsPartial' /\ SwitchTakesEffect' /\ app'[lastRun'] = "good"
    BY <1>1, <1>8 DEF NeverBootsPartial, SwitchTakesEffect, ImageOK, local
  <1>11. Named'
    <2>1. lastRun = 0
          \/ \E i \in Slots : Usable(slots[i]) /\ PartitionOf(slots[i].seq) = lastRun
      BY <1>2, <1>3, SelectedNamed
    <2>2. ~Usable(slots[target])
      BY <1>2 DEF Usable, Blank
    <2> QED
      BY <1>1, <1>7, <2>1, <2>2 DEF Named
  <1>12. OnTrial'
    <2>1. \A i \in Slots : ~(rollsBack /\ slots[i].seq # 0 /\ slots[i].state \in {"new", "pending"})
      BY <1>1 DEF OnTrial
    <2>2. [slots' EXCEPT ![target] = Blank] = slots
      BY <1>1, <1>2 DEF Table
    <2>3. \A i \in Slots : slots[i].state = "pending" => rollsBack
      BY DEF OnTrial
    <2> QED
      BY <1>1, <1>3, <1>7, <1>8, <2>1, <2>2, <2>3 DEF OnTrial
  <1> QED
    BY <1>1, <1>9, <1>10, <1>11, <1>12 DEF Running, DestOK, ImageOK, TargetOK

\* The bootloader boots what Selected says, and takes it on trial.
LEMMA BootStep ==
  ASSUME IInv, UNCHANGED rollsBack, Boot
  PROVE  IInv'
  <1> USE DEF IInv
  <1> DEFINE Tried(i) == rollsBack /\ i = Booted(slots) /\ slots[i].state = "new"
  <1>1. /\ pc \in {"off", "restart"} /\ pc' = "starting" /\ running' = Selected(slots)
        /\ slots' = [i \in Slots |-> IF Tried(i) THEN [slots[i] EXCEPT !.state = "pending"]
                                                 ELSE slots[i]]
        /\ UNCHANGED <<app, sd, local, lastRun, faults>>
    BY DEF Boot, Goto
  <1>2. slots \in Table /\ \A i \in Slots : slots[i] \in Entries
    BY TypeFacts
  <1>3. /\ slots' \in Table
        /\ \A i \in Slots : /\ slots'[i].seq = slots[i].seq
                            /\ slots'[i].state = IF Tried(i) THEN "pending" ELSE slots[i].state
    BY <1>1, <1>2 DEF Table, Entries, States
  <1>4. \A i \in Slots : Usable(slots[i]) <=> Usable(slots'[i])
    BY <1>3 DEF Usable
  <1>5. Booted(slots') = Booted(slots) /\ Selected(slots') = Selected(slots)
    BY <1>2, <1>3, <1>4, SameChoice
  <1>6. TypeOK'
    BY <1>1, <1>3, TypeFacts DEF TypeOK, Labels, Table, local
  <1>7. OnTrial'
    <2> SUFFICES ASSUME NEW i \in Slots
                 PROVE  /\ slots'[i].state = "pending" => rollsBack
                        /\ rollsBack /\ slots'[i].seq # 0 => slots'[i].state # "new"
                        /\ rollsBack /\ slots'[i].seq # 0 /\ slots'[i].state = "pending" =>
                             /\ i = Booted(slots')
                             /\ Selected([slots' EXCEPT ![i] = Blank]) = lastRun
      BY <1>1 DEF OnTrial
    <2>1. slots'[i].state = "pending" => rollsBack
      BY <1>3 DEF OnTrial
    <2>2. rollsBack /\ slots[i].seq # 0 /\ slots[i].state \in {"new", "pending"} =>
            i = Booted(slots) /\ Selected([slots EXCEPT ![i] = Blank]) = lastRun
      BY DEF OnTrial
    <2>3. rollsBack /\ slots'[i].seq # 0 => slots'[i].state # "new"
      BY <1>3, <2>2
    <2>4. Selected([slots' EXCEPT ![i] = Blank]) = Selected([slots EXCEPT ![i] = Blank])
      <3>1. [slots' EXCEPT ![i] = Blank] \in Table /\ [slots EXCEPT ![i] = Blank] \in Table
        BY <1>2, <1>3 DEF Table, Entries, States, Blank
      <3>2. \A j \in Slots :
              LET a == [slots' EXCEPT ![i] = Blank]
                  b == [slots EXCEPT ![i] = Blank]
              IN  (Usable(a[j]) <=> Usable(b[j])) /\ a[j].seq = b[j].seq
        BY <1>2, <1>3, <1>4 DEF Table
      <3> QED
        BY <3>1, <3>2, SameChoice
    <2> QED
      BY <1>3, <1>5, <2>1, <2>2, <2>3, <2>4
  <1>8. Named'
    BY <1>1, <1>3, <1>4 DEF Named
  <1> QED
    BY <1>1, <1>5, <1>6, <1>7, <1>8
    DEF Running, DestOK, ImageOK, TargetOK, NeverBootsPartial, SwitchTakesEffect

\* Who gives up on a new image is left with the one that ran last.
LEMMA GivenUp ==
  ASSUME IInv, GiveUpOn
  PROVE  Selected(slots') = lastRun
  <1> USE DEF IInv
  <1>1. PICK k \in Slots : /\ k = Booted(slots) /\ slots[k].state = "pending"
                           /\ slots' = [slots EXCEPT ![k].state = "aborted"]
    BY DEF GiveUpOn
  <1>2. slots \in Table /\ \A i \in Slots : slots[i] \in Entries
    BY TypeFacts
  <1>3. /\ slots' \in Table
        /\ slots'[k].seq = slots[k].seq /\ slots'[k].state = "aborted"
        /\ \A i \in Slots \ {k} : slots'[i] = slots[i]
    BY <1>1, <1>2 DEF Table, Entries, States
  <1>4. rollsBack /\ slots[k].seq # 0
    BY <1>1, <1>2, BootedHighest DEF OnTrial, Usable, NoSlot, Slots
  <1> DEFINE tt == [slots EXCEPT ![k] = Blank]
  <1>5. Selected(tt) = lastRun
    BY <1>1, <1>4 DEF OnTrial
  <1>6. tt \in Table /\ tt[k] = Blank /\ \A i \in Slots \ {k} : tt[i] = slots[i]
    BY <1>2 DEF Table, Entries, States, Blank
  <1>7. ~Usable(slots'[k]) /\ ~Usable(tt[k])
    BY <1>3, <1>6 DEF Usable, Blank
  <1>8. \A i \in Slots : /\ Usable(slots'[i]) <=> Usable(tt[i])
                         /\ Usable(slots'[i]) => slots'[i].seq = tt[i].seq
    BY <1>3, <1>6, <1>7
  <1> QED
    BY <1>3, <1>5, <1>6, <1>8, SameChoice

\* The bootloader gives up on an image that had its try.
LEMMA GiveUpStep ==
  ASSUME IInv, UNCHANGED rollsBack, GiveUpOn
  PROVE  IInv'
  <1> USE DEF IInv
  <1>1. /\ pc \in {"off", "restart"}
        /\ UNCHANGED <<app, sd, running, dest, target, newSeq, pc, lastRun, faults>>
    BY DEF GiveUpOn, local
  <1>2. PICK k \in Slots : /\ k = Booted(slots) /\ slots[k].state = "pending"
                           /\ slots' = [slots EXCEPT ![k].state = "aborted"]
    BY DEF GiveUpOn
  <1>3. slots \in Table /\ \A i \in Slots : slots[i] \in Entries
    BY TypeFacts
  <1>4. /\ slots' \in Table
        /\ slots'[k].seq = slots[k].seq /\ slots'[k].state = "aborted"
        /\ \A i \in Slots \ {k} : slots'[i] = slots[i]
    BY <1>2, <1>3 DEF Table, Entries, States
  <1>5. rollsBack /\ slots[k].seq # 0
    BY <1>2, <1>3, BootedHighest DEF OnTrial, Usable, NoSlot, Slots
  <1>6. Selected(slots') = lastRun
    BY GivenUp
  <1>7. TypeOK'
    BY <1>1, <1>4 DEF TypeOK, Table
  <1>8. Named'
    BY <1>1, <1>4, <1>6, SelectedNamed DEF Named
  <1>9. OnTrial'
    <2>1. \A i \in Slots : ~(slots'[i].seq # 0 /\ slots'[i].state \in {"new", "pending"})
      BY <1>2, <1>4, <1>5 DEF OnTrial
    <2> QED
      BY <1>5, <2>1 DEF OnTrial
  <1>10. pc = "off"
    BY <1>1, <1>2, <1>5 DEF OnTrial
  <1> QED
    BY <1>1, <1>6, <1>7, <1>8, <1>9, <1>10
    DEF Running, DestOK, ImageOK, TargetOK, NeverBootsPartial, SwitchTakesEffect

\* An image that runs is confirmed, and becomes the one to fall back on.
LEMMA StartStep ==
  ASSUME IInv, UNCHANGED rollsBack, Start
  PROVE  IInv'
  <1> USE DEF IInv
  <1> DEFINE Confirmed(i) == i = Booted(slots) /\ slots[i].state = "pending"
  <1>1. /\ pc = "starting" /\ pc' = "idle" /\ app[running] = "good" /\ lastRun' = running
        /\ slots' = [i \in Slots |-> IF Confirmed(i) THEN [slots[i] EXCEPT !.state = "valid"]
                                                     ELSE slots[i]]
        /\ UNCHANGED <<app, sd, running, local, faults>>
    BY DEF Start, Goto
  <1>2. slots \in Table /\ \A i \in Slots : slots[i] \in Entries
    BY TypeFacts
  <1>3. /\ slots' \in Table
        /\ \A i \in Slots : /\ slots'[i].seq = slots[i].seq
                            /\ slots'[i].state = IF Confirmed(i) THEN "valid" ELSE slots[i].state
    BY <1>1, <1>2 DEF Table, Entries, States
  <1>4. \A i \in Slots : Usable(slots[i]) <=> Usable(slots'[i])
    BY <1>3 DEF Usable
  <1>5. Selected(slots') = Selected(slots) /\ Selected(slots) = running
    BY <1>1, <1>2, <1>3, <1>4, SameChoice DEF Running
  <1>6. TypeOK'
    BY <1>1, <1>3 DEF TypeOK, Labels, Table, local
  <1>7. OnTrial'
    <2>1. \A i \in Slots : /\ slots[i].state = "pending" => rollsBack
                           /\ rollsBack /\ slots[i].seq # 0 => slots[i].state # "new"
                           /\ rollsBack /\ slots[i].seq # 0 /\ slots[i].state = "pending" =>
                                Confirmed(i)
      BY <1>1 DEF OnTrial
    <2>2. \A i \in Slots : /\ slots'[i].state = "pending" => rollsBack
                           /\ ~(rollsBack /\ slots'[i].seq # 0 /\ slots'[i].state \in {"new", "pending"})
      BY <1>3, <2>1
    <2> QED
      BY <2>2 DEF OnTrial
  <1>8. Named'
    <2>1. Selected(slots') = 0 \/ \E i \in Slots : /\ Usable(slots'[i])
                                                 /\ PartitionOf(slots'[i].seq) = Selected(slots')
      BY <1>3, SelectedNamed
    <2>2. lastRun' = Selected(slots')
      BY <1>1, <1>5
    <2> QED
      BY <2>1, <2>2 DEF Named
  <1> QED
    BY <1>1, <1>5, <1>6, <1>7, <1>8
    DEF Running, DestOK, ImageOK, TargetOK, NeverBootsPartial, SwitchTakesEffect

LEMMA NextIInv == IInv /\ [Next]_vars => IInv'
  <1> SUFFICES ASSUME IInv, [Next]_vars PROVE IInv'
    OBVIOUS
  <1>1. CASE UNCHANGED vars
    BY <1>1
    DEF vars, local, IInv, TypeOK, Running, DestOK, ImageOK, TargetOK, Named, OnTrial,
        NeverBootsPartial, SwitchTakesEffect
  <1>2. CASE Next
    <2>1. UNCHANGED rollsBack
      BY <1>2 DEF Next
    <2>2. CASE Install
      BY <2>1, <2>2, QuietSteps, ImageSteps DEF Install
    <2>3. CASE SwitchTo
      BY <2>1, <2>3, QuietSteps, EraseSteps, WriteStep DEF SwitchTo
    <2>4. CASE Power
      BY <2>1, <2>4, QuietSteps, BootStep, GiveUpStep, StartStep DEF Power
    <2> QED
      BY <1>2, <2>2, <2>3, <2>4 DEF Next
  <1> QED
    BY <1>1, <1>2

LEMMA SpecIInv == Spec => []IInv
  BY InitIInv, NextIInv, PTL DEF Spec

-----------------------------------------------------------------------------
(* The theorems.                                                           *)

\* An entry that names the partition that ran last is all the bootloader needs.
LEMMA FallbackFromNamed ==
  ASSUME IInv
  PROVE  FallbackKept
  <1> USE DEF IInv
  <1> DEFINE ss == [i \in Slots |-> IF PartitionOf(slots[i].seq) = lastRun THEN slots[i] ELSE Blank]
  <1>1. ss \in Table /\ ~Usable(Blank)
    BY TypeFacts DEF Table, Entries, States, Blank, Usable
  <1>2. \A i \in Slots : Usable(ss[i]) => PartitionOf(ss[i].seq) = lastRun
    BY <1>1
  <1>3. lastRun = 0 \/ \E i \in Slots : Usable(ss[i])
    BY DEF Named
  <1>4. CASE Booted(ss) = NoSlot
    BY <1>1, <1>3, <1>4, BootedHighest DEF Selected, FallbackKept
  <1>5. CASE Booted(ss) # NoSlot
    <2>1. Booted(ss) \in Slots /\ Usable(ss[Booted(ss)])
      BY <1>1, <1>5, BootedHighest
    <2>2. Selected(ss) = lastRun
      BY <1>2, <1>5, <2>1 DEF Selected
    <2> QED
      BY <2>2 DEF FallbackKept
  <1> QED
    BY <1>4, <1>5

\* Every variable has its type in every behaviour.
THEOREM TypeCorrect == Spec => []TypeOK
  <1>1. IInv => TypeOK
    BY DEF IInv
  <1> QED
    BY <1>1, SpecIInv, PTL

\* However installations fail or are cut off, what the bootloader would boot is
\* a whole image.
THEOREM NeverPartial == Spec => []NeverBootsPartial
  <1>1. IInv => NeverBootsPartial
    BY DEF IInv
  <1> QED
    BY <1>1, SpecIInv, PTL

\* When switchTo has succeeded the bootloader boots the partition it was given.
THEOREM SwitchWorks == Spec => []SwitchTakesEffect
  <1>1. IInv => SwitchTakesEffect
    BY DEF IInv
  <1> QED
    BY <1>1, SpecIInv, PTL

\* The firmware that ran last, and an entry that leads the bootloader to it,
\* survive every installation until another firmware has run.
THEOREM FallbackAlwaysKept == Spec => []FallbackKept
  <1>1. IInv => FallbackKept
    BY FallbackFromNamed
  <1> QED
    BY <1>1, SpecIInv, PTL

-----------------------------------------------------------------------------
(* The installation implements Firmware.                                   *)

LEMMA InstallChooses ==
  ASSUME IInv, IInv', Install, UNCHANGED rollsBack
  PROVE  [F!Next]_(F!vars)
  <1>1. UNCHANGED <<slots, lastRun>>
    BY DEF Install, Pick, ChangeCard, Decline, Confirm, StartDownload, Erase, Copy, Receive, InstallFails
  <1>2. CASE UNCHANGED app
    BY <1>1, <1>2 DEF F!vars
  <1>3. CASE Erase \/ Copy \/ Receive
    <2>1. pc \in {"flash", "download", "copy", "receive"}
      BY <1>3 DEF Erase, Copy, Receive
    <2>2. Selected(slots) = lastRun /\ dest = 1 - lastRun
      BY <2>1 DEF IInv, Running, DestOK
    <2>3. \E i \in Images : app' = [app EXCEPT ![dest] = i]
      BY <1>3 DEF Erase, Copy, Receive, IInv, TypeOK, Images
    <2>4. F!Fill
      BY <1>1, <2>2, <2>3 DEF F!Fill, F!Other
    <2> QED
      BY <2>4 DEF F!Next
  <1> QED
    BY <1>2, <1>3 DEF Install, Pick, ChangeCard, Decline, Confirm, StartDownload, InstallFails

LEMMA SwitchChooses ==
  ASSUME IInv, IInv', SwitchTo, UNCHANGED rollsBack
  PROVE  [F!Next]_(F!vars)
  <1>1. /\ UNCHANGED <<app, running, lastRun, dest>>
        /\ pc \in {"switch", "eraseSlot", "writeSlot"}
    BY DEF SwitchTo, ChooseSlot, EraseSlot, WriteSlot, SwitchFails, local
  <1>2. Selected(slots) = running /\ running = lastRun /\ dest = 1 - lastRun /\ app[dest] # "partial"
    BY <1>1 DEF IInv, Running, DestOK, ImageOK
  <1>3. CASE WriteSlot
    <2>1. Selected(slots') = dest
      BY <1>1, <1>3 DEF WriteSlot, Goto, IInv, SwitchTakesEffect
    <2>2. app[dest] \in Images \ {"partial"}
      BY <1>2 DEF IInv, TypeOK
    <2>3. F!Switch
      BY <1>1, <1>2, <2>1, <2>2 DEF F!Switch, F!Other
    <2> QED
      BY <2>3 DEF F!Next
  <1>4. CASE ChooseSlot \/ EraseSlot \/ SwitchFails
    <2>1. pc' \in {"eraseSlot", "writeSlot", "idle"}
      BY <1>4 DEF ChooseSlot, EraseSlot, SwitchFails, Goto
    <2>2. Selected(slots') = running'
      BY <2>1 DEF IInv, Running
    <2> QED
      BY <1>1, <1>2, <2>2 DEF F!vars
  <1> QED
    BY <1>3, <1>4 DEF SwitchTo

LEMMA PowerChooses ==
  ASSUME IInv, IInv', Power, UNCHANGED rollsBack
  PROVE  [F!Next]_(F!vars)
  <1>0. UNCHANGED app
    BY DEF Power, PowerLoss, Boot, GiveUpOn, Start, Crash
  <1>1. CASE PowerLoss \/ Crash
    BY <1>0, <1>1 DEF PowerLoss, Crash, F!vars
  <1>2. CASE Boot
    <2>1. running' = Selected(slots) /\ pc' = "starting" /\ lastRun' = lastRun
      BY <1>2 DEF Boot, Goto
    <2>2. Selected(slots') = Selected(slots)
      BY <2>1 DEF IInv, Running
    <2> QED
      BY <1>0, <2>1, <2>2 DEF F!vars
  <1>3. CASE Start
    <2>1. /\ pc = "starting" /\ pc' = "idle" /\ app[running] = "good"
          /\ lastRun' = running /\ running' = running
      BY <1>3 DEF Start, Goto
    <2>2. running = Selected(slots) /\ Selected(slots') = running'
      BY <2>1 DEF IInv, Running
    <2>3. F!Run
      BY <1>0, <2>1, <2>2 DEF F!Run
    <2> QED
      BY <2>3 DEF F!Next
  <1>4. CASE GiveUpOn
    <2>1. rollsBack /\ lastRun' = lastRun
      BY <1>4 DEF GiveUpOn, IInv, OnTrial
    <2>2. Selected(slots') = lastRun
      BY <1>4, GivenUp
    <2>3. F!GiveUp
      BY <1>0, <2>1, <2>2 DEF F!GiveUp
    <2> QED
      BY <2>3 DEF F!Next
  <1> QED
    BY <1>1, <1>2, <1>3, <1>4 DEF Power

\* Through every failure, power loss and boot the device is one with two images:
\* the choice passes in one step, to a whole image, and what ran last is not
\* touched until another has run.
THEOREM ChoiceKept == Spec => ChoiceIsAtomic
  <1>1. ASSUME Init PROVE F!Init
    <2>1. Selected(slots) = 0
      <3>1. slots[1] = Blank /\ (slots[0] = Blank \/ slots[0] = [seq |-> 1, state |-> "new"])
        BY <1>1 DEF Init, Slots
      <3> QED
        BY <3>1 DEF Selected, Booted, Highest, Usable, Slots, Blank, NoSlot, PartitionOf
    <2>2. app \in [F!Places -> Images] /\ app[0] = "good"
      BY <1>1 DEF Init, F!Places, Partitions, Images
    <2> QED
      BY <1>1, <2>1, <2>2 DEF Init, F!Init
  <1>2. ASSUME IInv, IInv', [Next]_vars PROVE [F!Next]_(F!vars)
    <2>1. CASE UNCHANGED vars
      BY <2>1 DEF vars, F!vars
    <2>2. CASE Next
      BY <1>2, <2>2, InstallChooses, SwitchChooses, PowerChooses DEF Next
    <2> QED
      BY <1>2, <2>1, <2>2
  <1> QED
    BY <1>1, <1>2, SpecIInv, PTL DEF Spec, ChoiceIsAtomic, F!Spec
=============================================================================
