# RetroInk: specifications, model checks and proofs

RetroInk is firmware for an ESP32 e-paper reader. The bulk of it is layout and
file formats; what it promises its user rests on a few small stateful parts
that run across card failures, power loss, two tasks and a lossy radio. These
TLA+ modules model those parts from their C++ source. TLC checks them on small
instances; TLAPS proves every safety property of these runs for every value of the constants,
among them that the chapter's cache, the queue of clippings, the file transfer and the
installation of firmware implement abstract specifications of what they promise.

Paths below are relative to the repository. Line-by-line correspondence is in
`PROJECT.json` under `map`.

## 1. The system

| component | source | state it keeps | operations | status |
|---|---|---|---|---|
| Journaled book moves | `src/util/BookMoveUtils.cpp` | `move.journal` on the card; the file, and everything keyed by its path | `moveWithState`, `restorePriorState`, `recoverPendingMove`, `migrateExistingPath`, `migrateMovedEpubState` | `BookMove` (folder moves not yet) |
| Bookmarks, clippings, recents | `src/BookmarkStore.cpp`, `ClippingStore.cpp`, `RecentBooksStore.cpp`, `CrossPointState.cpp` | one bookmark and one clipping file per path, two JSON lists mirrored in RAM | add, `migrateForFilePath`, `updatePath`, `removeByPath`, save | in `BookMove`, as far as a move touches them |
| Screens and render task | `src/activities/ActivityManager.cpp`, `Activity.cpp` | current activity, stack, pending action, result handlers, `RenderLock`, task notifications | `loop`, push, pop, replace, `startActivityForResult`, `finish`, `requestUpdate`, `requestUpdateAndWait`, `renderTaskLoop`, `goToSleep` | `ActivityManager` |
| Obsidian queue | `lib/ObsidianSync` | `obsidian-pending.jsonl`, its `.tmp`, `obsidian-failed.jsonl`, a failure count per line | `append`, `readAll`, `replaceAll`, `appendFailed`, `syncPending` | `ObsidianQueue` |
| Nearby file transfer | `src/activities/network/NearbyBookTransferActivity.cpp` | per device: state, session, peer, chunk counter, retry counter; on the card: target, `.crossink-part`, `.crossink-backup` | discover, advertise, offer, accept, reject, data, ack, complete, result, cancel, timers | `NearbyTransfer` |
| OTA boot switch, flashing | `src/network/OtaBootSwitch.cpp`, `FirmwareFlasher.cpp`, `SdFirmwareUpdateActivity.cpp` | two otadata slots, two app partitions | pick, confirm, `flashFromSdPath`, `switchTo` | `OtaBoot` |
| Dictionary lookup | `src/util/DictionaryLookupWorker.cpp`, `DictionaryLookupController.cpp`, `LookupChain.h`, `LookupHistory.cpp`; the word selection and definition screens | one static task, its owner, `lookupDone`, cancel flag; the history of the book; the way back | start, exit, input, worker loop; forward, back, switch of the dictionary | `DictLookup` |
| EPUB section cache | `lib/Epub/Epub/Section.cpp` | per chapter a cache file and the backup of its replacement; the build in progress | load, build in steps or whole, suspend, finish, abandon, clear | `EpubSection`, `SectionStore` |
| EPUB reader | `src/activities/reader/EpubReaderActivity.cpp` | the section, the page to go to, flags for cancel and low memory | `render`, `pageTurn`, jumps, menu, background build in `loop` | one chapter, in `EpubSection` |
| OTA updater, HTTP | `src/network/OtaUpdater.cpp`, `HttpDownloader.cpp` | the partition being written, progress | check, `installUpdate` | `installUpdate` in `OtaBoot` |
| Nearby stats and position sync | `NearbyStatsSyncActivity.cpp`, `NearbyBookPositionSyncActivity.cpp` | session state | send, receive | not modelled |
| Reading statistics | `GlobalReadingStats.cpp`, `BookReadingStats.cpp`, `StatsBackup.cpp` in `src/activities/reader` | counters on the card | accumulate, back up | not modelled |
| Library, KOReader sync, web server, USB, focus session, boot, input, themes, HAL, JSON | see `PROJECT.json` | | | not modelled |

**How they interact.** The main task calls `ActivityManager::loop`, which calls
the current activity; activities call the manager, the stores and the network.
The render task shares `currentActivity`, `RenderLock`, the notification count
and `requestedUpdate` with it. A book move runs inside one activity callback,
but its other half may run at the next boot, in `main.cpp`, after the stores
are loaded: the two halves meet only through the card. The reader appends to
the Obsidian queue and a sync screen drains it, in the same task, so the queue
interleaves with failures and power loss, not with threads. A nearby transfer
is two devices that share packets only. A dictionary lookup is one static worker task
that writes into the controller of whichever screen asked; screen and worker meet in
`owner_`, `lookupDone` and the cancel flag. The reader's section is extended by the render
task under the `RenderLock` and by the main task's `loop()`, and its page is turned by the
main task without any lock; what a chapter leaves on the card is all the next visit finds. An installation of firmware meets the
bootloader through the otadata slots, and its own next run through the flash.

**What is hard.** Five kinds of behaviour escape the unit tests of the
repository, and the hazards in `PROJECT.json` are all of these kinds:

1. power loss or a failed card operation between any two writes of a sequence
   (moves, queue rewrite, installing a received file, firmware, otadata);
2. a retry of what was done in part (the journal at boot, a sync after a failed
   sync, `Complete` after a lost result);
3. two tasks with a lock, atomics or counting notifications between them (render task,
   dictionary worker, page turns during a draw);
4. callbacks that call back into the manager that is calling them;
5. packets lost, late and repeated between peers that exit at will.

**What makes each part correct.** A move takes the whole record of a book along
or leaves a journal that will; no note is lost but those a failure hits themselves; no book gets
another's record.
The render task never draws a destroyed activity, no update request is lost,
the display ends up showing the current activity, a waiter is always released,
a result reaches the screen that asked for it. A queued clipping is delivered,
recorded as given up, or still queued, or damaged by a failure itself; in order; never blocked
for ever. A
received file is whole or absent, a file that existed is never gone in between,
"sent" means stored, and a sender whose peer is gone before the last chunk gives up. The device
always boots a whole image, an update that reports success takes effect, and the
firmware that last worked can still be booted. A dictionary lookup always ends, its worker
never writes into a screen that is gone or one that is reading, and Back leads to the word
it was pressed away from. Every page a chapter offers can be read, its cache on the card is
only replaced as a whole by one that covers at least as much, and every draw ends.

## 2. The modules

| module | models | checked by | proved |
|---|---|---|---|
| `BookMove` | moves, restores, retries, the stores they touch | `MCBookMove`, 3 runs | `BookMoveProofs` |
| `ActivityManager` | main task, render task, any activity | `MCActivityManager`, 3 runs | `ActivityManagerProofs` |
| `ObsidianQueue` | queue file and drain | `MCObsidianQueue`, 1 run | `ObsidianQueueProofs` |
| `NearbyTransfer` | sender, receiver, radio, card of the receiver | `MCNearbyTransfer`, 1 run | `NearbyTransferProofs` |
| `Outbox` | what the queue promises; refined by `ObsidianQueue` | `ObsidianQueue` | |
| `Delivery` | what a transfer promises; refined by `NearbyTransfer` | `NearbyTransfer` | |
| `OtaBoot` | installation of firmware, otadata, bootloader | `MCOtaBoot`, 1 run | `OtaBootProofs` |
| `Firmware` | what an installation promises; refined by `OtaBoot` | `OtaBoot` | |
| `EpubSection` | one chapter: its cache, its build, the reader that draws it | `MCEpubSection`, 1 run | `EpubSectionProofs` |
| `SectionStore` | what that cache promises; refined by `EpubSection` | `EpubSection` | |
| `DictLookup` | worker, controllers, history and way back | `MCDictLookup`, 2 runs | `DictLookupProofs` |

The MC modules only declare model values and symmetry sets. No cfg replaces a
definition of a specification; `Owner <- MCOwner` gives a CONSTANT its value.
Each module ends in its properties and, apart from those, the claims of docs and
comments that the code does not keep. A few definitions stand before the action
they resemble and are used by no specification (`MigrateMarksCareless`,
`PopKeepsHandler`, `GiveUpSilently`, ...): each is a plausible bug of that action,
with which the property named in `PROJECT.json` under `mutants` fails.

### BookMove

State: per path, the file, whose cache, which bookmarks and clippings are
stored there (`file`, `cache`, `marks`, `clips`, with `marksTorn` and `clipsBak`
for a truncated bookmark file and a clipping `.bak`), the two lists on card
and in RAM, the journal, and `pc`, the next card operation of the running call.
One action is one operation on the card, so `PowerLoss` can fall between any
two, and `PowerLossInWrite` in the middle of the writes that are not atomic.
`Fault(d)` is every failing operation; `d` is what it damages that nothing in the
code repairs later, recorded in `harm`: single notes, books or paths, never the whole card, so that
after a fault the properties go on speaking of everything else. An EPUB and another book differ as in
the code: `migrateMovedEpubState` notes a failed part and goes on,
`migrateExistingPath` returns at once (`StepFailed`). A rename of a clipping file that fails is
undone by a rename that can fail too (`ClipsUndo`): of `writeToFile` nobody looks at its result, and
`migrateForFilePath` only logs it.

`Return(b)` is the return of `recoverPendingMove` to its callers: boot,
`moveWithState` and `restorePriorState`, each of the two before and after it writes
its own journal.

What the properties excuse is what is in `harm`:

| in `harm` | what happened | consequence |
|---|---|---|
| the notes of a clipping file (`InBak`) | power was lost while the file was only in its `.bak`, or the rename into its place failed and so did the one that undoes it | the retry takes the book for one without clippings; they remain in a `.bak` nothing reads |
| the notes of both bookmark files | a full card cut the file short, reported as written, and the source was deleted | these bookmarks are lost, and nobody is told |
| an EPUB and the path it was to have | its cache could not be renamed | notes and lists move, then the file goes back; finding below |
| the stale path | the JSON save of a list that still names it failed, and is only logged | the next boot loads that path |

A note made while a journal is pending (`late`) and a book moved on a computer
(`external`) are outside `NoNoteLost`: there the record under the new path is a
second record, and which of the two wins is a decision of the user. `clash` says that
a computer moved a book while a journal was pending. The code takes the paths in the
journal for those of the book it was written for, and another book that a computer has put
on one of them may then get the record, which `NoForeignRecord` excuses.

### ActivityManager

State: the navigation variables of the manager under their own names, `pc` and
`rpc` for the two tasks, `lock` for `renderingMutex`, `notified` and `woken` for
the two notification counts (a count that is taken with "clear on exit" is a
Boolean), `drawing` for the pointer the render task has read, `frame` for what is
on the display. The history variables are `startedBy` (who asked for whose
result) and `owed` (no draw has begun since the last request).

Activities are arbitrary: a callback makes up to `MaxCalls` calls of the API in any
order, may hold the `RenderLock` in between, and at most one of its calls asks
for another screen. What the reader does from the render task
(`requestUpdate`, raising an alert) is `RenderCalls`. An activity object can be
allocated again once it is freed and no longer on the display. `SleepScreen` has
an empty `render()` and draws in `onEnter`.

### ObsidianQueue and Outbox

State: the lines of the queue file, whether the last has its newline (`open`), the
temporary file, the failed file, and the local variables of the running sync.
`AppendTorn` is a write that stops before its newline: the next append then glues
two lines together, of which the parser (external) reads the first or nothing. `readAll` is the relation
between a file and the positions of the lines that parse. `lost` names the clippings hit by damage the code does not
repair: glued to such a line, in a temporary file that was not renamed, or
refused by the failed file. Of these three `NothingVanishes` says that they are the only ones, and
that no other clipping goes with them. An attempt to deliver ends in one of three ways: accepted,
not accepted, accepted with the answer lost. `AnswerLost` is an attempt that goes on to the fallback
address (`withFallback`) after the first address has taken the clipping and its answer was lost; a POST
answered by 404 changes nothing and is one request with the PUT that follows it.

`Outbox` is the queue as who saves a clipping may think of it: no files, no syncs, only the
clippings taken, in order, and those that wait. One leaves when nothing taken before it waits, because it was
delivered or because it failed `Attempts` times; the only others that go are `damaged` by a
failure. `Box` maps the model to it: `Waiting` is what some file still holds that is neither
delivered nor settled, so that the rewrite of the queue, the next boot and a sync that
starts over are stutters, and a repeated delivery is one that needs a failure.

### NearbyTransfer and Delivery

State: `snd` and `rcv`, one record per device with the fields of the activity; two
FIFO queues of packets of bounded length (a full one drops, like the receive
queue of the code; `LosePacket` takes any head away); three files per name on
the receiver's card. A chunk carries its session and number, so that a file mixed
from two sessions is told apart from a whole one; the size and CRC checks
of `finishReceivedFile` are what makes "all chunks of this session" decidable to
the code. `finishReceivedFile` is broken into its renames (`rcv.step`), between which
only power loss and the other device act. A reader's loop handles no packet there. The rename that
gives the old file its name back may be refused like the one before it (`InstallFails`): the old
file then stays in the backup. A file has at least one chunk: the empty file, for which `handleAccept`
sends `Complete` at once (299-301), is left out, and a name without a file is `NoFile`.

`Delivery` is what a transfer promises: a file is stored under a name at once, as a whole and
once, a name keeps what it has until then, and "sent" and "received" are said only of a
stored file. In its eyes a name has the file under it or, between the two renames,
the backup (`Shelf`), so that of the whole transfer only the rename that moves the new file in
is a step, `Deliver`.

### OtaBoot and Firmware

State: the two otadata `slots` (sequence number and state; an entry whose CRC is
wrong, or that was never written, is `Blank`), the image in each app partition
(`partial` is what is left of an interrupted write, `bad` is an image that passes
every check and does not run), the picked file, the locals `target` and
`newSeq` of `switchTo`, and `pc`. `ChooseSlot`, `EraseSlot` and `WriteSlot` are the
three parts of `switchTo` between which power can go. A download ends in
`esp_ota_set_boot_partition` instead: it is modelled, as the header of
`OtaBootSwitch` describes it, as a check of the image followed by the same write.
(That header says that the OTA path bypasses this check too; `OtaUpdater.cpp:485-491`
does not, and the model follows the code.) `validateImageFile` and the digest of a
download are modelled as what they decide: whether the image is whole.

The bootloader is external: `Selected` is its documented choice, and `rollsBack` says
whether it gives a new image one try (`Boot` marks the entry, `GiveUpOn` abandons it
at the next boot, `Start` confirms it). The properties hold for both. Assumed: the card is
not changed during the call of `flashFromSdPath`, which checks the file and reads it again;
`ChangeCard` is possible up to that call.

`Firmware` is the device as its owner knows it: two images, one of them chosen, one that ran last.
Only the other one is written, and only while the chosen one is the one that ran last; the choice passes
in one step and to a whole image; a bootloader that gives one try may go back. The choice is
`Selected(slots)`, so that of `switchTo` only the write of the slot is a step (`ChoiceIsAtomic`),
and a slot that is erased or a number that is bumped changes nothing.

### EpubSection and SectionStore

State: `card` (the cache file and the `.bak` that `promoteSectionCache` puts aside), `sec`
(the reader's `Section`: its layout, `partialPageCount_`, `pageCount`, `builtPageCount_`, the
current page), the settings, the page to go to, `pc` (who holds the `RenderLock`, and where
`render()` is) and the reader's flags under names of their own. The operations of the section
are operators from a card and a section to the set of their outcomes (`Starts`, `Advances`,
`Suspends`, `Commits`, ...); an outcome counts the card operations that failed, which
`MaxFaults` bounds. Actions of the render task are the steps of `render()`, between which the
main task turns pages and presses Back; those of the main task take the lock or, as in the
code, do not. `Crash` is power loss, also within a commit (`Halfway`). The drawing is its end:
the page shown with its layout, or a message.

`SectionStore` is what a chapter's cache promises whoever builds it: a whole file under one
layout, replaced by one that covers at least as many pages, discarded only by a device that
stays on. Its variable `stored` is the file a reader would find, `spare` one left beside it,
`blind` says that the card did not show the file to whoever builds.

Abstracted: one chapter (those before and behind are "away"); one render mode, so neither the
fallbacks of images nor safe mode; `pending` stands for `backgroundBuildYieldForInput` too;
`requestedPageBeforeCatchUp` is taken for the current page; `createSectionFile` is one step,
except for a crash within its commit; `remove` is assumed to work. `.part` and `.tmp`
files are never read again and not kept.

A place that was saved by its text, and the place read before a relayout, are to be found in the
new layout: `moves` is `pendingRelayoutReposition` (`EpubReaderActivity.cpp:2049, 5731`). While it is
set the first build goes on until the place is found (`Reached`, `FallsShort`: 4870, 5536-5549), a
readable partial is not enough when a build fails (4968, 4988), and the page moves once it is
found (`Repositions`: `applyDeferredReposition`, called at 2448 and 5267). Text positions are left
out, so the place may turn out to be on any page; the page found by proportion after a progress without
a text position (5608-5618) is one of those.

`render()` tests `currentPage` (5286) and uses it (5300) in two steps, `ShowChecks` and
`ShowPage` or `ShowFails`: a page turned in between, to where there is none, is taken for one that
cannot be read, and the cache is cleared.

### DictLookup

State: `live`, `child` and `main` (which screens exist, what covers them, whether the main task
waits in `waitForOwner`), one controller record per screen with its state and its atomics, `owner`,
`notified` and `wpc` for the worker task, the history file, the `LookupChain` with
`currentHistIndex_`, and the two flags of the definition, `backing` (`chainBackNavInProgress`) and
`switching` (`dictionarySwitchLookupInProgress`). A chain entry carries, as history, the word
that was left, which is what the properties compare with. Two controllers are all there are at a
time: "select" for the word selection (or the list of looked up words) and "define" above it.

`drift` names the ways in which history and chain come apart:

| `drift` | what happened |
|---|---|
| `refused` | the card refused the word, and nobody looks at the result of `addWord` |
| `switched` | a suggestion taken after a switch of the dictionary is recorded without a push |
| `astray` | the lookup of the word to go back to came to nothing: the chain has gone back, the screen has not, and `chainBackNavInProgress` stays set (`DictionaryDefinitionActivity.cpp:1161-1166`), so that the next hit is taken for a way back and is not recorded |
| `missed` | a word looked up from a definition is not found, and is recorded; finding below |

What the dictionary answers is open, and a definition is named by the word it was looked up
under. The creation of the task from static buffers is assumed to work; its notification is
one step with the claim of `owner_`, as nobody can tell them apart. The model forgets what a
controller never reads again before `startLookup` resets it.

## 3. The runs

| run | states | checks |
|---|---|---|
| `book_move` | 5.19 M | `TypeOK`, `NothingLeftBehind`, `NoNoteLost`, `NoForeignRecord`, `ListsFollow`, `SuccessMeansMigrated` |
| `book_move_retry` | 275 k | `JournalWorkedOff` (under fairness) |
| `book_move_rollback` | finding | `FailedMigrationLeavesJournal` |
| `activity_manager` | 71 k | `TypeOK`, `DrawsTheCurrent`, `ScreenFollows`, `ResultsRouted` |
| `activity_manager_live` | 143 k | `WaiterReleased`, `UpdateDrawn` |
| `activity_manager_sleep` | finding | `SleepScreenShown` |
| `obsidian_queue` | 219 k | `TypeOK`, `NothingVanishes`, `NoDuplicate`, `OutboxRefined`, `QueueDrains` |
| `nearby_transfer` | 306 k | `TypeOK`, `NoPartialFile`, `StopAndWait`, `SuccessMeansStored`, `DeliveredWhole`, `SenderGivesUp` |
| `ota_boot` | 21 k | `TypeOK`, `SwitchTakesEffect`, `FallbackKept`, `ChoiceIsAtomic` |
| `epub_section` | 1.03 M | `TypeOK`, `PagesReadable`, `NoDeadMessage`, `RightLayout`, `WorkIsKept`, `StoreRefined`, `DrawEnds` |
| `dict_lookup` | 289 k | `TypeOK`, `OwnerAlive`, `WorkerAlone`, `BackLeadsToTheWord`, `LookupEnds` |
| `dict_lookup_back` | finding | `EachPressReturns` |

**Bounds.**

- *Book moves.* Three paths let a move meet a record at its destination, a chain
  of two moves, and a restore from a third path. One EPUB and one other book take the two
  migrations. One note, a bookmark or a clipping of the EPUB, is enough to be lost or to lie
  where it should not; the other book brings its cache and its places in the lists. Two faults
  reach a failure in the retry of a failure and a rename that fails with the one that undoes it, and two moves on a computer take a book away and put
  another on its path. The run on retries has two paths and one book and allows a move made
  on a computer. The proofs do not depend on these bounds.
- *Screens.* Four activity objects and a stack of two: a screen, a screen started
  for its result, an alert or panel above it and one being launched. Two calls per
  callback reach a request for a draw followed by one for a screen, and both forms of
  request; longer callbacks repeat them. The proofs do not depend on these bounds.
- *Obsidian queue.* Three clippings tell head, middle and end of the queue
  apart; a cap of two lines makes the third append meet the cap; two attempts
  separate the counted failure from the final one; two faults reach a failed rewrite
  after a delivery whose answer was lost. The proofs do not depend on these bounds. `CHECK_DEADLOCK FALSE`: once all clippings are made and
  sent nothing is left to do.
- *Nearby transfer.* Two names give the collision prompt and "Keep both"; two
  chunks distinguish the last from the others; two sessions let packets and hidden files
  of an earlier transfer meet the next; three packets on their way make a duplicate
  overtaken by an answer possible; two faults reach a failure in a session after one
  that was cut off. Retry limits are 2 and 1, above zero, so that counting
  and reaching the limit differ.
- *Installing firmware.* Sequence numbers up to 8 let at least four installations follow
  each other, so that both slots have held both partitions; three faults reach a power loss
  in the switch after an image that was given up on. The real number has 32 bits
  and grows by at most two with each installation, so it is not taken to wrap. The proofs
  do not depend on either bound.

- *Chapter.* Two pages tell a partial cache from a whole one and a page that is there from one
  that is not; two layouts make a cache stale; margins of one (15 and 5 in the code) put
  the background build at its start, within and at its end; one retry (3 in the code) of a
  page that cannot be read; two failures reach a rename that fails together with the one that
  should undo it, and one that fails in the recovery of another; the reader turns at most to the page
  behind the last one (`LastTurn`). The proofs do not depend on
  these bounds.
- *Dictionary.* Two words tell a definition from the one before; a visible history of two
  (50 in the code) and a history of three make entries age, meet the bound and drop off.
  The proofs do not depend on these bounds.

**Fairness.**

| module | assumed | because |
|---|---|---|
| `BookMove` | WF of `Progress` | a running call is carried on unless power goes |
| | WF of `Sleep` | an idle device falls asleep by its timeout, and a wake is a boot, which retries |
| `ActivityManager` | WF of each task | FreeRTOS schedules both; callbacks return |
| | SF of `BeginDraw` | every round of the main loop ends in a delay that does not hold the `RenderLock`, so a render task waiting for it is let through |
| | SF of `Settle` | an `onEnter` or result handler does not answer every screen with another one, for ever |
| `ObsidianQueue` | WF of `Sync` | the user goes on syncing, and an HTTP request ends (it has a timeout) |
| `NearbyTransfer` | WF of `OfferAgain` and `SendAgain` | the sender's loop looks at its timers every round; packets, users and the other device owe nothing |
| `EpubSection` | WF of `RenderStep` | the render task runs from the beginning of `render()` to its end with the lock held; no other task can stop it. `loop()` and the reader owe nothing |
| `DictLookup` | WF of `Worker`, `Poll`, `Closed` | both tasks run: `loop()` polls the lookup every round, the wait in `waitForOwner` yields the processor, and a search of the dictionary ends |

**What the passing runs show.** The journal does its work at every point where power
can go, for everything that is not itself in `harm`; a retried migration is idempotent, and refuses
only when two records or a torn file stand in its way (`Stuck`). The screens keep
their results and updates apart whatever an activity asks for and in whatever order.
A clipping survives every failure that is not named in `lost`. A received file is never partial and
never takes the old one away. An installation can be cut off anywhere without the
bootloader selecting a partial image or losing the firmware that worked. Both tasks may extend,
turn and leave a chapter at any point, and it offers no page it cannot read (except where a card
that fails twice has left the cache under the name of its backup), keeps what it has laid out, and
never stays on "out of bounds". The worker of the dictionary is handed from screen to screen without
a gap in which it writes into one that is gone, or a lookup waits for nobody.

**Findings.** Three runs end in a counterexample to what the repository says of itself.

1. `book_move_rollback`: the cache of an EPUB cannot be renamed, the other parts are
   migrated all the same, and the rollback of the file removes the journal. Bookmarks
   and clippings stay under the new path, and no retry is left
   (`BookMoveUtils.cpp:367-371` against `BookMoveUtils.h:8-9`).
2. `activity_manager_sleep`: `goToSleep` runs the old activity once more, whose own request
   for a screen drops the sleep screen (`ActivityManager.cpp:407`).
3. `dict_lookup_back`: a word looked up from a definition is not found and is recorded all the
   same, while the chain counts its entries from the newest; Back then looks up a wrong word
   (`DictionaryLookupController.cpp:394` against `docs/dictionary.md:112`).

Other disagreements met while modelling, which the models reproduce and the passing runs excuse
or leave out:

- Power lost between the two renames of `ClippingStore::writeToFile`, or a second rename that fails
  together with the one that should undo it, leaves a book without clippings for the retry of a move
  (`ClippingStore.cpp:445-454, 505-507` against `CHANGELOG.md:36`, "An interrupted move resumes its
  state migration"). In `BookMove`: `InBak`.
- Between remove and rename of `replaceAll` there is neither the old queue file nor the new one
  (`ObsidianPendingQueue.cpp:116-117` against `ObsidianPendingQueue.h:66-67`, "either the old file
  or the new one"). In `ObsidianQueue`: `PowerLoss` when `pc` is "rename".
- `sendComplete` clears the retry count that `updateTimers` has just raised; a sender whose receiver
  is gone after the last chunk sends `Complete` for ever (`NearbyBookTransferActivity.cpp:498,
  637-644` against `docs/nearby-file-transfer.md:71`). `SenderGivesUp` asks for less.
- "Otherwise page 0 will be used" (`EpubReaderActivity.cpp:3166`) is not so after paging back into
  a chapter that could not be opened: `pendingPageJump` (4601) is only cleared at 5019 and 5105, and
  the chapter chosen next opens at its last page. In `EpubSection`: `Jump` leaves `lastPage`.
- "a user who never syncs starts losing the oldest ones" (`ObsidianPendingQueue.h:33-35`): at its cap
  `append` drops the clipping that is being made, the newest (`ObsidianPendingQueue.cpp:57-62`).
- `nextIsSuggestion` stays set when suggestions are cancelled (`DictionaryLookupController.cpp:380-384`)
  or the worker is busy, and marks the next lookup as a suggestion. Not in the model: it changes
  only what a record is called.

## 4. The proofs

`ActivityManagerProofs` proves, for every set of activities and every `MaxCalls`
and `MaxDepth`, from `ConstantsAssumption` alone:

| theorem | states |
|---|---|
| `TypeCorrect` | `TypeOK` |
| `PendingComplete` | `PendingIsComplete`: the inner loop of `loop()` always finds something to do |
| `RenderSafe` | `DrawsTheCurrent`: what the render task draws is not swapped or freed under it |
| `UpdatesKept` | `NoLostUpdate`: no update request is lost between the two tasks |
| `DisplayFollows` | `ScreenFollows`: with nothing left to do, the display shows the current activity |
| `ResultsReachTheirScreen` | `ResultsRouted`: a result reaches the screen that asked for it, and no handler gets another's |

None of these is inductive alone. The invariant is

    IInv == TypeOK /\ PendingIsComplete /\ HasCurrent /\ LockHeld /\ Drawn
            /\ NoLostUpdate /\ SleepIsLast /\ Followed

- `HasCurrent`: there is no current activity exactly while `goHome` is about to
  launch one. `PendingIsComplete` needs it, since pop is what takes the activity away.
- `LockHeld`: the main task holds the `RenderLock` only inside a callback, and the
  render task from `BeginDraw` to `Unlock`. This is why a launch or pop, which need a free lock,
  cannot fall into a draw.
- `Drawn`: what is being drawn is the current activity. It is `DrawsTheCurrent` with the
  fact that it is an activity, and follows step by step from `LockHeld`.
- `SleepIsLast`: the sleep screen is only pending or current once the device is going to
  sleep; it is never covered, draws itself when it is entered, and nothing is asked for
  after that. It is the one activity whose `render()` draws nothing, so `Followed` would
  break without it.
- `Followed`: whenever the display does not show the current activity, something is on its
  way to draw it: the main task has not entered it yet, or a draw is owed or
  under way. It is what makes `ScreenFollows` inductive.

Each part of `IInv` has a lemma with one step per action of `Next` (`ScreensStep`,
`StepsStep`, `FlagsStep`, `PendingStep`, `LockStep`, `UpdateStep`, `SleepStep`,
`FollowedStep`); `IInvStep` combines them and `Invariance` lifts the result to
`Spec => []IInv`. TLC was run on `IInv` as an invariant before it was proved.

`ResultsRouted` rests on an invariant of its own, `ResultInv`, which tells the activities of
the stack, the current and the pending one apart: each of them is there once (`OneEach`), a
handler waits exactly where the screen above was started for a result (`Routed`, `Asked`), an
activity that is gone has asked for nothing (`Forgotten`), and home has nobody below it
(`HomeAlone`). `ResultStep` has one step per action; what a push, a pop and a launch do to
the stack are the lemmas `PushResults`, `PopResults` and `LaunchResults`.

`BookMoveProofs` proves, for any paths, books and notes, any number of failures and power losses
and any number of moves on a computer, from `ConstantsAssumption`:

| theorem | states |
|---|---|
| `TypeCorrect` | `TypeOK` |
| `RecordsFollow` | `NothingLeftBehind`: no part of a record stays where its file was, unless a journal takes it along |
| `RecordsStayApart` | `NoForeignRecord`: no book gets the record of another one |
| `NotesSurvive` | `NoNoteLost`: every note that is not in `harm` itself is on the card and with its book |
| `ListsKeepUp` | `ListsFollow`: no list names a path a move has emptied, unless its save failed |
| `SuccessIsTrue` | `SuccessMeansMigrated`: a step that reports success leaves nothing at the old path and has every note under the new one |

The properties speak of the card as it is between two calls. What makes them true is what holds
in the middle of a migration, so the invariant follows the program counter:

    IInv == TypeOK /\ CallOK /\ FilesOK /\ OnePlace /\ MigratingOK /\ MovedOut /\ Settled /\ Fresh
            /\ Behind /\ Foreign /\ Recorded /\ Notebook /\ Lists

- `CallOK` and `FilesOK` say at each label how the arguments of the call, the journal and the files
  agree. `MigratingOK`: a migration only runs for a journal whose book is at its new path; where
  a restore still finds a file at the old one, it is a book that a computer has moved.
- `MovedOut`: the steps that are past have emptied their part at the old path, as long as `ok`
  says that none has failed. `SuccessIsTrue` follows from it at the last step (`Succeeds`).
  `Settled`: a journal that is still on the card when a new call writes its own has nothing
  more to take along, so that overwriting it loses nothing.
- `Fresh`: until its first part is moved, the destination of a move has no record. It is
  checked before `recoverPendingMove` runs, and a retry might have filled it since: the proof
  shows that it has not.
- `Behind` and `Foreign` are the two properties with every record counted that a
  later step can bring back: a clipping file that is being replaced is a record too (`Bears`).
- `OnePlace`: no book is at two paths, so that "with its book" names one place, but for the two
  a journal connects.
- `Notebook`: every note is with its book (`NotesHome`). A retry deletes what it finds at the
  new path, so it matters that nothing is there that is not at the old path too (`Apart`), and
  that what has been copied or set aside between two steps is known (`Halfway`). Notes lie beside
  a cache (`Beside`): this is why a move onto their path is refused or the retry stops. Once the cache
  has moved, `Apart` follows from `Behind`: notes of this book that lie under the new path
  are no other book's (`SafeAtHome`, `ApartAhead`).
- `Lists`: the lists in RAM are those on the card but for the paths whose save has failed, and name
  no path that was emptied.

The module has a lemma for each part of the invariant (`CardStep`, `CallStep`, ... `FreshStep`,
`ListsStep`, `NotebookStep`). What an action does to the records reduces to three kinds:
nothing (`Still`), taking them from the journal's one path to the other (`Carry`), removing some
(`Freed`). `Kinds` says which action is of which kind, and `BehindStep`, `ForeignStep` and
`RecordedStep` go through the kinds. TLC was run on every part of the invariant before it was
proved. Running it with two moves on a computer is what showed that `NoForeignRecord` needs
`clash`.

`OtaBootProofs` proves, for every `MaxSeq` and `MaxFaults`, from `ConstantsAssumption`:

| theorem | states |
|---|---|
| `TypeCorrect` | `TypeOK` |
| `NeverPartial` | `NeverBootsPartial`: what the bootloader would boot is a whole image |
| `SwitchWorks` | `SwitchTakesEffect`: after a switch the new partition is selected |
| `FallbackAlwaysKept` | `FallbackKept`: the firmware that ran last can still be booted |
| `ChoiceKept` | `ChoiceIsAtomic`: `OtaBoot` implements `Firmware` |

The argument rests on two facts about the slots alone: a usable entry with the
highest number is the choice (`HighestChosen`), and erasing the slot that is not active
leaves the choice alone (`EraseInactive`). Its invariant adds to the properties that

- while firmware runs, the bootloader would boot it again (`Running`), the installation
  goes to the other partition (`DestOK`), and only a whole image reaches `switchTo` (`ImageOK`);
- `switchTo` has chosen the slot that is not active and a number above it, and neither becomes
  stale before it writes (`TargetOK`);
- a usable entry names the partition that ran last (`Named`);
- an entry on trial is the one the bootloader chooses, and without it the choice would be the
  partition that ran last (`OnTrial`). This is what makes giving up safe, and why an
  image that runs must confirm itself before the next installation.

Each action that writes otadata has a lemma (`EraseSteps`, `WriteStep`, `BootStep`,
`GiveUpStep`, `StartStep`); `QuietSteps` and `ImageSteps` take the rest. `NeverBootsPartial` is part
of `Firmware`'s promise, which the run checks instead; `InstallChooses`, `SwitchChooses` and
`PowerChooses` show the promise kept, with no invariant beyond `IInv`.

`ObsidianQueueProofs` proves, for any clippings, any number of attempts, any cap and any number of
faults, from `ConstantsAssumption`:

| theorem | states |
|---|---|
| `TypeCorrect` | `TypeOK` |
| `NothingIsLost` | `NothingVanishes`: what the queue took is delivered, given up on or queued |
| `DeliveredInOrder` | `InOrder`: nothing overtakes a clipping that was saved before it |
| `DeliveredOnce` | `NoDuplicate`: without a fault no clipping is delivered twice |
| `NotGivenUpEarly` | `GivenUpLate`: who is given up on has failed `MAX_DELIVERY_ATTEMPTS` times |
| `OutboxKept` | `OutboxRefined`: `ObsidianQueue` implements `Outbox` |

Three invariants stand on each other. `QueueInv` (`QueueKept`) says that what the sync has passed
is settled and the rest of the file is still before it (`Progress`), that `replaceAll` hands on exactly
that rest (`Handover`), and that in file and sync alike a clipping has before it all that were saved
earlier, unless they are settled (`Order`). `CountInv` adds that every failure a line
counts has happened; `OnceInv` that, until something fails, each clipping is in the queue once
and not yet delivered. `OutboxKept` uses all three: `InTurn` turns `Order` into the turn of the
clipping being sent, `BoxGiveUp` takes the number of failures from `CountInv`, `BoxPush` the first
delivery from `OnceInv`, and `WaitingMoves` says for each step which clippings cease to wait.
`OutboxRefined` contains what `InOrder` and `GivenUpLate` say, so the run lists only the former;
the two are proved on their own.

`NearbyTransferProofs` proves, for any names, chunks, retries, transfers, capacity of the queues and
number of faults, from `ConstantsAssumption`:

| theorem | states |
|---|---|
| `TypeCorrect` | `TypeOK` |
| `NamesHoldWholeFiles` | `NoPartialFile`: no name or backup ever holds part of a file |
| `ChunksInStep` | `StopAndWait`: the two ends are at most one chunk apart |
| `SuccessIsStored` | `SuccessMeansStored`: success is shown for a stored file |
| `NeverLeftWithout` | `NeverWithout`: a name that had a file keeps one (in the run as part of the next) |
| `TransferDelivers` | `DeliveredWhole`: `NearbyTransfer` implements `Delivery` |

The queues enter the invariant only as the set of packets on their way (`OnWay`), so the argument
does not use their order, and losing a packet can only help. It needs:

- `Sent`: every packet belongs to a session that has been started, and a device that is off has none.
- `Joined`: once a chunk of the sender's file has been acknowledged or the file is stored, an offer
  still on its way comes to a receiver that does not listen. A receiver that leaves drops its queue,
  and this is why it cannot join the same transfer twice and count from 0 against a
  sender that is further on.
- `Before`: until the offer is accepted there is no chunk, result or file of the session.
- `Window`: chunks on their way are not ahead of the sender, acknowledgements not of the receiver.
- `Files`: what each step of `finishReceivedFile` finds in the three files; in particular the
  sender's file is not stored until it is installed, so no other step can remove it.
- `Results`: a result on its way, or shown, is of a stored file.

The many actions reduce to few kinds. `QuietSender`, `SendsChunk` and `QuietReceiver` describe what a
step may do to packets and files; lemmas show that actions are of a kind (`QuietSenders`, `Chunks`,
`FailingSteps`, `QuietReceivers`) and that each kind keeps `IInv`; the steps that move a file, store
a chunk or join a transfer have a lemma each.

`TransferDelivers` needs two facts more. `Once`: a file that is stored, or was and is now a backup,
is not received again, as no receiver is still on its way to storing it and an offer of it meets
only a receiver that does not listen. That is `Joined` for every transfer ever started, the
abandoned ones included. `Vacant`: between the two renames the name is free, so a failed second
rename gives back what it took. `InstallDelivers` maps the one rename, `ShelfStays` and `DevicesSpeak`
all other steps.

`EpubSectionProofs` proves, for any layouts, any length of the chapter, any margins and any
number of failures, from `ConstantsAssumption` and `NoFileIsNone` (a file is not "no file"):

| theorem | states |
|---|---|
| `TypeCorrect` | `TypeOK` |
| `OfferedPagesReadable` | `PagesReadable`: a page the section offers can be read |
| `MessageNotLast` | `NoDeadMessage`: "out of bounds" has another draw behind it |
| `DrawnAsAsked` | `RightLayout`: a page is drawn in the layout of the settings |
| `LeavingKeepsWork` | `WorkIsKept`: who leaves a chapter leaves its pages on the card |
| `StoreKept` | `StoreRefined`: `EpubSection` implements `SectionStore` |

All rest on one invariant, `SectionInv` (theorem `SectionAlwaysFits`):

- `Fit` ties the section to the card. What the section offers from the file is in the file, and
  a partial chapter that grows, unless it could not see the file, knows all that the file
  covers. The second half is why a suspended build may replace a file: it covers more.
- `InLayout`: the section and what it reads have the layout of the settings, unless the menu has
  changed them and its result is still to be handled (`relayout`).
- `NoneYet`: no section exists before `render()` opens one, so opening one cannot lose another.
- `TurnedAway`: at the end of a draw the page is one the section offers, or a turn has asked for
  another draw. `NoDeadMessage` needs it at the step before it speaks.

The proof has three layers. `CommitsCard`, `SwapsCard`, `HalfwayCard` and `RecoversCard` say what
each card operation and each power loss within one leave to be read. For each operation of the
section a lemma (`StartsGood`, `AdvancesGood`, `SuspendsGood`, `FinishesGood`, `AbandonedGood`)
says that every outcome fits its card again and keeps, replaces or drops the file. Each
action has a lemma (`OpenBuildsOK`, `CatchStepOK`, ...) that gives `SectionInv'` and `CardMoves`, the
second being what `StoreStep` turns into a step of `SectionStore`.

`DictLookupProofs` proves, for every set of words, every length of the visible history and of the
history, from `ConstantsAssumption`:

| theorem | states |
|---|---|
| `TypeCorrect` | `TypeOK` |
| `OwnerStaysAlive` | `OwnerAlive`: no screen is deleted while the worker has a pointer into it |
| `WorkerHasItsController` | `WorkerAlone`: until it is done the worker has the controller's fields to itself |
| `BackIsRight` | `BackLeadsToTheWord`: unless the history has drifted, the chain names the words it was left with |

The invariant has two halves. `WorkerInv` is about the two tasks: with the properties, that a cover
lies on an idle screen and that what is looked up is a word (`CoverOK`), and that only a waiting
worker is notified (`NoticeOK`). `TrailInv` is about the way back: it belongs to the definition
(`TrailOwned`); a definition the history does not know has nothing below it, and a lookup that is
not recorded is one back or one in another dictionary (`RecordOK`); and as long as nothing has
drifted the current index names the definition on the screen or, on the way back, the word that is
looked up again (`CurrentOK`). `Aging` is the arithmetic of it: a recorded word makes every other one
entry older. `WorkerStep` and `TrailStep` have one step per action; the second uses the first's
half. TLC was run on `IInv` before it was proved.

Only model-checked: the liveness properties (`JournalWorkedOff`, `WaiterReleased`,
`UpdateDrawn`, `QueueDrains`, `SenderGivesUp`, `DrawEnds`, `LookupEnds`), which are out of
the prover's reach: it has no rules for fairness and `ENABLED`.

## 5. What is not modelled, and why

- Inside the modelled parts: folder moves (`migrateFolder`, `preflightFolder`), the legacy
  bookmark format, editing and deleting notes, naming of files under `/Read`;
  `startRadio` failing and the choice of the receiving folder; the wording of messages.
- Of a chapter: percentages, anchors, footnote previews, clippings, the image fallbacks of a render
  mode, the HTML cache and the saving of progress; of the dictionary: the search itself, layout and
  paging of an entry, and deleting words from the list. Of an update, the check for a release
  and the transfer itself are not modelled; nor is a change of the card while `flashFromSdPath`
  runs.
- Parsers, pagination, layout, fonts, themes and the JSON parser are sequential functions of
  their input with unit tests of their own.
- The web server, WebDAV, USB and KOReader sync are single file operations or single
  requests behind a protocol library.
- The HAL is assumed: a rename or remove on the card either happens or does not; a write can
  stop half way, where the code does not use a temporary file.

## 6. Plan

Done, in this order because data loss matters most: `BookMove` and `ActivityManager` with their
proofs, `ObsidianQueue` with `Outbox`, `NearbyTransfer` with `Delivery` and their proofs,
`OtaBoot` with `Firmware`, `EpubSection` with `SectionStore` and their proofs, `DictLookup` with its proofs.

Next:

1. `main.cpp` composed with `ActivityManager`: the charging screen, which is taken for shown when
   it is asked for (`main.cpp:1262`), and the power button.
2. Folder moves in `BookMove`; the nearby sync of statistics, which shares its packets with
   `NearbyTransfer`.
3. More abstract specifications: a move as one atomic step, implemented by `BookMove` outside the
   harms a fault does to the very things it hits; the lookup as a worker with one client.
