------------------------------ MODULE BookMove ------------------------------
(***************************************************************************)
(* The journaled book move of src/util/BookMoveUtils.cpp.                  *)
(*                                                                         *)
(* Everything the device remembers of a book is keyed by the book's path:  *)
(* the reading cache, the bookmark file, the clipping file, the recents    *)
(* list and the path to resume.  A move must take all of it along.  The    *)
(* code writes a journal, renames the book file, migrates the parts one    *)
(* after the other and removes the journal; whatever power loss or failed  *)
(* card operation interrupts is retried at the next boot, and before the   *)
(* next move.                                                              *)
(*                                                                         *)
(* One action is one operation on the SD card, so that power can be lost   *)
(* between any two of them.  Folder moves are not modelled.                *)
(***************************************************************************)
EXTENDS Naturals, FiniteSets

CONSTANTS
  Paths,      \* the paths a book can have
  Books,      \* the books (files) on the card
  NoBook,     \* no file, or no cache, at a path
  NoPath,     \* no path to resume
  Notes,      \* the bookmarks and clippings the reader can make
  Owner,      \* Owner[n]: the book note n is made in
  Epubs,      \* the books with an EPUB extension; the others are XTC or TXT
  MaxFaults,  \* bound on the power losses and failed card operations
  MaxExternal \* bound on the moves made on a computer

ASSUME ConstantsAssumption ==
  /\ NoBook \notin Books
  /\ NoPath \notin Paths
  /\ Owner \in [Notes -> Books]
  /\ Epubs \subseteq Books
  /\ MaxFaults \in Nat
  /\ MaxExternal \in Nat

VARIABLES
  file,        \* file[p]: the book stored at path p
  cache,       \* cache[p]: whose reading cache is under the key of p
  marks,       \* marks[p]: the bookmarks in the bookmark file of p
  marksTorn,   \* the paths whose bookmark file is truncated
  clips,       \* clips[p]: the clippings in the clipping file of p
  clipsBak,    \* clipsBak[p]: the clippings in its .bak file
  aside,       \* notes in the .retroink_before_N backups
  recents, recentsDisk,   \* paths in the recents list: in RAM, on the card
  resume, resumeDisk,     \* openEpubPath: in RAM, on the card
  journal,     \* the contents of move.journal
  pc,          \* the next card operation of the running call
  op,          \* the running (or last) call and its arguments
  ok,          \* the "ok" local of migrateMovedEpubState
  result,      \* what the last move or restore returned
  faults,      \* faults so far
  harm,        \* history: the notes, books and paths a fault has damaged for good
  written,     \* history: the notes made so far
  late,        \* history: the notes made while a journal was pending
  external,    \* history: the books moved on a computer
  clash        \* history: one of them while a journal was pending

card  == <<file, cache, marks, marksTorn, clips, clipsBak, aside>>
lists == <<recents, recentsDisk, resume, resumeDisk>>
ctl   == <<pc, op, ok, result>>
hist  == <<written, late, external, clash>>
flt   == <<faults, harm>>
vars  == <<card, lists, journal, ctl, hist, flt>>

-----------------------------------------------------------------------------
Blank(st) == [st |-> st, from |-> NoPath, to |-> NoPath, keep |-> FALSE,
              recovery |-> FALSE, backedUp |-> FALSE]
NoJournal   == Blank("none")
TornJournal == Blank("torn")
Pending     == journal.st = "ok"

Calls == {"boot", "movePre", "movePost", "restorePre", "restorePost"}
NoCall == [call |-> "boot", from |-> NoPath, to |-> NoPath, keep |-> FALSE]

Exists(p)        == file[p] # NoBook
HasPriorStateCacheOnly(p) == cache[p] # NoBook
HasPriorState(p) == cache[p] # NoBook \/ marks[p] # {} \/ p \in marksTorn \/ clips[p] # {}

\* The book whose journaled move is being carried out.
Moving == file[journal.to]

\* The books whose record the reader finds under the key of p.
RecordOwners(p) ==
  ({cache[p]} \ {NoBook}) \cup {Owner[n] : n \in marks[p] \cup clips[p]}

NoFault == UNCHANGED flt

\* Between two renames, the clippings of a path are in its .bak file only.
InBak ==
  CASE pc \in {"clipSwap", "clipUndo"}       -> clipsBak[journal.from]
    [] pc \in {"clipReplace", "clipRestore"} -> clipsBak[journal.to]
    [] OTHER                                 -> {}

\* A card operation fails, or power is lost; d is what it damages, if anything,
\* that no later step of the code repairs.
Fault(d) ==
  /\ faults < MaxFaults
  /\ faults' = faults + 1
  /\ harm' = harm \cup d

Goto(l) == pc' = l /\ UNCHANGED <<op, ok, result>>

\* A move or a restore returns to its caller.
Finish(r) == pc' = "idle" /\ op' = NoCall /\ ok' = TRUE /\ result' = r

\* recoverPendingMove returns b to whoever called it.
Return(b) ==
  CASE op.call = "movePre"    /\ b  -> Goto("preflight")
    [] op.call = "restorePre" /\ b  -> Goto("writeJournal")
    [] op.call = "movePost"   /\ ~b -> Goto("rollback")
    [] op.call = "boot"             -> Finish("none")
    [] OTHER                        -> Finish(IF b THEN "success" ELSE "failure")

\* A migration step that fails: an EPUB notes it and goes on at l, any other
\* book returns at once.
StepFailed(l) ==
  IF Moving \in Epubs
  THEN pc' = l /\ ok' = FALSE /\ UNCHANGED <<op, result>>
  ELSE Return(FALSE)

-----------------------------------------------------------------------------
Init ==
  /\ file \in {f \in [Paths -> Books \cup {NoBook}] :
                 \A b \in Books : \E p \in Paths : {q \in Paths : f[q] = b} = {p}}
  /\ cache = [p \in Paths |-> NoBook]
  /\ marks = [p \in Paths |-> {}]
  /\ marksTorn = {}
  /\ clips = [p \in Paths |-> {}]
  /\ clipsBak = [p \in Paths |-> {}]
  /\ aside = {}
  /\ recents = {} /\ recentsDisk = {}
  /\ resume = NoPath /\ resumeDisk = NoPath
  /\ journal = NoJournal
  /\ pc = "idle" /\ op = NoCall /\ ok = TRUE /\ result = "none"
  /\ faults = 0 /\ harm = {}
  /\ written = {} /\ late = {} /\ external = {} /\ clash = FALSE

-----------------------------------------------------------------------------
(* The reader, between moves.                                              *)

\* Opening a book builds its cache, puts it in the recents list (which drops
\* the entries whose file is gone) and makes it the book to resume.
OpenBook(p) ==
  /\ pc = "idle" /\ Exists(p)
  /\ cache' = [cache EXCEPT ![p] = IF @ = NoBook THEN file[p] ELSE @]
  /\ recents' = {q \in recents \cup {p} : Exists(q)}
  /\ recentsDisk' = recents'
  /\ resume' = p /\ resumeDisk' = p
  /\ Finish("none")
  /\ UNCHANGED <<file, marks, marksTorn, clips, clipsBak, aside, journal, hist, flt>>

NewNote(p, n) ==
  /\ pc = "idle" /\ Exists(p) /\ cache[p] # NoBook
  /\ Owner[n] = file[p] /\ n \notin written
  /\ written' = written \cup {n}
  /\ late' = IF Pending THEN late \cup {n} ELSE late
  /\ Finish("none")

\* addBookmark: a truncated file did not load, and is now overwritten.
AddBookmark(p, n) ==
  /\ NewNote(p, n)
  /\ marks' = [marks EXCEPT ![p] = @ \cup {n}]
  /\ marksTorn' = marksTorn \ {p}
  /\ UNCHANGED <<file, cache, clips, clipsBak, aside, lists, journal, external, clash, flt>>

\* addClipping: only EPUB books have clippings; writeToFile drops a left-over
\* .bak file.
AddClipping(p, n) ==
  /\ NewNote(p, n)
  /\ file[p] \in Epubs
  /\ clips' = [clips EXCEPT ![p] = @ \cup {n}]
  /\ clipsBak' = [clipsBak EXCEPT ![p] = {}]
  /\ UNCHANGED <<file, cache, marks, marksTorn, aside, lists, journal, external, clash, flt>>

\* The card is taken out and a book is moved, to a path without a record.
ExternalMove(p, q) ==
  /\ pc = "idle" /\ Exists(p) /\ ~Exists(q)
  /\ RecordOwners(q) = {} /\ q \notin marksTorn
  /\ Cardinality(external) < MaxExternal
  /\ file' = [file EXCEPT ![q] = file[p], ![p] = NoBook]
  /\ external' = external \cup {file[p]}
  /\ clash' = (clash \/ Pending)
  /\ recents' = recentsDisk /\ resume' = resumeDisk
  /\ pc' = "boot" /\ op' = NoCall /\ ok' = TRUE /\ result' = "none"
  /\ UNCHANGED <<cache, marks, marksTorn, clips, clipsBak, aside, recentsDisk,
                 resumeDisk, journal, written, late, flt>>

-----------------------------------------------------------------------------
(* Power.                                                                  *)

LoseRam ==
  /\ recents' = recentsDisk' /\ resume' = resumeDisk'
  /\ pc' = "boot" /\ op' = NoCall /\ ok' = TRUE /\ result' = "none"

\* Deep sleep: the next wake is a boot.
Sleep ==
  /\ pc = "idle"
  /\ UNCHANGED <<recentsDisk, resumeDisk>>
  /\ LoseRam
  /\ UNCHANGED <<card, journal, hist, flt>>

\* A boot that does not look at the journal.
BootWithoutRetry ==
  /\ pc = "boot"
  /\ Goto("idle")
  /\ UNCHANGED <<card, lists, journal, hist, flt>>

\* main.cpp loads the stores and then retries a journal before Home opens.
Boot ==
  /\ pc = "boot"
  /\ Goto(IF journal = NoJournal THEN "idle" ELSE "recover")
  /\ UNCHANGED <<card, lists, journal, hist, flt>>

\* Power is lost before the operation at pc.
PowerLoss ==
  /\ pc \notin {"idle", "boot"}
  /\ Fault(InBak)
  /\ UNCHANGED <<recentsDisk, resumeDisk>>
  /\ LoseRam
  /\ UNCHANGED <<card, journal, hist>>

\* Power is lost in the middle of a write that is not atomic: the journal, the
\* bookmark file and the JSON files of the two lists are written in place.
PowerLossInWrite ==
  /\ Fault({})
  /\ \/ /\ pc = "writeJournal" /\ journal' = TornJournal
        /\ UNCHANGED <<card, recentsDisk, resumeDisk>>
     \/ /\ pc = "marks" /\ marks[journal.from] # {}
        /\ marksTorn \cap {journal.from, journal.to} = {}
        /\ marksTorn' = marksTorn \cup {journal.to}
        /\ marks' = [marks EXCEPT ![journal.to] = {}]
        /\ UNCHANGED <<file, cache, clips, clipsBak, aside, recentsDisk, resumeDisk, journal>>
     \/ /\ pc = "recents" /\ recentsDisk' = {}
        /\ UNCHANGED <<card, resumeDisk, journal>>
     \/ /\ pc = "resume" /\ resumeDisk' = NoPath
        /\ UNCHANGED <<card, recentsDisk, journal>>
  /\ LoseRam
  /\ UNCHANGED hist

-----------------------------------------------------------------------------
(* moveWithState and restorePriorState, up to the journal.                 *)

StartMove(p, q, keep) ==
  /\ pc = "idle" /\ p # q /\ Exists(p) /\ ~Exists(q)
  /\ pc' = "recover" /\ ok' = TRUE /\ result' = "none"
  /\ op' = [call |-> "movePre", from |-> p, to |-> q, keep |-> keep]
  /\ UNCHANGED <<card, lists, journal, hist, flt>>

\* The user reattaches the record left at p to the book now found at q; the
\* Library only offers this for the book the record belongs to.
StartRestore(p, q) ==
  /\ pc = "idle" /\ p # q /\ ~Exists(p) /\ Exists(q)
  /\ HasPriorState(p) /\ RecordOwners(p) \subseteq {file[q]}
  /\ pc' = "recover" /\ ok' = TRUE /\ result' = "none"
  /\ op' = [call |-> "restorePre", from |-> p, to |-> q, keep |-> TRUE]
  /\ UNCHANGED <<card, lists, journal, hist, flt>>

\* A record already under the key of the destination refuses the move.
Preflight ==
  /\ pc = "preflight"
  /\ IF HasPriorState(op.to) THEN Finish("failure") ELSE Goto("writeJournal")
  /\ UNCHANGED <<card, lists, journal, hist, flt>>

\* The paths are taken from the call after it has returned.
WriteJournalBlank ==
  /\ pc = "writeJournal"
  /\ journal' = [Blank("ok") EXCEPT !.recovery = op.call = "restorePre"]
  /\ IF op.call = "movePre"
     THEN pc' = "rename" /\ UNCHANGED op
     ELSE pc' = "recover" /\ op' = [op EXCEPT !.call = "restorePost"]
  /\ UNCHANGED <<card, lists, ok, result, hist>>
  /\ NoFault

WriteJournal ==
  /\ pc = "writeJournal"
  /\ journal' = [st |-> "ok", from |-> op.from, to |-> op.to, keep |-> op.keep,
                 recovery |-> op.call = "restorePre", backedUp |-> FALSE]
  /\ IF op.call = "movePre"
     THEN pc' = "rename" /\ UNCHANGED op
     ELSE pc' = "recover" /\ op' = [op EXCEPT !.call = "restorePost"]
  /\ UNCHANGED <<card, lists, ok, result, hist>>
  /\ NoFault

\* The file cannot be opened, or a write into it fails and leaves a part.
WriteJournalFails ==
  /\ pc = "writeJournal"
  /\ Fault({})
  /\ journal' \in {journal, TornJournal}
  /\ Finish("failure")
  /\ UNCHANGED <<card, lists, hist>>

RenameFile ==
  /\ pc = "rename"
  /\ file' = [file EXCEPT ![op.to] = file[op.from], ![op.from] = NoBook]
  /\ pc' = "recover" /\ op' = [op EXCEPT !.call = "movePost"]
  /\ UNCHANGED <<cache, marks, marksTorn, clips, clipsBak, aside, lists, journal,
                 ok, result, hist>>
  /\ NoFault

RenameFileFails ==
  /\ pc = "rename"
  /\ Fault({})
  /\ Goto("dropJournal")
  /\ UNCHANGED <<card, lists, journal, hist>>

\* The rename goes back when the cache did not move and nothing is in its way;
\* otherwise the migration stays pending.
Rollback ==
  /\ pc = "rollback"
  /\ IF /\ cache[op.from] # NoBook /\ cache[op.to] = NoBook /\ ~Exists(op.from)
     THEN \/ /\ file' = [file EXCEPT ![op.from] = file[op.to], ![op.to] = NoBook]
             /\ Goto("dropJournal")
             /\ NoFault
          \/ /\ Fault({}) /\ Finish("failure") /\ UNCHANGED file
     ELSE Finish("failure") /\ UNCHANGED file /\ NoFault
  /\ UNCHANGED <<cache, marks, marksTorn, clips, clipsBak, aside, lists, journal, hist>>

\* Storage.remove(JOURNAL) after a failed or rolled back rename.
DropJournal ==
  /\ pc = "dropJournal"
  /\ \/ journal' = NoJournal /\ NoFault
     \/ UNCHANGED journal /\ Fault({})
  /\ Finish("failure")
  /\ UNCHANGED <<card, lists, hist>>

-----------------------------------------------------------------------------
(* recoverPendingMove: at boot, before a move or a restore, and after it.  *)

NothingPending == journal.st = "none" /\ Return(TRUE)

\* The power went before the file was renamed: there is nothing to migrate.
NotRenamed ==
  /\ Pending /\ ~journal.recovery /\ Exists(journal.from) /\ ~Exists(journal.to)
  /\ Return(TRUE)

\* The book is under neither path of the journal, or there is one under each.
Ambiguous ==
  \/ ~Exists(journal.to) /\ (journal.recovery \/ ~Exists(journal.from))
  \/ Exists(journal.to) /\ Exists(journal.from) /\ ~journal.recovery

Refuse == (journal.st = "torn" \/ (Pending /\ Ambiguous)) /\ Return(FALSE)

BeginMigration ==
  /\ Pending /\ Exists(journal.to) /\ (journal.recovery \/ ~Exists(journal.from))
  /\ pc' = IF journal.recovery /\ ~journal.backedUp THEN "backupCache" ELSE "cache"
  /\ ok' = TRUE
  /\ UNCHANGED <<op, result>>

RecoverPendingMove ==
  /\ pc = "recover"
  /\ \/ NothingPending /\ UNCHANGED journal /\ NoFault
     \/ NotRenamed /\ journal' = NoJournal /\ NoFault
     \/ NotRenamed /\ UNCHANGED journal /\ Fault({})
     \/ Refuse /\ UNCHANGED journal /\ NoFault
     \/ BeginMigration /\ UNCHANGED journal /\ NoFault
  /\ UNCHANGED <<card, lists, hist>>

\* The card is not ready, or the journal cannot be read this time.
RecoverFails ==
  /\ pc = "recover"
  /\ Fault({})
  /\ Return(FALSE)
  /\ UNCHANGED <<card, lists, journal, hist>>

\* backupCurrentRecord and markRecoveryBackedUp: before an old record takes
\* the key of a book, the current one is renamed aside, part by part.
BackupCache ==
  /\ pc = "backupCache"
  /\ cache' = [cache EXCEPT ![journal.to] = NoBook]
  /\ Goto("backupMarks")
  /\ UNCHANGED <<file, marks, marksTorn, clips, clipsBak, aside, lists, journal, hist>>
  /\ NoFault

BackupMarks ==
  /\ pc = "backupMarks"
  /\ aside' = aside \cup marks[journal.to]
  /\ marks' = [marks EXCEPT ![journal.to] = {}]
  /\ marksTorn' = marksTorn \ {journal.to}
  /\ Goto("backupClips")
  /\ UNCHANGED <<file, cache, clips, clipsBak, lists, journal, hist>>
  /\ NoFault

BackupClips ==
  /\ pc = "backupClips"
  /\ aside' = aside \cup clips[journal.to]
  /\ clips' = [clips EXCEPT ![journal.to] = {}]
  /\ Goto("markBackedUp")
  /\ UNCHANGED <<file, cache, marks, marksTorn, clipsBak, lists, journal, hist>>
  /\ NoFault

MarkBackedUp ==
  /\ pc = "markBackedUp"
  /\ journal' = [journal EXCEPT !.backedUp = TRUE]
  /\ Goto("cache")
  /\ UNCHANGED <<card, lists, hist>>
  /\ NoFault

BackupFails ==
  /\ pc \in {"backupCache", "backupMarks", "backupClips", "markBackedUp"}
  /\ Fault({})
  /\ Return(FALSE)
  /\ UNCHANGED <<card, lists, journal, hist>>

-----------------------------------------------------------------------------
(* migrateExistingPath and migrateMovedEpubState.                          *)

\* Two caches are a conflict the code refuses.
MigrateCache ==
  /\ pc = "cache"
  /\ IF cache[journal.from] # NoBook /\ cache[journal.to] # NoBook
     THEN Return(FALSE) /\ UNCHANGED cache
     ELSE /\ cache' = IF cache[journal.from] = NoBook THEN cache
                      ELSE [cache EXCEPT ![journal.to] = cache[journal.from],
                                         ![journal.from] = NoBook]
          /\ Goto("marks")
  /\ UNCHANGED <<file, marks, marksTorn, clips, clipsBak, aside, lists, journal, hist>>
  /\ NoFault

MigrateCacheFails ==
  /\ pc = "cache"
  /\ cache[journal.from] # NoBook /\ cache[journal.to] = NoBook
  /\ Fault(IF Moving \in Epubs THEN {Moving, journal.to} ELSE {})
  /\ StepFailed("marks")
  /\ UNCHANGED <<card, lists, journal, hist>>

\* A truncated destination is taken for a finished copy.
MigrateMarksCareless ==
  /\ pc = "marks"
  /\ LET src == journal.from  dst == journal.to IN
     IF marks[src] = {}
     THEN Goto("clips") /\ UNCHANGED marks
     ELSE /\ marks' = IF dst \in marksTorn THEN marks
                      ELSE [marks EXCEPT ![dst] = @ \cup marks[src]]
          /\ Goto("marksDelete")
  /\ UNCHANGED <<file, cache, marksTorn, clips, clipsBak, aside, lists, journal, hist>>
  /\ NoFault

\* BookmarkStore::migrateForFilePath: the union is written to the new file, and
\* then the old file is deleted.  A truncated file on either side refuses.
MigrateMarks ==
  /\ pc = "marks"
  /\ LET src == journal.from  dst == journal.to IN
     IF marks[src] = {} /\ src \notin marksTorn
     THEN Goto("clips") /\ UNCHANGED marks
     ELSE IF src \in marksTorn \/ dst \in marksTorn
     THEN StepFailed("clips") /\ UNCHANGED marks
     ELSE /\ marks' = [marks EXCEPT ![dst] = @ \cup marks[src]]
          /\ Goto("marksDelete")
  /\ UNCHANGED <<file, cache, marksTorn, clips, clipsBak, aside, lists, journal, hist>>
  /\ NoFault

MigrateMarksFails ==
  /\ pc = "marks"
  /\ marks[journal.from] # {}
  /\ Fault({})
  /\ StepFailed("clips")
  /\ UNCHANGED <<card, lists, journal, hist>>

\* writeToFile does not look at the results of its writes: on a full card it
\* leaves a truncated file and reports success.
MigrateMarksShort ==
  /\ pc = "marks"
  /\ LET src == journal.from  dst == journal.to IN
     /\ marks[src] # {} /\ marksTorn \cap {src, dst} = {}
     /\ marks' = [marks EXCEPT ![dst] = {}]
     /\ marksTorn' = marksTorn \cup {dst}
     /\ Fault(marks[src] \cup marks[dst])
  /\ Goto("marksDelete")
  /\ UNCHANGED <<file, cache, clips, clipsBak, aside, lists, journal, hist>>

MigrateMarksDelete ==
  /\ pc = "marksDelete"
  /\ \/ /\ marks' = [marks EXCEPT ![journal.from] = {}]
        /\ Goto("clips")
        /\ NoFault
     \/ Fault({}) /\ StepFailed("clips") /\ UNCHANGED marks
  /\ UNCHANGED <<file, cache, marksTorn, clips, clipsBak, aside, lists, journal, hist>>

\* ClippingStore::migrateForFilePath first rewrites the old file with the new
\* path in its header: writeToFile renames it to .bak, renames the .tmp into
\* its place and removes the .bak.
MigrateClips ==
  /\ pc = "clips"
  /\ LET src == journal.from IN
     IF clips[src] = {}
     THEN Goto("recents") /\ UNCHANGED <<clips, clipsBak>>
     ELSE /\ clipsBak' = [clipsBak EXCEPT ![src] = clips[src]]
          /\ clips' = [clips EXCEPT ![src] = {}]
          /\ Goto("clipSwap")
  /\ UNCHANGED <<file, cache, marks, marksTorn, aside, lists, journal, hist>>
  /\ NoFault

ClipsSwap ==
  /\ pc = "clipSwap"
  /\ \/ /\ clips' = [clips EXCEPT ![journal.from] = clipsBak[journal.from]]
        /\ Goto("clipUnbak")
        /\ NoFault
     \/ UNCHANGED clips /\ Goto("clipUndo") /\ Fault({})
  /\ UNCHANGED <<file, cache, marks, marksTorn, clipsBak, aside, lists, journal, hist>>

\* A rename failed with the file of a path in its .bak: the .bak is renamed back.
\* When that fails too the migration fails in the same way; no retry and no reader
\* looks for the .bak (the next clipping at that path replaces it).
ClipsUndo ==
  /\ pc \in {"clipUndo", "clipRestore"}
  /\ LET p == IF pc = "clipUndo" THEN journal.from ELSE journal.to IN
     \/ /\ clips' = [clips EXCEPT ![p] = clipsBak[p]]
        /\ clipsBak' = [clipsBak EXCEPT ![p] = {}]
        /\ NoFault
     \/ UNCHANGED <<clips, clipsBak>> /\ Fault(InBak)
  /\ StepFailed("recents")
  /\ UNCHANGED <<file, cache, marks, marksTorn, aside, lists, journal, hist>>

\* Whether the .bak goes is not looked at.
ClipsUnbak ==
  /\ pc = "clipUnbak"
  /\ \/ clipsBak' = [clipsBak EXCEPT ![journal.from] = {}] /\ NoFault
     \/ UNCHANGED clipsBak /\ Fault({})
  /\ Goto("clipAside")
  /\ UNCHANGED <<file, cache, marks, marksTorn, clips, aside, lists, journal, hist>>

\* A clipping file of the destination becomes its .bak.
ClipsAside ==
  /\ pc = "clipAside"
  /\ LET dst == journal.to IN
     IF clips[dst] = {}
     THEN Goto("clipMove") /\ UNCHANGED <<clips, clipsBak>>
     ELSE /\ clipsBak' = [clipsBak EXCEPT ![dst] = clips[dst]]
          /\ clips' = [clips EXCEPT ![dst] = {}]
          /\ Goto("clipReplace")
  /\ UNCHANGED <<file, cache, marks, marksTorn, aside, lists, journal, hist>>
  /\ NoFault

ClipsMove ==
  /\ pc \in {"clipMove", "clipReplace"}
  /\ clips' = [clips EXCEPT ![journal.to] = clips[journal.from], ![journal.from] = {}]
  /\ clipsBak' = IF pc = "clipReplace" THEN [clipsBak EXCEPT ![journal.to] = {}]
                 ELSE clipsBak
  /\ Goto("recents")
  /\ UNCHANGED <<file, cache, marks, marksTorn, aside, lists, journal, hist>>
  /\ NoFault

\* The old file cannot be read or copied, or a rename fails.
ClipsMoveFails ==
  /\ pc \in {"clips", "clipAside", "clipMove", "clipReplace"}
  /\ clips[journal.from] # {}
  /\ Fault({})
  /\ IF pc = "clipReplace" THEN Goto("clipRestore") ELSE StepFailed("recents")
  /\ UNCHANGED <<card, lists, journal, hist>>

\* RecentBooksStore::updatePath, or removeByPath when read books leave the
\* list.  The result of the save is not looked at.
MigrateRecents ==
  /\ pc = "recents"
  /\ LET src == journal.from  dst == journal.to IN
     recents' = IF journal.keep
                THEN IF src \in recents THEN (recents \ {src}) \cup {dst} ELSE recents
                ELSE recents \ (IF Moving \in Epubs THEN {src, dst} ELSE {src})
  /\ \/ recentsDisk' = (IF recents' = recents THEN recentsDisk ELSE recents') /\ NoFault
     \/ recents' # recents /\ UNCHANGED recentsDisk /\ Fault(recentsDisk \ recents')
  /\ Goto("resume")
  /\ UNCHANGED <<card, resume, resumeDisk, journal, hist>>

\* The failure of an earlier part of an EPUB is forgotten.
MigrateResumeForgetful ==
  /\ pc = "resume"
  /\ resume' = IF resume = journal.from THEN journal.to ELSE resume
  /\ resumeDisk' = resume'
  /\ Goto(IF journal.recovery THEN "done" ELSE "hint")
  /\ UNCHANGED <<card, recents, recentsDisk, journal, hist>>
  /\ NoFault

\* The new path to resume is not saved.
MigrateResumeUnsaved ==
  /\ pc = "resume"
  /\ resume' = IF resume = journal.from THEN journal.to ELSE resume
  /\ IF ok THEN Goto(IF journal.recovery THEN "done" ELSE "hint") ELSE Return(FALSE)
  /\ UNCHANGED <<card, recents, recentsDisk, resumeDisk, journal, hist>>
  /\ NoFault

\* openEpubPath, and the return of the migration.
MigrateResume ==
  /\ pc = "resume"
  /\ IF resume = journal.from
     THEN /\ resume' = journal.to
          /\ \/ resumeDisk' = journal.to /\ NoFault
             \/ UNCHANGED resumeDisk /\ Fault({journal.from})
     ELSE UNCHANGED <<resume, resumeDisk>> /\ NoFault
  /\ IF ok THEN Goto(IF journal.recovery THEN "done" ELSE "hint") ELSE Return(FALSE)
  /\ UNCHANGED <<card, recents, recentsDisk, journal, hist>>

\* appendLibraryMoveHint; it fails like a card that is gone by now.
MoveHint ==
  /\ pc = "hint"
  /\ \/ Goto("done") /\ NoFault
     \/ Return(FALSE) /\ Fault({})
  /\ UNCHANGED <<card, lists, journal, hist>>

\* The result of removing the journal is not looked at.
FinishMove ==
  /\ pc = "done"
  /\ \/ journal' = NoJournal /\ NoFault
     \/ UNCHANGED journal /\ Fault({})
  /\ Return(TRUE)
  /\ UNCHANGED <<card, lists, hist>>

-----------------------------------------------------------------------------
Migrate ==
  \/ MigrateCache \/ MigrateMarks \/ MigrateMarksDelete \/ MigrateClips \/ ClipsSwap
  \/ ClipsUndo \/ ClipsUnbak \/ ClipsAside \/ ClipsMove \/ MigrateRecents \/ MigrateResume
  \/ MoveHint \/ FinishMove

Progress ==
  \/ Boot \/ Preflight \/ WriteJournal \/ RenameFile \/ Rollback \/ DropJournal
  \/ RecoverPendingMove \/ BackupCache \/ BackupMarks \/ BackupClips \/ MarkBackedUp
  \/ Migrate

Failures ==
  \/ PowerLoss \/ PowerLossInWrite \/ WriteJournalFails \/ RenameFileFails \/ RecoverFails
  \/ BackupFails \/ MigrateCacheFails \/ MigrateMarksFails \/ MigrateMarksShort
  \/ ClipsMoveFails

User ==
  \/ Sleep
  \/ \E p \in Paths : OpenBook(p)
  \/ \E p \in Paths, n \in Notes : AddBookmark(p, n) \/ AddClipping(p, n)
  \/ \E p, q \in Paths : ExternalMove(p, q) \/ StartRestore(p, q)
  \/ \E p, q \in Paths, keep \in BOOLEAN : StartMove(p, q, keep)

Next == Progress \/ Failures \/ User

Spec == Init /\ [][Next]_vars

\* A running call is carried on, and the device falls asleep sooner or later.
FairSpec == Spec /\ WF_vars(Progress) /\ WF_vars(Sleep)

-----------------------------------------------------------------------------
Labels == {"idle", "boot", "recover", "preflight", "writeJournal", "rename", "rollback",
           "dropJournal", "backupCache", "backupMarks", "backupClips", "markBackedUp",
           "cache", "marks", "marksDelete", "clips", "clipSwap", "clipUndo", "clipUnbak",
           "clipAside", "clipMove", "clipReplace", "clipRestore", "recents", "resume", "hint",
           "done"}

CardOK ==
  /\ file \in [Paths -> Books \cup {NoBook}]
  /\ cache \in [Paths -> Books \cup {NoBook}]
  /\ marks \in [Paths -> SUBSET Notes]
  /\ marksTorn \subseteq Paths
  /\ clips \in [Paths -> SUBSET Notes]
  /\ clipsBak \in [Paths -> SUBSET Notes]
  /\ aside \subseteq Notes

ListsOK ==
  /\ recents \subseteq Paths /\ recentsDisk \subseteq Paths
  /\ resume \in Paths \cup {NoPath} /\ resumeDisk \in Paths \cup {NoPath}

JournalOK ==
  /\ journal \in [st : {"none", "torn", "ok"}, from : Paths \cup {NoPath},
                  to : Paths \cup {NoPath}, keep : BOOLEAN, recovery : BOOLEAN,
                  backedUp : BOOLEAN]
  /\ Pending => journal.from \in Paths /\ journal.to \in Paths

ControlOK ==
  /\ pc \in Labels
  /\ op \in [call : Calls, from : Paths \cup {NoPath}, to : Paths \cup {NoPath},
             keep : BOOLEAN]
  /\ op.call # "boot" => op.from \in Paths /\ op.to \in Paths
  /\ ok \in BOOLEAN
  /\ result \in {"none", "success", "failure"}

FaultsOK == faults \in 0..MaxFaults /\ harm \subseteq Notes \cup Books \cup Paths

HistoryOK ==
  /\ FaultsOK
  /\ written \subseteq Notes /\ late \subseteq Notes
  /\ external \subseteq Books /\ clash \in BOOLEAN

(* Every variable has its type. *)
TypeOK == CardOK /\ ListsOK /\ JournalOK /\ ControlOK /\ HistoryOK

-----------------------------------------------------------------------------
\* Where the record of book b may be: under the path of its file, or, while a
\* journal is pending, still under the path the journal takes it from.
Homes(b) == {p \in Paths : file[p] = b}
            \cup (IF Pending /\ file[journal.to] = b THEN {journal.from} ELSE {})

\* The notes of book b that its reader still finds, or will find once the
\* pending journal is retried.
Kept(b) == (UNION {marks[p] \cup clips[p] : p \in Homes(b)})
           \cup InBak

Strays(b) == {p \in Paths : b \in RecordOwners(p)} \ Homes(b)

(* No part of a book's record is left under a path its file has left, unless *)
(* a journal is there to take it along, at every point where power can go.   *)
(* Excused: a book moved on a computer, and an EPUB whose cache could not be *)
(* renamed, whose file goes back to the old path after the other parts have  *)
(* moved (see FailedMigrationLeavesJournal).                                 *)
NothingLeftBehind ==
  \A b \in Books \ (external \cup harm) : Strays(b) = {}

(* BookMoveUtils.h: "A failed migration leaves a journal for retry on boot." *)
FailedMigrationLeavesJournal == \A b \in Books \ external : Strays(b) = {}

\* The notes the code answers for: of books moved by this device alone, made when
\* no journal was pending, neither set aside nor hit by a fault themselves.
Safe == {n \in written \ (late \cup aside \cup harm) : Owner[n] \notin external \cup harm}

(* No bookmark or clipping made before a move is lost by it, wherever power   *)
(* goes and whatever card operation fails, but for those in the very file a   *)
(* fault has hit: a bookmark file cut short by a full card, a clipping file   *)
(* that is only in its .bak when power goes or the renaming back fails, and   *)
(* those of an EPUB whose cache could not be renamed.                         *)
NoNoteLost == \A n \in Safe : n \in Kept(Owner[n])

(* A book never gets the record of another one.  Excused: a computer moved    *)
(* books while a journal was pending, whose paths the code takes for those of *)
(* the book it was written for.                                               *)
NoForeignRecord ==
  ~clash => \A p \in Paths : Exists(p) => RecordOwners(p) \subseteq {file[p]}

(* As long as no computer has moved a book, the recents list and the path to  *)
(* resume, as the next boot will load them, name no path that a move has      *)
(* emptied, unless a journal is pending or the save that would have dropped   *)
(* that very path failed.                                                     *)
ListsFollow ==
  external = {} =>
  \A p \in (recentsDisk \cup {resumeDisk}) \ {NoPath} :
    Exists(p) \/ (Pending /\ p = journal.from) \/ p \in harm

(* A move or restore that reports success has taken the whole record along:   *)
(* nothing is left at the old path, and every note the code answers for is    *)
(* under the new one.                                                         *)
SuccessMeansMigrated ==
  [][op.call \in {"movePost", "restorePost"} /\ pc' = "idle" /\ result' = "success" =>
       /\ file[op.from] = NoBook /\ file[op.to] # NoBook
       /\ RecordOwners(op.from) = {} /\ op.from \notin marksTorn
       /\ op.from \notin recents /\ resume # op.from
       /\ \A n \in Safe : Owner[n] = file[op.to] => n \in marks[op.to] \cup clips[op.to]]_vars

\* What a retry cannot repair: two caches, a truncated bookmark file, a book
\* that is not where the journal says.
Stuck ==
  \/ cache[journal.from] # NoBook /\ cache[journal.to] # NoBook
  \/ marksTorn \cap {journal.from, journal.to} # {}
  \/ Ambiguous

(* A readable journal is worked off by retries once the faults end, unless   *)
(* the reader or the computer has got in its way.                            *)
JournalWorkedOff == Pending ~> ~Pending \/ Stuck
=============================================================================
