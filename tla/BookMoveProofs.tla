--------------------------- MODULE BookMoveProofs ---------------------------
(***************************************************************************)
(* Safety of the journaled book move, for any paths, books and notes and   *)
(* any number of faults and of moves made on a computer: nothing of a      *)
(* record is left behind, no note is lost, no book gets the record of      *)
(* another, the lists follow, and success means the record was moved.      *)
(***************************************************************************)
EXTENDS BookMove, TLAPS

-----------------------------------------------------------------------------
(* Where the running call is.                                              *)

BackupLabels == {"backupCache", "backupMarks", "backupClips", "markBackedUp"}
AfterClips   == {"recents", "resume", "hint", "done"}
Swapping     == {"clipSwap", "clipUndo"}
Replacing    == {"clipReplace", "clipRestore"}
ClipLabels   == {"clips", "clipSwap", "clipUndo", "clipUnbak", "clipAside", "clipMove",
                 "clipReplace", "clipRestore"}
AfterMarks   == ClipLabels \cup AfterClips
AfterCache   == {"marks", "marksDelete"} \cup AfterMarks
MoveLabels   == {"cache"} \cup AfterCache
Migrating    == pc \in BackupLabels \cup MoveLabels

USE DEF Swapping, Replacing

\* What the arguments of a call and the journal say of each other and of the
\* files, at each point of the call.
CallOK ==
  /\ pc \in {"idle", "boot"} => op = NoCall
  /\ pc = "writeJournal" => op.call \in {"movePre", "restorePre"}
  /\ pc \in {"preflight", "rename"} => op.call = "movePre"
  /\ pc = "rollback" => op.call = "movePost"
  /\ pc = "dropJournal" => op.call \in {"movePre", "movePost"}
  /\ op.call # "boot" => op.from \in Paths /\ op.to \in Paths /\ op.from # op.to

FilesOK ==
  /\ op.call = "movePre" => Exists(op.from) /\ ~Exists(op.to)
  /\ op.call = "restorePre" => ~Exists(op.from) /\ Exists(op.to)
  /\ op.call \in {"movePost", "restorePost"} /\ pc # "dropJournal" =>
       /\ ~Exists(op.from) /\ Exists(op.to)
       /\ journal.recovery <=> op.call = "restorePost"
  /\ pc = "dropJournal" => Exists(op.from) /\ ~Exists(op.to)
  /\ pc \in {"rename", "dropJournal"} => ~journal.recovery
  /\ pc \in {"rename", "dropJournal"} \/ op.call \in {"movePost", "restorePost"} =>
       Pending /\ journal.from = op.from /\ journal.to = op.to
  /\ Pending => journal.from # journal.to

\* No book is in two places.
OnePlace == \A p, q \in Paths : Exists(p) /\ file[p] = file[q] => p = q

\* A migration runs for a journal whose book has reached its new path.
MigratingOK ==
  /\ Migrating => Pending /\ Exists(journal.to) /\ (journal.recovery \/ ~Exists(journal.from))
  /\ pc \in BackupLabels => journal.recovery /\ ~journal.backedUp
  /\ pc \in MoveLabels => (journal.recovery => journal.backedUp)
  /\ pc \in {"hint", "done"} => ok
  /\ Pending /\ journal.recovery /\ Exists(journal.from) => file[journal.from] \in external

\* What the steps passed so far have taken from the old path.
MovedOut ==
  /\ pc \in AfterCache /\ cache[journal.from] # NoBook =>
       {file[journal.to], journal.to} \subseteq harm /\ ~ok
  /\ pc = "marksDelete" => journal.from \notin marksTorn
  /\ pc \in AfterMarks /\ ok => marks[journal.from] = {} /\ journal.from \notin marksTorn
  /\ pc \in AfterClips /\ ok => clips[journal.from] = {}
  /\ pc \in {"resume", "hint", "done"} => journal.from \notin recents
  /\ pc \in {"hint", "done"} => resume # journal.from

Emptied(p) ==
  /\ cache[p] = NoBook /\ marks[p] = {} /\ p \notin marksTorn /\ clips[p] = {}
  /\ p \notin recents /\ resume # p

\* A journal that the retry before the call left on the card has nothing more
\* to take along.
Settled ==
  pc \in {"preflight", "writeJournal"} /\ journal.st # "none" =>
    /\ Pending
    /\ \/ Exists(journal.from) /\ ~Exists(journal.to) /\ ~journal.recovery
       \/ Emptied(journal.from) /\ (journal.recovery => journal.backedUp)

\* Up to the cache step, the new path of a move has no record of its own.
Fresh ==
  /\ op.call = "movePre" /\ pc \in {"writeJournal", "rename"} => ~HasPriorState(op.to)
  /\ op.call = "movePost" /\ pc \in {"recover", "cache"} => ~HasPriorState(op.to)
  /\ pc = "rollback" =>
       \/ cache[op.from] = NoBook \/ file[op.to] \in harm
       \/ ~HasPriorState(op.to)

-----------------------------------------------------------------------------
(* Where records are.  A clipping file that is just being replaced counts   *)
(* as still there.                                                         *)

NoteAt(n, p) ==
  \/ n \in marks[p] \cup clips[p]
  \/ n \in clipsBak[p] /\ \/ pc \in Swapping /\ p = journal.from
                          \/ pc \in Replacing /\ p = journal.to

Bears(b, p) == cache[p] = b \/ \E n \in Notes : NoteAt(n, p) /\ Owner[n] = b

AtHome(b, p) == file[p] = b \/ (Pending /\ file[journal.to] = b /\ p = journal.from)

Behind ==
  \A b \in Books \ (external \cup harm), p \in Paths : Bears(b, p) => AtHome(b, p)

Foreign ==
  ~clash =>
    /\ \A b \in Books, p \in Paths : Bears(b, p) /\ Exists(p) => file[p] = b
    /\ Pending /\ Exists(journal.to) => ~Exists(journal.from)
    /\ Pending /\ Exists(journal.to) =>
         \A b \in Books : Bears(b, journal.from) => file[journal.to] = b
    /\ op.call = "restorePre" => \A b \in Books : Bears(b, op.from) => file[op.to] = b

\* The journal is at work between its two paths: the record at the new one, if
\* it is to be set aside, has been.
Carrying ==
  /\ Pending
  /\ journal.recovery => journal.backedUp
  /\ journal.recovery \/ ~Exists(journal.from)

TwoCaches == cache[journal.from] # NoBook /\ cache[journal.to] # NoBook

\* Notes lie beside their book's cache, unless that has gone ahead or aside.
Accompanied(p) ==
  \/ cache[p] # NoBook
  \/ Carrying /\ p = journal.from /\ cache[journal.to] # NoBook
  \/ Pending /\ p = journal.to /\ journal.recovery /\ ~journal.backedUp

\* Each note is with its book, ...
NotesHome == \A n \in Safe : \E p \in Paths : NoteAt(n, p) /\ AtHome(Owner[n], p)

\* ... and beside a cache, so that a move onto its path is refused.
Beside == \A n \in Safe, p \in Paths : NoteAt(n, p) => Accompanied(p)

\* What has been copied or set aside between two steps of a migration.
Halfway ==
  /\ pc \in ClipLabels \ {"clips"} => Safe \cap clips[journal.to] = {}
  /\ pc \in Swapping => clips[journal.from] = {}
  /\ pc \in Replacing => Safe \cap clipsBak[journal.to] = {}
  /\ pc = "marksDelete" => Safe \cap marks[journal.from] \subseteq marks[journal.to]
  /\ pc \in {"backupClips", "markBackedUp"} => marks[journal.to] = {}
  /\ pc = "markBackedUp" => clips[journal.to] = {}

\* What a retry would overwrite at the new path is at the old one as well.
Apart ==
  Pending /\ (journal.recovery => journal.backedUp) /\ ~TwoCaches =>
    /\ clips[journal.from] # {} => Safe \cap clips[journal.to] = {}
    /\ marks[journal.from] # {} => Safe \cap marks[journal.to] \subseteq marks[journal.from]

Notebook == NotesHome /\ Beside /\ Halfway /\ Apart

Recorded == \A n \in Notes, p \in Paths : NoteAt(n, p) => n \in written

-----------------------------------------------------------------------------
(* The lists.                                                              *)

Listed(p) == p \in recents \/ resume = p

Lists ==
  /\ recentsDisk \subseteq recents \cup harm
  /\ resumeDisk \in {resume, NoPath} \cup harm
  /\ external = {} =>
       /\ \A p \in Paths : Listed(p) => Exists(p) \/ (Pending /\ p = journal.from) \/ p \in harm
       /\ pc = "rename" => ~Listed(op.to) \/ op.to \in harm
       /\ op.call = "movePost" /\ pc \in {"recover", "cache"} => ~Listed(op.to) \/ op.to \in harm
       /\ pc = "rollback" => cache[op.from] = NoBook \/ ~Listed(op.to) \/ op.to \in harm

IInv ==
  /\ TypeOK /\ CallOK /\ FilesOK /\ OnePlace /\ MigratingOK /\ MovedOut /\ Settled /\ Fresh
  /\ Behind /\ Foreign /\ Recorded /\ Notebook /\ Lists

-----------------------------------------------------------------------------
(* The parts the actions are made of.                                      *)

\* How recoverPendingMove returns to its callers.
LEMMA Returns ==
  ASSUME NEW b \in BOOLEAN, Return(b)
  PROVE  \/ /\ op.call = "movePre" /\ b /\ pc' = "preflight"
            /\ op' = op /\ ok' = ok /\ result' = result
         \/ /\ op.call = "restorePre" /\ b /\ pc' = "writeJournal"
            /\ op' = op /\ ok' = ok /\ result' = result
         \/ /\ op.call = "movePost" /\ ~b /\ pc' = "rollback"
            /\ op' = op /\ ok' = ok /\ result' = result
         \/ /\ pc' = "idle" /\ op' = NoCall /\ ok' = TRUE
            /\ result' \in {"none", "success", "failure"}
            /\ result' = "success" => b
            /\ op.call = "movePost" => b
BY DEF Return, Goto, Finish

LEMMA StepFails ==
  ASSUME NEW l, StepFailed(l)
  PROVE  \/ /\ Moving \in Epubs /\ pc' = l /\ ok' = FALSE
            /\ op' = op /\ result' = result
         \/ /\ op.call = "movePost" /\ pc' = "rollback"
            /\ op' = op /\ ok' = ok /\ result' = result
         \/ /\ pc' = "idle" /\ op' = NoCall /\ ok' = TRUE
            /\ result' \in {"none", "failure"}
            /\ op.call # "movePost"
BY DEF StepFailed, Return, Goto, Finish

LEMMA Unharmed == FaultsOK /\ UNCHANGED flt => FaultsOK'
BY DEF FaultsOK, flt

LEMMA Harmed ==
  ASSUME FaultsOK, NEW d \in SUBSET (Notes \cup Books \cup Paths), Fault(d)
  PROVE  FaultsOK'
BY ConstantsAssumption DEF FaultsOK, Fault

LEMMA Calling ==
  /\ NoCall \in [call : Calls, from : Paths \cup {NoPath}, to : Paths \cup {NoPath},
                keep : BOOLEAN]
  /\ NoCall.call = "boot"
BY DEF NoCall, Calls

LEMMA Journals ==
  /\ NoJournal \in [st : {"none", "torn", "ok"}, from : Paths \cup {NoPath},
                    to : Paths \cup {NoPath}, keep : BOOLEAN, recovery : BOOLEAN,
                    backedUp : BOOLEAN]
  /\ TornJournal \in [st : {"none", "torn", "ok"}, from : Paths \cup {NoPath},
                      to : Paths \cup {NoPath}, keep : BOOLEAN, recovery : BOOLEAN,
                      backedUp : BOOLEAN]
  /\ NoJournal.st = "none" /\ TornJournal.st = "torn"
BY DEF NoJournal, TornJournal, Blank

-----------------------------------------------------------------------------
(* Types.                                                                  *)

LEMMA CardStep ==
  ASSUME CardOK, JournalOK, ControlOK, CallOK, MigratingOK, [Next]_vars
  PROVE  CardOK'
<1> USE ConstantsAssumption DEF CardOK, JournalOK, ControlOK, CallOK, MigratingOK,
   Migrating, BackupLabels, MoveLabels, AfterCache, AfterMarks, AfterClips, ClipLabels,
   card, lists, ctl, hist, flt, Goto, Pending
<1>1. CASE Boot
  BY <1>1 DEF Boot
<1>2. CASE Preflight
  BY <1>2 DEF Preflight
<1>3. CASE WriteJournal
  BY <1>3 DEF WriteJournal
<1>4. CASE RenameFile
  BY <1>4 DEF RenameFile
<1>5. CASE Rollback
  BY <1>5 DEF Rollback
<1>6. CASE DropJournal
  BY <1>6 DEF DropJournal, NoJournal, Blank
<1>7. CASE RecoverPendingMove
  BY <1>7 DEF RecoverPendingMove, NothingPending, NotRenamed, Refuse, BeginMigration,
     Ambiguous
<1>8. CASE BackupCache
  BY <1>8 DEF BackupCache
<1>9. CASE BackupMarks
  BY <1>9 DEF BackupMarks
<1>10. CASE BackupClips
  BY <1>10 DEF BackupClips
<1>11. CASE MarkBackedUp
  BY <1>11 DEF MarkBackedUp
<1>12. CASE MigrateCache
  BY <1>12 DEF MigrateCache
<1>13. CASE MigrateMarks
  BY <1>13 DEF MigrateMarks
<1>14. CASE MigrateMarksDelete
  BY <1>14 DEF MigrateMarksDelete
<1>15. CASE MigrateClips
  BY <1>15 DEF MigrateClips
<1>16. CASE ClipsSwap
  BY <1>16 DEF ClipsSwap
<1>16a. CASE ClipsUndo
  BY <1>16a DEF ClipsUndo
<1>17. CASE ClipsUnbak
  BY <1>17 DEF ClipsUnbak
<1>18. CASE ClipsAside
  BY <1>18 DEF ClipsAside
<1>19. CASE ClipsMove
  BY <1>19 DEF ClipsMove
<1>20. CASE MigrateRecents
  BY <1>20 DEF MigrateRecents
<1>21. CASE MigrateResume
  BY <1>21 DEF MigrateResume
<1>22. CASE MoveHint
  BY <1>22 DEF MoveHint
<1>23. CASE FinishMove
  BY <1>23 DEF FinishMove, NoJournal, Blank
<1>24. CASE PowerLoss
  BY <1>24 DEF PowerLoss, LoseRam
<1>25. CASE PowerLossInWrite
  BY <1>25 DEF PowerLossInWrite, LoseRam, TornJournal, Blank
<1>26. CASE WriteJournalFails
  BY <1>26 DEF WriteJournalFails, TornJournal, Blank
<1>27. CASE RenameFileFails
  BY <1>27 DEF RenameFileFails
<1>28. CASE RecoverFails
  BY <1>28 DEF RecoverFails
<1>29. CASE BackupFails
  BY <1>29 DEF BackupFails
<1>30. CASE MigrateCacheFails
  BY <1>30 DEF MigrateCacheFails
<1>31. CASE MigrateMarksFails
  BY <1>31 DEF MigrateMarksFails
<1>32. CASE MigrateMarksShort
  BY <1>32 DEF MigrateMarksShort
<1>33. CASE ClipsMoveFails
  BY <1>33 DEF ClipsMoveFails
<1>34. CASE Sleep
  BY <1>34 DEF Sleep, LoseRam
<1>35. ASSUME NEW p \in Paths, OpenBook(p)
      PROVE  CardOK'
  BY <1>35 DEF OpenBook
<1>36. ASSUME NEW p \in Paths, NEW n \in Notes, AddBookmark(p, n)
      PROVE  CardOK'
  BY <1>36 DEF AddBookmark, NewNote
<1>37. ASSUME NEW p \in Paths, NEW n \in Notes, AddClipping(p, n)
      PROVE  CardOK'
  BY <1>37 DEF AddClipping, NewNote
<1>38. ASSUME NEW p \in Paths, NEW q \in Paths, ExternalMove(p, q)
      PROVE  CardOK'
  BY <1>38 DEF ExternalMove
<1>39. ASSUME NEW p \in Paths, NEW q \in Paths, StartRestore(p, q)
      PROVE  CardOK'
  BY <1>39 DEF StartRestore
<1>40. ASSUME NEW p \in Paths, NEW q \in Paths, NEW keep \in BOOLEAN, StartMove(p, q, keep)
      PROVE  CardOK'
  BY <1>40 DEF StartMove
<1>41. CASE UNCHANGED vars
  BY <1>41 DEF vars
<1>42. QED
  BY ONLY [Next]_vars, <1>1, <1>2, <1>3, <1>4, <1>5, <1>6, <1>7, <1>8, <1>9, <1>10,
     <1>11, <1>12, <1>13, <1>14, <1>15, <1>16, <1>16a, <1>17, <1>18, <1>19, <1>20, <1>21,
     <1>22, <1>23, <1>24, <1>25, <1>26, <1>27, <1>28, <1>29, <1>30, <1>31, <1>32,
     <1>33, <1>34, <1>35, <1>36, <1>37, <1>38, <1>39, <1>40, <1>41
     DEF Next, Progress, Migrate, Failures, User

LEMMA ListsTypeStep ==
  ASSUME ListsOK, JournalOK, MigratingOK, [Next]_vars
  PROVE  ListsOK'
<1> USE ConstantsAssumption DEF ListsOK, JournalOK, MigratingOK, Migrating, BackupLabels,
   MoveLabels, AfterCache, AfterMarks, AfterClips, ClipLabels, card, lists, ctl, hist, flt
<1>1. CASE Boot
  BY <1>1 DEF Boot
<1>2. CASE Preflight
  BY <1>2 DEF Preflight
<1>3. CASE WriteJournal
  BY <1>3 DEF WriteJournal
<1>4. CASE RenameFile
  BY <1>4 DEF RenameFile
<1>5. CASE Rollback
  BY <1>5 DEF Rollback
<1>6. CASE DropJournal
  BY <1>6 DEF DropJournal, NoJournal, Blank
<1>7. CASE RecoverPendingMove
  BY <1>7 DEF RecoverPendingMove, NothingPending, NotRenamed, Refuse, BeginMigration,
     Ambiguous
<1>8. CASE BackupCache
  BY <1>8 DEF BackupCache
<1>9. CASE BackupMarks
  BY <1>9 DEF BackupMarks
<1>10. CASE BackupClips
  BY <1>10 DEF BackupClips
<1>11. CASE MarkBackedUp
  BY <1>11 DEF MarkBackedUp
<1>12. CASE MigrateCache
  BY <1>12 DEF MigrateCache
<1>13. CASE MigrateMarks
  BY <1>13 DEF MigrateMarks
<1>14. CASE MigrateMarksDelete
  BY <1>14 DEF MigrateMarksDelete
<1>15. CASE MigrateClips
  BY <1>15 DEF MigrateClips
<1>16. CASE ClipsSwap
  BY <1>16 DEF ClipsSwap
<1>16a. CASE ClipsUndo
  BY <1>16a DEF ClipsUndo
<1>17. CASE ClipsUnbak
  BY <1>17 DEF ClipsUnbak
<1>18. CASE ClipsAside
  BY <1>18 DEF ClipsAside
<1>19. CASE ClipsMove
  BY <1>19 DEF ClipsMove
<1>20. CASE MigrateRecents
  BY <1>20 DEF MigrateRecents
<1>21. CASE MigrateResume
  BY <1>21 DEF MigrateResume
<1>22. CASE MoveHint
  BY <1>22 DEF MoveHint
<1>23. CASE FinishMove
  BY <1>23 DEF FinishMove, NoJournal, Blank
<1>24. CASE PowerLoss
  BY <1>24 DEF PowerLoss, LoseRam
<1>25. CASE PowerLossInWrite
  BY <1>25 DEF PowerLossInWrite, LoseRam, TornJournal, Blank
<1>26. CASE WriteJournalFails
  BY <1>26 DEF WriteJournalFails, TornJournal, Blank
<1>27. CASE RenameFileFails
  BY <1>27 DEF RenameFileFails
<1>28. CASE RecoverFails
  BY <1>28 DEF RecoverFails
<1>29. CASE BackupFails
  BY <1>29 DEF BackupFails
<1>30. CASE MigrateCacheFails
  BY <1>30 DEF MigrateCacheFails
<1>31. CASE MigrateMarksFails
  BY <1>31 DEF MigrateMarksFails
<1>32. CASE MigrateMarksShort
  BY <1>32 DEF MigrateMarksShort
<1>33. CASE ClipsMoveFails
  BY <1>33 DEF ClipsMoveFails
<1>34. CASE Sleep
  BY <1>34 DEF Sleep, LoseRam
<1>35. ASSUME NEW p \in Paths, OpenBook(p)
      PROVE  ListsOK'
  BY <1>35 DEF OpenBook
<1>36. ASSUME NEW p \in Paths, NEW n \in Notes, AddBookmark(p, n)
      PROVE  ListsOK'
  BY <1>36 DEF AddBookmark, NewNote
<1>37. ASSUME NEW p \in Paths, NEW n \in Notes, AddClipping(p, n)
      PROVE  ListsOK'
  BY <1>37 DEF AddClipping, NewNote
<1>38. ASSUME NEW p \in Paths, NEW q \in Paths, ExternalMove(p, q)
      PROVE  ListsOK'
  BY <1>38 DEF ExternalMove
<1>39. ASSUME NEW p \in Paths, NEW q \in Paths, StartRestore(p, q)
      PROVE  ListsOK'
  BY <1>39 DEF StartRestore
<1>40. ASSUME NEW p \in Paths, NEW q \in Paths, NEW keep \in BOOLEAN, StartMove(p, q, keep)
      PROVE  ListsOK'
  BY <1>40 DEF StartMove
<1>41. CASE UNCHANGED vars
  BY <1>41 DEF vars
<1>42. QED
  BY ONLY [Next]_vars, <1>1, <1>2, <1>3, <1>4, <1>5, <1>6, <1>7, <1>8, <1>9, <1>10,
     <1>11, <1>12, <1>13, <1>14, <1>15, <1>16, <1>16a, <1>17, <1>18, <1>19, <1>20, <1>21,
     <1>22, <1>23, <1>24, <1>25, <1>26, <1>27, <1>28, <1>29, <1>30, <1>31, <1>32,
     <1>33, <1>34, <1>35, <1>36, <1>37, <1>38, <1>39, <1>40, <1>41
     DEF Next, Progress, Migrate, Failures, User

LEMMA JournalStep ==
  ASSUME JournalOK, ControlOK, CallOK, [Next]_vars
  PROVE  JournalOK'
<1> USE ConstantsAssumption DEF JournalOK, ControlOK, CallOK, Pending, card, lists, ctl,
   hist, flt
<1>1. CASE Boot
  BY <1>1 DEF Boot
<1>2. CASE Preflight
  BY <1>2 DEF Preflight
<1>3. CASE WriteJournal
  BY <1>3 DEF WriteJournal
<1>4. CASE RenameFile
  BY <1>4 DEF RenameFile
<1>5. CASE Rollback
  BY <1>5 DEF Rollback
<1>6. CASE DropJournal
  BY <1>6, Journals DEF DropJournal
<1>7. CASE RecoverPendingMove
  BY <1>7, Journals DEF RecoverPendingMove, NothingPending, NotRenamed, Refuse,
     BeginMigration, Ambiguous
<1>8. CASE BackupCache
  BY <1>8 DEF BackupCache
<1>9. CASE BackupMarks
  BY <1>9 DEF BackupMarks
<1>10. CASE BackupClips
  BY <1>10 DEF BackupClips
<1>11. CASE MarkBackedUp
  BY <1>11 DEF MarkBackedUp
<1>12. CASE MigrateCache
  BY <1>12 DEF MigrateCache
<1>13. CASE MigrateMarks
  BY <1>13 DEF MigrateMarks
<1>14. CASE MigrateMarksDelete
  BY <1>14 DEF MigrateMarksDelete
<1>15. CASE MigrateClips
  BY <1>15 DEF MigrateClips
<1>16. CASE ClipsSwap
  BY <1>16 DEF ClipsSwap
<1>16a. CASE ClipsUndo
  BY <1>16a, StepFails, Calling DEF ClipsUndo
<1>17. CASE ClipsUnbak
  BY <1>17 DEF ClipsUnbak
<1>18. CASE ClipsAside
  BY <1>18 DEF ClipsAside
<1>19. CASE ClipsMove
  BY <1>19 DEF ClipsMove
<1>20. CASE MigrateRecents
  BY <1>20 DEF MigrateRecents
<1>21. CASE MigrateResume
  BY <1>21 DEF MigrateResume
<1>22. CASE MoveHint
  BY <1>22 DEF MoveHint
<1>23. CASE FinishMove
  BY <1>23, Journals DEF FinishMove
<1>24. CASE PowerLoss
  BY <1>24 DEF PowerLoss, LoseRam
<1>25. CASE PowerLossInWrite
  BY <1>25, Journals DEF PowerLossInWrite, LoseRam
<1>26. CASE WriteJournalFails
  BY <1>26, Journals DEF WriteJournalFails
<1>27. CASE RenameFileFails
  BY <1>27 DEF RenameFileFails
<1>28. CASE RecoverFails
  BY <1>28 DEF RecoverFails
<1>29. CASE BackupFails
  BY <1>29 DEF BackupFails
<1>30. CASE MigrateCacheFails
  BY <1>30 DEF MigrateCacheFails
<1>31. CASE MigrateMarksFails
  BY <1>31 DEF MigrateMarksFails
<1>32. CASE MigrateMarksShort
  BY <1>32 DEF MigrateMarksShort
<1>33. CASE ClipsMoveFails
  BY <1>33 DEF ClipsMoveFails
<1>34. CASE Sleep
  BY <1>34 DEF Sleep, LoseRam
<1>35. ASSUME NEW p \in Paths, OpenBook(p)
      PROVE  JournalOK'
  BY <1>35 DEF OpenBook
<1>36. ASSUME NEW p \in Paths, NEW n \in Notes, AddBookmark(p, n)
      PROVE  JournalOK'
  BY <1>36 DEF AddBookmark, NewNote
<1>37. ASSUME NEW p \in Paths, NEW n \in Notes, AddClipping(p, n)
      PROVE  JournalOK'
  BY <1>37 DEF AddClipping, NewNote
<1>38. ASSUME NEW p \in Paths, NEW q \in Paths, ExternalMove(p, q)
      PROVE  JournalOK'
  BY <1>38 DEF ExternalMove
<1>39. ASSUME NEW p \in Paths, NEW q \in Paths, StartRestore(p, q)
      PROVE  JournalOK'
  BY <1>39 DEF StartRestore
<1>40. ASSUME NEW p \in Paths, NEW q \in Paths, NEW keep \in BOOLEAN, StartMove(p, q, keep)
      PROVE  JournalOK'
  BY <1>40 DEF StartMove
<1>41. CASE UNCHANGED vars
  BY <1>41 DEF vars
<1>42. QED
  BY ONLY [Next]_vars, <1>1, <1>2, <1>3, <1>4, <1>5, <1>6, <1>7, <1>8, <1>9, <1>10,
     <1>11, <1>12, <1>13, <1>14, <1>15, <1>16, <1>16a, <1>17, <1>18, <1>19, <1>20, <1>21,
     <1>22, <1>23, <1>24, <1>25, <1>26, <1>27, <1>28, <1>29, <1>30, <1>31, <1>32,
     <1>33, <1>34, <1>35, <1>36, <1>37, <1>38, <1>39, <1>40, <1>41
     DEF Next, Progress, Migrate, Failures, User

LEMMA ControlStep ==
  ASSUME JournalOK, ControlOK, CallOK, [Next]_vars
  PROVE  ControlOK'
<1> USE ConstantsAssumption DEF ControlOK, CallOK, Labels, Goto, Finish, card, lists, ctl,
   hist, flt
<1>1. CASE Boot
  BY <1>1 DEF Boot
<1>2. CASE Preflight
  BY <1>2, Calling DEF Preflight
<1>3. CASE WriteJournal
  BY <1>3 DEF WriteJournal, Calls
<1>4. CASE RenameFile
  BY <1>4 DEF RenameFile, Calls
<1>5. CASE Rollback
  BY <1>5, Calling DEF Rollback
<1>6. CASE DropJournal
  BY <1>6, Calling DEF DropJournal, NoJournal, Blank
<1>7. CASE RecoverPendingMove
  BY <1>7, Returns, Calling DEF RecoverPendingMove, NothingPending, NotRenamed, Refuse,
     BeginMigration, Ambiguous
<1>8. CASE BackupCache
  BY <1>8 DEF BackupCache
<1>9. CASE BackupMarks
  BY <1>9 DEF BackupMarks
<1>10. CASE BackupClips
  BY <1>10 DEF BackupClips
<1>11. CASE MarkBackedUp
  BY <1>11 DEF MarkBackedUp
<1>12. CASE MigrateCache
  BY <1>12, Returns, Calling DEF MigrateCache
<1>13. CASE MigrateMarks
  BY <1>13, StepFails, Calling DEF MigrateMarks
<1>14. CASE MigrateMarksDelete
  BY <1>14, StepFails, Calling DEF MigrateMarksDelete
<1>15. CASE MigrateClips
  BY <1>15 DEF MigrateClips
<1>16. CASE ClipsSwap
  BY <1>16, StepFails, Calling DEF ClipsSwap
<1>16a. CASE ClipsUndo
  BY <1>16a, StepFails, Calling DEF ClipsUndo
<1>17. CASE ClipsUnbak
  BY <1>17 DEF ClipsUnbak
<1>18. CASE ClipsAside
  BY <1>18 DEF ClipsAside
<1>19. CASE ClipsMove
  BY <1>19 DEF ClipsMove
<1>20. CASE MigrateRecents
  BY <1>20 DEF MigrateRecents
<1>21. CASE MigrateResume
  BY <1>21, Returns, Calling DEF MigrateResume
<1>22. CASE MoveHint
  BY <1>22, Returns, Calling DEF MoveHint
<1>23. CASE FinishMove
  BY <1>23, Returns, Calling DEF FinishMove, NoJournal, Blank
<1>24. CASE PowerLoss
  BY <1>24, Calling DEF PowerLoss, LoseRam
<1>25. CASE PowerLossInWrite
  BY <1>25, Calling DEF PowerLossInWrite, LoseRam, TornJournal, Blank
<1>26. CASE WriteJournalFails
  BY <1>26, Calling DEF WriteJournalFails, TornJournal, Blank
<1>27. CASE RenameFileFails
  BY <1>27 DEF RenameFileFails
<1>28. CASE RecoverFails
  BY <1>28, Returns, Calling DEF RecoverFails
<1>29. CASE BackupFails
  BY <1>29, Returns, Calling DEF BackupFails
<1>30. CASE MigrateCacheFails
  BY <1>30, StepFails, Calling DEF MigrateCacheFails
<1>31. CASE MigrateMarksFails
  BY <1>31, StepFails, Calling DEF MigrateMarksFails
<1>32. CASE MigrateMarksShort
  BY <1>32 DEF MigrateMarksShort
<1>33. CASE ClipsMoveFails
  BY <1>33, StepFails, Calling DEF ClipsMoveFails
<1>34. CASE Sleep
  BY <1>34, Calling DEF Sleep, LoseRam
<1>35. ASSUME NEW p \in Paths, OpenBook(p)
      PROVE  ControlOK'
  BY <1>35, Calling DEF OpenBook
<1>36. ASSUME NEW p \in Paths, NEW n \in Notes, AddBookmark(p, n)
      PROVE  ControlOK'
  BY <1>36, Calling DEF AddBookmark, NewNote
<1>37. ASSUME NEW p \in Paths, NEW n \in Notes, AddClipping(p, n)
      PROVE  ControlOK'
  BY <1>37, Calling DEF AddClipping, NewNote
<1>38. ASSUME NEW p \in Paths, NEW q \in Paths, ExternalMove(p, q)
      PROVE  ControlOK'
  BY <1>38, Calling DEF ExternalMove
<1>39. ASSUME NEW p \in Paths, NEW q \in Paths, StartRestore(p, q)
      PROVE  ControlOK'
  BY <1>39 DEF StartRestore, Calls
<1>40. ASSUME NEW p \in Paths, NEW q \in Paths, NEW keep \in BOOLEAN, StartMove(p, q, keep)
      PROVE  ControlOK'
  BY <1>40 DEF StartMove, Calls
<1>41. CASE UNCHANGED vars
  BY <1>41 DEF vars
<1>42. QED
  BY ONLY [Next]_vars, <1>1, <1>2, <1>3, <1>4, <1>5, <1>6, <1>7, <1>8, <1>9, <1>10,
     <1>11, <1>12, <1>13, <1>14, <1>15, <1>16, <1>16a, <1>17, <1>18, <1>19, <1>20, <1>21,
     <1>22, <1>23, <1>24, <1>25, <1>26, <1>27, <1>28, <1>29, <1>30, <1>31, <1>32,
     <1>33, <1>34, <1>35, <1>36, <1>37, <1>38, <1>39, <1>40, <1>41
     DEF Next, Progress, Migrate, Failures, User

\* What a fault can damage.
LEMMA Damages ==
  ASSUME CardOK, JournalOK, MigratingOK
  PROVE  /\ InBak \subseteq Notes
         /\ Migrating => /\ journal.from \in Paths /\ journal.to \in Paths /\ Moving \in Books
                         /\ marks[journal.from] \cup marks[journal.to] \subseteq Notes
<1>1. Migrating => /\ journal.from \in Paths /\ journal.to \in Paths /\ Moving \in Books
                   /\ marks[journal.from] \cup marks[journal.to] \subseteq Notes
  BY DEF CardOK, JournalOK, MigratingOK, Exists, Moving
<1>2. pc \in Swapping \cup Replacing => Migrating
  BY DEF Migrating, MoveLabels, AfterCache, AfterMarks, ClipLabels
<1>3. QED
  BY <1>1, <1>2 DEF InBak, CardOK

LEMMA HistoryStep ==
  ASSUME CardOK, ListsOK, JournalOK, MigratingOK, HistoryOK, [Next]_vars
  PROVE  HistoryOK'
<1> USE ConstantsAssumption, Damages DEF CardOK, HistoryOK, NoFault, card, lists, ctl, hist
<1>1. CASE Boot
  BY <1>1, Unharmed DEF Boot
<1>2. CASE Preflight
  BY <1>2, Unharmed DEF Preflight
<1>3. CASE WriteJournal
  BY <1>3, Unharmed DEF WriteJournal
<1>4. CASE RenameFile
  BY <1>4, Unharmed DEF RenameFile
<1>5. CASE Rollback
  BY <1>5, Unharmed, Harmed DEF Rollback
<1>6. CASE DropJournal
  BY <1>6, Unharmed, Harmed DEF DropJournal, NoJournal, Blank
<1>7. CASE RecoverPendingMove
  BY <1>7, Unharmed, Harmed DEF RecoverPendingMove, NothingPending, NotRenamed, Refuse,
     BeginMigration, Ambiguous
<1>8. CASE BackupCache
  BY <1>8, Unharmed DEF BackupCache
<1>9. CASE BackupMarks
  BY <1>9, Unharmed DEF BackupMarks
<1>10. CASE BackupClips
  BY <1>10, Unharmed DEF BackupClips
<1>11. CASE MarkBackedUp
  BY <1>11, Unharmed DEF MarkBackedUp
<1>12. CASE MigrateCache
  BY <1>12, Unharmed DEF MigrateCache
<1>13. CASE MigrateMarks
  BY <1>13, Unharmed DEF MigrateMarks
<1>14. CASE MigrateMarksDelete
  BY <1>14, Unharmed, Harmed DEF MigrateMarksDelete
<1>15. CASE MigrateClips
  BY <1>15, Unharmed DEF MigrateClips
<1>16. CASE ClipsSwap
  BY <1>16, Unharmed, Harmed DEF ClipsSwap
<1>16a. CASE ClipsUndo
  BY <1>16a, Unharmed, Harmed DEF ClipsUndo
<1>17. CASE ClipsUnbak
  BY <1>17, Unharmed, Harmed DEF ClipsUnbak
<1>18. CASE ClipsAside
  BY <1>18, Unharmed DEF ClipsAside
<1>19. CASE ClipsMove
  BY <1>19, Unharmed DEF ClipsMove
<1>20. CASE MigrateRecents
  BY <1>20, Unharmed, Harmed DEF MigrateRecents, ListsOK
<1>21. CASE MigrateResume
  BY <1>21, Unharmed, Harmed DEF MigrateResume, Migrating, MoveLabels, AfterCache, AfterMarks,
     AfterClips
<1>22. CASE MoveHint
  BY <1>22, Unharmed, Harmed DEF MoveHint
<1>23. CASE FinishMove
  BY <1>23, Unharmed, Harmed DEF FinishMove, NoJournal, Blank
<1>24. CASE PowerLoss
  BY <1>24, Harmed DEF PowerLoss, LoseRam
<1>25. CASE PowerLossInWrite
  BY <1>25, Harmed DEF PowerLossInWrite, LoseRam, TornJournal, Blank
<1>26. CASE WriteJournalFails
  BY <1>26, Harmed DEF WriteJournalFails, TornJournal, Blank
<1>27. CASE RenameFileFails
  BY <1>27, Harmed DEF RenameFileFails
<1>28. CASE RecoverFails
  BY <1>28, Harmed DEF RecoverFails
<1>29. CASE BackupFails
  BY <1>29, Harmed DEF BackupFails
<1>30. CASE MigrateCacheFails
  BY <1>30, Harmed DEF MigrateCacheFails, Migrating, MoveLabels
<1>31. CASE MigrateMarksFails
  BY <1>31, Harmed DEF MigrateMarksFails
<1>32. CASE MigrateMarksShort
  BY <1>32, Harmed DEF MigrateMarksShort, Migrating, MoveLabels, AfterCache
<1>33. CASE ClipsMoveFails
  BY <1>33, Harmed DEF ClipsMoveFails
<1>34. CASE Sleep
  BY <1>34, Unharmed DEF Sleep, LoseRam
<1>35. ASSUME NEW p \in Paths, OpenBook(p)
      PROVE  HistoryOK'
  BY <1>35, Unharmed DEF OpenBook
<1>36. ASSUME NEW p \in Paths, NEW n \in Notes, AddBookmark(p, n)
      PROVE  HistoryOK'
  BY <1>36, Unharmed DEF AddBookmark, NewNote
<1>37. ASSUME NEW p \in Paths, NEW n \in Notes, AddClipping(p, n)
      PROVE  HistoryOK'
  BY <1>37, Unharmed DEF AddClipping, NewNote
<1>38. ASSUME NEW p \in Paths, NEW q \in Paths, ExternalMove(p, q)
      PROVE  HistoryOK'
  BY <1>38, Unharmed DEF ExternalMove, Exists
<1>39. ASSUME NEW p \in Paths, NEW q \in Paths, StartRestore(p, q)
      PROVE  HistoryOK'
  BY <1>39, Unharmed DEF StartRestore
<1>40. ASSUME NEW p \in Paths, NEW q \in Paths, NEW keep \in BOOLEAN, StartMove(p, q, keep)
      PROVE  HistoryOK'
  BY <1>40, Unharmed DEF StartMove
<1>41. CASE UNCHANGED vars
  BY <1>41, Unharmed DEF vars
<1>42. QED
  BY ONLY [Next]_vars, <1>1, <1>2, <1>3, <1>4, <1>5, <1>6, <1>7, <1>8, <1>9, <1>10,
     <1>11, <1>12, <1>13, <1>14, <1>15, <1>16, <1>16a, <1>17, <1>18, <1>19, <1>20, <1>21,
     <1>22, <1>23, <1>24, <1>25, <1>26, <1>27, <1>28, <1>29, <1>30, <1>31, <1>32,
     <1>33, <1>34, <1>35, <1>36, <1>37, <1>38, <1>39, <1>40, <1>41
     DEF Next, Progress, Migrate, Failures, User

-----------------------------------------------------------------------------
(* The call, the journal and the files.                                    *)

LEMMA CallStep ==
  ASSUME ControlOK, CallOK, [Next]_vars
  PROVE  CallOK'
<1> USE ConstantsAssumption DEF ControlOK, CallOK, Goto, Finish, card, lists, ctl, hist, flt
<1>1. CASE Boot
  BY <1>1 DEF Boot
<1>2. CASE Preflight
  BY <1>2, Calling DEF Preflight
<1>3. CASE WriteJournal
  BY <1>3 DEF WriteJournal
<1>4. CASE RenameFile
  BY <1>4 DEF RenameFile
<1>5. CASE Rollback
  BY <1>5, Calling DEF Rollback
<1>6. CASE DropJournal
  BY <1>6, Calling DEF DropJournal
<1>7. CASE RecoverPendingMove
  BY <1>7, Returns, Calling DEF RecoverPendingMove, NothingPending, NotRenamed, Refuse,
     BeginMigration, Ambiguous
<1>8. CASE BackupCache
  BY <1>8 DEF BackupCache
<1>9. CASE BackupMarks
  BY <1>9 DEF BackupMarks
<1>10. CASE BackupClips
  BY <1>10 DEF BackupClips
<1>11. CASE MarkBackedUp
  BY <1>11 DEF MarkBackedUp
<1>12. CASE MigrateCache
  BY <1>12, Returns, Calling DEF MigrateCache
<1>13. CASE MigrateMarks
  BY <1>13, StepFails, Calling DEF MigrateMarks
<1>14. CASE MigrateMarksDelete
  BY <1>14, StepFails, Calling DEF MigrateMarksDelete
<1>15. CASE MigrateClips
  BY <1>15 DEF MigrateClips
<1>16. CASE ClipsSwap
  BY <1>16, StepFails, Calling DEF ClipsSwap
<1>16a. CASE ClipsUndo
  BY <1>16a, StepFails, Calling DEF ClipsUndo
<1>17. CASE ClipsUnbak
  BY <1>17 DEF ClipsUnbak
<1>18. CASE ClipsAside
  BY <1>18 DEF ClipsAside
<1>19. CASE ClipsMove
  BY <1>19 DEF ClipsMove
<1>20. CASE MigrateRecents
  BY <1>20 DEF MigrateRecents
<1>21. CASE MigrateResume
  BY <1>21, Returns, Calling DEF MigrateResume
<1>22. CASE MoveHint
  BY <1>22, Returns, Calling DEF MoveHint
<1>23. CASE FinishMove
  BY <1>23, Returns, Calling DEF FinishMove
<1>24. CASE PowerLoss
  BY <1>24, Calling DEF PowerLoss, LoseRam
<1>25. CASE PowerLossInWrite
  BY <1>25, Calling DEF PowerLossInWrite, LoseRam
<1>26. CASE WriteJournalFails
  BY <1>26, Calling DEF WriteJournalFails
<1>27. CASE RenameFileFails
  BY <1>27 DEF RenameFileFails
<1>28. CASE RecoverFails
  BY <1>28, Returns, Calling DEF RecoverFails
<1>29. CASE BackupFails
  BY <1>29, Returns, Calling DEF BackupFails
<1>30. CASE MigrateCacheFails
  BY <1>30, StepFails, Calling DEF MigrateCacheFails
<1>31. CASE MigrateMarksFails
  BY <1>31, StepFails, Calling DEF MigrateMarksFails
<1>32. CASE MigrateMarksShort
  BY <1>32 DEF MigrateMarksShort
<1>33. CASE ClipsMoveFails
  BY <1>33, StepFails, Calling DEF ClipsMoveFails
<1>34. CASE Sleep
  BY <1>34, Calling DEF Sleep, LoseRam
<1>35. ASSUME NEW p \in Paths, OpenBook(p)
      PROVE  CallOK'
  BY <1>35, Calling DEF OpenBook
<1>36. ASSUME NEW p \in Paths, NEW n \in Notes, AddBookmark(p, n)
      PROVE  CallOK'
  BY <1>36, Calling DEF AddBookmark, NewNote
<1>37. ASSUME NEW p \in Paths, NEW n \in Notes, AddClipping(p, n)
      PROVE  CallOK'
  BY <1>37, Calling DEF AddClipping, NewNote
<1>38. ASSUME NEW p \in Paths, NEW q \in Paths, ExternalMove(p, q)
      PROVE  CallOK'
  BY <1>38, Calling DEF ExternalMove
<1>39. ASSUME NEW p \in Paths, NEW q \in Paths, StartRestore(p, q)
      PROVE  CallOK'
  BY <1>39 DEF StartRestore
<1>40. ASSUME NEW p \in Paths, NEW q \in Paths, NEW keep \in BOOLEAN, StartMove(p, q, keep)
      PROVE  CallOK'
  BY <1>40 DEF StartMove
<1>41. CASE UNCHANGED vars
  BY <1>41 DEF vars
<1>42. QED
  BY ONLY [Next]_vars, <1>1, <1>2, <1>3, <1>4, <1>5, <1>6, <1>7, <1>8, <1>9, <1>10,
     <1>11, <1>12, <1>13, <1>14, <1>15, <1>16, <1>16a, <1>17, <1>18, <1>19, <1>20, <1>21,
     <1>22, <1>23, <1>24, <1>25, <1>26, <1>27, <1>28, <1>29, <1>30, <1>31, <1>32,
     <1>33, <1>34, <1>35, <1>36, <1>37, <1>38, <1>39, <1>40, <1>41
     DEF Next, Progress, Migrate, Failures, User

LEMMA FilesStep ==
  ASSUME CardOK, JournalOK, ControlOK, CallOK, FilesOK, [Next]_vars
  PROVE  FilesOK'
<1> USE ConstantsAssumption DEF CardOK, JournalOK, ControlOK, CallOK, FilesOK, Exists,
   Pending, Goto, Finish, card, lists, ctl, hist, flt
<1>1. CASE Boot
  BY <1>1 DEF Boot
<1>2. CASE Preflight
  BY <1>2, Calling DEF Preflight
<1>3. CASE WriteJournal
  <2>1. CASE op.call = "movePre"
    BY <1>3, <2>1 DEF WriteJournal
  <2>2. CASE op.call = "restorePre"
    <3>1. /\ op' = [op EXCEPT !.call = "restorePost"] /\ file' = file /\ pc' = "recover"
          /\ journal' = [st |-> "ok", from |-> op.from, to |-> op.to, keep |-> op.keep,
                         recovery |-> TRUE, backedUp |-> FALSE]
      BY <1>3, <2>2 DEF WriteJournal
    <3>2. op'.call = "restorePost" /\ op'.from = op.from /\ op'.to = op.to
      BY <3>1
    <3>3. QED
      BY <1>3, <2>2, <3>1, <3>2
  <2>3. QED
    BY <1>3, <2>1, <2>2 DEF WriteJournal
<1>4. CASE RenameFile
  BY <1>4 DEF RenameFile
<1>5. CASE Rollback
  BY <1>5, Calling DEF Rollback
<1>6. CASE DropJournal
  BY <1>6, Calling, Journals DEF DropJournal
<1>7. CASE RecoverPendingMove
  BY <1>7, Returns, Calling, Journals DEF RecoverPendingMove, NothingPending, NotRenamed,
     Refuse, BeginMigration, Ambiguous
<1>8. CASE BackupCache
  BY <1>8 DEF BackupCache
<1>9. CASE BackupMarks
  BY <1>9 DEF BackupMarks
<1>10. CASE BackupClips
  BY <1>10 DEF BackupClips
<1>11. CASE MarkBackedUp
  BY <1>11 DEF MarkBackedUp
<1>12. CASE MigrateCache
  BY <1>12, Returns, Calling DEF MigrateCache
<1>13. CASE MigrateMarks
  BY <1>13, StepFails, Calling DEF MigrateMarks
<1>14. CASE MigrateMarksDelete
  BY <1>14, StepFails, Calling DEF MigrateMarksDelete
<1>15. CASE MigrateClips
  BY <1>15 DEF MigrateClips
<1>16. CASE ClipsSwap
  BY <1>16, StepFails, Calling DEF ClipsSwap
<1>16a. CASE ClipsUndo
  BY <1>16a, StepFails, Calling DEF ClipsUndo
<1>17. CASE ClipsUnbak
  BY <1>17 DEF ClipsUnbak
<1>18. CASE ClipsAside
  BY <1>18 DEF ClipsAside
<1>19. CASE ClipsMove
  BY <1>19 DEF ClipsMove
<1>20. CASE MigrateRecents
  BY <1>20 DEF MigrateRecents
<1>21. CASE MigrateResume
  BY <1>21, Returns, Calling DEF MigrateResume
<1>22. CASE MoveHint
  BY <1>22, Returns, Calling DEF MoveHint
<1>23. CASE FinishMove
  BY <1>23, Returns, Calling, Journals DEF FinishMove
<1>24. CASE PowerLoss
  BY <1>24, Calling DEF PowerLoss, LoseRam
<1>25. CASE PowerLossInWrite
  BY <1>25, Calling, Journals DEF PowerLossInWrite, LoseRam
<1>26. CASE WriteJournalFails
  BY <1>26, Calling, Journals DEF WriteJournalFails
<1>27. CASE RenameFileFails
  BY <1>27 DEF RenameFileFails
<1>28. CASE RecoverFails
  BY <1>28, Returns, Calling DEF RecoverFails
<1>29. CASE BackupFails
  BY <1>29, Returns, Calling DEF BackupFails
<1>30. CASE MigrateCacheFails
  BY <1>30, StepFails, Calling DEF MigrateCacheFails
<1>31. CASE MigrateMarksFails
  BY <1>31, StepFails, Calling DEF MigrateMarksFails
<1>32. CASE MigrateMarksShort
  BY <1>32 DEF MigrateMarksShort
<1>33. CASE ClipsMoveFails
  BY <1>33, StepFails, Calling DEF ClipsMoveFails
<1>34. CASE Sleep
  BY <1>34, Calling DEF Sleep, LoseRam
<1>35. ASSUME NEW p \in Paths, OpenBook(p)
      PROVE  FilesOK'
  BY <1>35, Calling DEF OpenBook
<1>36. ASSUME NEW p \in Paths, NEW n \in Notes, AddBookmark(p, n)
      PROVE  FilesOK'
  BY <1>36, Calling DEF AddBookmark, NewNote
<1>37. ASSUME NEW p \in Paths, NEW n \in Notes, AddClipping(p, n)
      PROVE  FilesOK'
  BY <1>37, Calling DEF AddClipping, NewNote
<1>38. ASSUME NEW p \in Paths, NEW q \in Paths, ExternalMove(p, q)
      PROVE  FilesOK'
  BY <1>38, Calling DEF ExternalMove
<1>39. ASSUME NEW p \in Paths, NEW q \in Paths, StartRestore(p, q)
      PROVE  FilesOK'
  BY <1>39 DEF StartRestore
<1>40. ASSUME NEW p \in Paths, NEW q \in Paths, NEW keep \in BOOLEAN, StartMove(p, q, keep)
      PROVE  FilesOK'
  BY <1>40 DEF StartMove
<1>41. CASE UNCHANGED vars
  BY <1>41 DEF vars
<1>42. QED
  BY ONLY [Next]_vars, <1>1, <1>2, <1>3, <1>4, <1>5, <1>6, <1>7, <1>8, <1>9, <1>10,
     <1>11, <1>12, <1>13, <1>14, <1>15, <1>16, <1>16a, <1>17, <1>18, <1>19, <1>20, <1>21,
     <1>22, <1>23, <1>24, <1>25, <1>26, <1>27, <1>28, <1>29, <1>30, <1>31, <1>32,
     <1>33, <1>34, <1>35, <1>36, <1>37, <1>38, <1>39, <1>40, <1>41
     DEF Next, Progress, Migrate, Failures, User

\* A file that changes its path leaves the old one empty.
LEMMA OnePlaceStep ==
  ASSUME CardOK, CallOK, FilesOK, OnePlace, [Next]_vars
  PROVE  OnePlace'
<1>1. CASE UNCHANGED file
  BY <1>1 DEF OnePlace, Exists
<1>2. ASSUME NEW p \in Paths, NEW q \in Paths, file[q] = NoBook, p # q,
             file' = [file EXCEPT ![q] = file[p], ![p] = NoBook]
      PROVE  OnePlace'
  <2>1. \A x \in Paths : file'[x] = IF x = p THEN NoBook ELSE IF x = q THEN file[p] ELSE file[x]
    BY <1>2 DEF CardOK
  <2>2. QED
    BY <2>1 DEF OnePlace, Exists
<1>3. CASE RenameFile
  BY <1>2, <1>3, Calling DEF RenameFile, CallOK, FilesOK, Exists
<1>4. CASE Rollback
  <2>1. op.from \in Paths /\ op.to \in Paths /\ op.from # op.to
    BY <1>4 DEF Rollback, CallOK
  <2>2. QED
    BY <1>1, <1>2, <1>4, <2>1 DEF Rollback, Exists
<1>5. ASSUME NEW p \in Paths, NEW q \in Paths, ExternalMove(p, q)
      PROVE  OnePlace'
  BY <1>2, <1>5 DEF ExternalMove, Exists
<1>6. QED
  BY <1>1, <1>3, <1>4, <1>5
     DEF Next, Progress, Migrate, Failures, User, vars, card, Boot, Preflight, WriteJournal,
     DropJournal, RecoverPendingMove, NothingPending, NotRenamed, Refuse, BeginMigration,
     BackupCache, BackupMarks, BackupClips, MarkBackedUp, MigrateCache, MigrateMarks,
     MigrateMarksDelete, MigrateClips, ClipsSwap, ClipsUndo, ClipsUnbak, ClipsAside, ClipsMove,
     MigrateRecents, MigrateResume, MoveHint, FinishMove, PowerLoss, PowerLossInWrite,
     WriteJournalFails, RenameFileFails, RecoverFails, BackupFails, MigrateCacheFails,
     MigrateMarksFails, MigrateMarksShort, ClipsMoveFails, Sleep, OpenBook, AddBookmark,
     AddClipping, StartRestore, StartMove

LEMMA MigratingStep ==
  ASSUME CardOK, JournalOK, ControlOK, CallOK, FilesOK, MigratingOK, [Next]_vars
  PROVE  MigratingOK'
<1> USE ConstantsAssumption DEF CardOK, JournalOK, ControlOK, CallOK, FilesOK, MigratingOK,
   Migrating, BackupLabels, MoveLabels, AfterCache, AfterMarks, AfterClips, ClipLabels,
   Exists, Pending, Goto, Finish, card, lists, ctl, hist, flt
<1>1. CASE Boot
  BY <1>1 DEF Boot
<1>2. CASE Preflight
  BY <1>2, Calling DEF Preflight
<1>3. CASE WriteJournal
  <2>1. op.call = "restorePre" => ~Exists(op.from)
    BY DEF FilesOK
  <2>2. /\ pc = "writeJournal" /\ file' = file /\ pc' \in {"rename", "recover"}
        /\ journal'.recovery => op.call = "restorePre"
        /\ journal'.from = op.from
    BY ONLY <1>3 DEF WriteJournal, card
  <2>3. ~Migrating' /\ pc' \notin BackupLabels \cup MoveLabels \cup {"hint", "done"}
    BY ONLY <2>2 DEF Migrating, BackupLabels, MoveLabels, AfterCache, AfterMarks,
       AfterClips, ClipLabels
  <2>4. ~(journal'.recovery /\ file'[journal'.from] # NoBook)
    BY ONLY <2>1, <2>2 DEF Exists
  <2>5. QED
    BY ONLY <2>3, <2>4 DEF MigratingOK, Exists
<1>4. CASE RenameFile
  BY <1>4 DEF RenameFile
<1>5. CASE Rollback
  BY <1>5, Calling DEF Rollback
<1>6. CASE DropJournal
  BY <1>6, Calling, Journals DEF DropJournal
<1>7. CASE RecoverPendingMove
  BY <1>7, Returns, Calling, Journals DEF RecoverPendingMove, NothingPending, NotRenamed,
     Refuse, BeginMigration, Ambiguous
<1>8. CASE BackupCache
  BY <1>8 DEF BackupCache
<1>9. CASE BackupMarks
  BY <1>9 DEF BackupMarks
<1>10. CASE BackupClips
  BY <1>10 DEF BackupClips
<1>11. CASE MarkBackedUp
  BY <1>11 DEF MarkBackedUp
<1>12. CASE MigrateCache
  BY <1>12, Returns, Calling DEF MigrateCache
<1>13. CASE MigrateMarks
  BY <1>13, StepFails, Calling DEF MigrateMarks
<1>14. CASE MigrateMarksDelete
  BY <1>14, StepFails, Calling DEF MigrateMarksDelete
<1>15. CASE MigrateClips
  BY <1>15 DEF MigrateClips
<1>16. CASE ClipsSwap
  BY <1>16, StepFails, Calling DEF ClipsSwap
<1>16a. CASE ClipsUndo
  BY <1>16a, StepFails, Calling DEF ClipsUndo
<1>17. CASE ClipsUnbak
  BY <1>17 DEF ClipsUnbak
<1>18. CASE ClipsAside
  BY <1>18 DEF ClipsAside
<1>19. CASE ClipsMove
  BY <1>19 DEF ClipsMove
<1>20. CASE MigrateRecents
  BY <1>20 DEF MigrateRecents
<1>21. CASE MigrateResume
  BY <1>21, Returns, Calling DEF MigrateResume
<1>22. CASE MoveHint
  BY <1>22, Returns, Calling DEF MoveHint
<1>23. CASE FinishMove
  BY <1>23, Returns, Calling, Journals DEF FinishMove
<1>24. CASE PowerLoss
  BY <1>24, Calling DEF PowerLoss, LoseRam
<1>25. CASE PowerLossInWrite
  BY <1>25, Calling, Journals DEF PowerLossInWrite, LoseRam
<1>26. CASE WriteJournalFails
  BY <1>26, Calling, Journals DEF WriteJournalFails
<1>27. CASE RenameFileFails
  BY <1>27 DEF RenameFileFails
<1>28. CASE RecoverFails
  BY <1>28, Returns, Calling DEF RecoverFails
<1>29. CASE BackupFails
  BY <1>29, Returns, Calling DEF BackupFails
<1>30. CASE MigrateCacheFails
  BY <1>30, StepFails, Calling DEF MigrateCacheFails
<1>31. CASE MigrateMarksFails
  BY <1>31, StepFails, Calling DEF MigrateMarksFails
<1>32. CASE MigrateMarksShort
  BY <1>32 DEF MigrateMarksShort
<1>33. CASE ClipsMoveFails
  BY <1>33, StepFails, Calling DEF ClipsMoveFails
<1>34. CASE Sleep
  BY <1>34, Calling DEF Sleep, LoseRam
<1>35. ASSUME NEW p \in Paths, OpenBook(p)
      PROVE  MigratingOK'
  BY <1>35, Calling DEF OpenBook
<1>36. ASSUME NEW p \in Paths, NEW n \in Notes, AddBookmark(p, n)
      PROVE  MigratingOK'
  BY <1>36, Calling DEF AddBookmark, NewNote
<1>37. ASSUME NEW p \in Paths, NEW n \in Notes, AddClipping(p, n)
      PROVE  MigratingOK'
  BY <1>37, Calling DEF AddClipping, NewNote
<1>38. ASSUME NEW p \in Paths, NEW q \in Paths, ExternalMove(p, q)
      PROVE  MigratingOK'
  BY <1>38, Calling DEF ExternalMove
<1>39. ASSUME NEW p \in Paths, NEW q \in Paths, StartRestore(p, q)
      PROVE  MigratingOK'
  BY <1>39 DEF StartRestore
<1>40. ASSUME NEW p \in Paths, NEW q \in Paths, NEW keep \in BOOLEAN, StartMove(p, q, keep)
      PROVE  MigratingOK'
  BY <1>40 DEF StartMove
<1>41. CASE UNCHANGED vars
  BY <1>41 DEF vars
<1>42. QED
  BY ONLY [Next]_vars, <1>1, <1>2, <1>3, <1>4, <1>5, <1>6, <1>7, <1>8, <1>9, <1>10,
     <1>11, <1>12, <1>13, <1>14, <1>15, <1>16, <1>16a, <1>17, <1>18, <1>19, <1>20, <1>21,
     <1>22, <1>23, <1>24, <1>25, <1>26, <1>27, <1>28, <1>29, <1>30, <1>31, <1>32,
     <1>33, <1>34, <1>35, <1>36, <1>37, <1>38, <1>39, <1>40, <1>41
     DEF Next, Progress, Migrate, Failures, User

LEMMA MovedOutStep ==
  ASSUME CardOK, ListsOK, JournalOK, ControlOK, CallOK, FilesOK, MigratingOK, MovedOut, [Next]_vars
  PROVE  MovedOut'
<1> USE ConstantsAssumption DEF CardOK, ListsOK, JournalOK, ControlOK, CallOK, FilesOK,
   MigratingOK, MovedOut, Migrating, BackupLabels, MoveLabels, AfterCache, AfterMarks,
   AfterClips, ClipLabels, Exists, Pending, Goto, Finish, NoFault, Fault, card, lists, ctl,
   hist, flt
<1>1. CASE Boot
  BY <1>1, Calling DEF Boot
<1>2. CASE Preflight
  BY <1>2, Calling DEF Preflight
<1>3. CASE WriteJournal
  BY <1>3 DEF WriteJournal
<1>4. CASE RenameFile
  BY <1>4 DEF RenameFile
<1>5. CASE Rollback
  BY <1>5, Calling DEF Rollback
<1>6. CASE DropJournal
  BY <1>6, Calling, Journals DEF DropJournal
<1>7. CASE RecoverPendingMove
  BY <1>7, Returns, Calling, Journals DEF RecoverPendingMove, NothingPending, NotRenamed,
     Refuse, BeginMigration, Ambiguous
<1>8. CASE BackupCache
  BY <1>8 DEF BackupCache
<1>9. CASE BackupMarks
  BY <1>9 DEF BackupMarks
<1>10. CASE BackupClips
  BY <1>10 DEF BackupClips
<1>11. CASE MarkBackedUp
  BY <1>11 DEF MarkBackedUp
<1>12. CASE MigrateCache
  BY <1>12, Returns, Calling DEF MigrateCache
<1>13. CASE MigrateMarks
  BY <1>13, StepFails, Calling DEF MigrateMarks
<1>14. CASE MigrateMarksDelete
  <2>1. CASE pc' = "clips" /\ marks' = [marks EXCEPT ![journal.from] = {}] /\ ok' = ok
    BY <1>14, <2>1 DEF MigrateMarksDelete
  <2>2. CASE Fault({}) /\ StepFailed("clips") /\ UNCHANGED marks
    <3>1. pc' \in {"clips", "rollback", "idle"} /\ (pc' = "clips" => ok' = FALSE)
      BY <2>2, StepFails
    <3>2. QED
      BY <1>14, <2>2, <3>1 DEF MigrateMarksDelete
  <2>3. QED
    BY <1>14, <2>1, <2>2 DEF MigrateMarksDelete
<1>15. CASE MigrateClips
  BY <1>15 DEF MigrateClips
<1>16. CASE ClipsSwap
  <2>1. CASE pc' = "clipUnbak" /\ ok' = ok /\ NoFault
    BY <1>16, <2>1 DEF ClipsSwap
  <2>2. CASE pc' = "clipUndo" /\ ok' = ok /\ Fault({})
    BY <1>16, <2>2 DEF ClipsSwap
  <2>3. QED
    BY <1>16, <2>1, <2>2 DEF ClipsSwap
<1>16a. CASE ClipsUndo
  <2>1. pc' \in {"recents", "rollback", "idle"} /\ (pc' = "recents" => ok' = FALSE)
    BY <1>16a, StepFails DEF ClipsUndo
  <2>2. UNCHANGED <<file, cache, marks, marksTorn, lists, journal>> /\ harm \subseteq harm'
    BY <1>16a DEF ClipsUndo
  <2>3. QED
    BY ONLY <1>16a, <2>1, <2>2, MovedOut DEF ClipsUndo, MovedOut, AfterCache, AfterMarks,
       AfterClips, ClipLabels
<1>17. CASE ClipsUnbak
  BY <1>17 DEF ClipsUnbak
<1>18. CASE ClipsAside
  BY <1>18 DEF ClipsAside
<1>19. CASE ClipsMove
  BY <1>19 DEF ClipsMove
<1>20. CASE MigrateRecents
  BY <1>20 DEF MigrateRecents
<1>21. CASE MigrateResume
  BY <1>21, Returns, Calling DEF MigrateResume
<1>22. CASE MoveHint
  BY <1>22, Returns, Calling DEF MoveHint
<1>23. CASE FinishMove
  BY <1>23, Returns, Calling, Journals DEF FinishMove
<1>24. CASE PowerLoss
  BY <1>24, Calling DEF PowerLoss, LoseRam
<1>25. CASE PowerLossInWrite
  BY <1>25, Calling, Journals DEF PowerLossInWrite, LoseRam
<1>26. CASE WriteJournalFails
  BY <1>26, Calling, Journals DEF WriteJournalFails
<1>27. CASE RenameFileFails
  BY <1>27 DEF RenameFileFails
<1>28. CASE RecoverFails
  BY <1>28, Returns, Calling DEF RecoverFails
<1>29. CASE BackupFails
  BY <1>29, Returns, Calling DEF BackupFails
<1>30. CASE MigrateCacheFails
  <2>1. /\ pc' \in {"marks", "rollback", "idle"}
        /\ pc' = "marks" => ok' = FALSE /\ {file[journal.to], journal.to} \subseteq harm'
    BY <1>30, StepFails DEF MigrateCacheFails, Moving
  <2>2. QED
    BY <1>30, <2>1 DEF MigrateCacheFails
<1>31. CASE MigrateMarksFails
  BY <1>31, StepFails, Calling DEF MigrateMarksFails
<1>32. CASE MigrateMarksShort
  BY <1>32 DEF MigrateMarksShort
<1>33. CASE ClipsMoveFails
  BY <1>33, StepFails, Calling DEF ClipsMoveFails
<1>34. CASE Sleep
  BY <1>34, Calling DEF Sleep, LoseRam
<1>35. ASSUME NEW p \in Paths, OpenBook(p)
      PROVE  MovedOut'
  BY <1>35, Calling DEF OpenBook
<1>36. ASSUME NEW p \in Paths, NEW n \in Notes, AddBookmark(p, n)
      PROVE  MovedOut'
  BY <1>36, Calling DEF AddBookmark, NewNote
<1>37. ASSUME NEW p \in Paths, NEW n \in Notes, AddClipping(p, n)
      PROVE  MovedOut'
  BY <1>37, Calling DEF AddClipping, NewNote
<1>38. ASSUME NEW p \in Paths, NEW q \in Paths, ExternalMove(p, q)
      PROVE  MovedOut'
  BY <1>38, Calling DEF ExternalMove
<1>39. ASSUME NEW p \in Paths, NEW q \in Paths, StartRestore(p, q)
      PROVE  MovedOut'
  BY <1>39 DEF StartRestore
<1>40. ASSUME NEW p \in Paths, NEW q \in Paths, NEW keep \in BOOLEAN, StartMove(p, q, keep)
      PROVE  MovedOut'
  BY <1>40 DEF StartMove
<1>41. CASE UNCHANGED vars
  BY <1>41 DEF vars
<1>42. QED
  BY ONLY [Next]_vars, <1>1, <1>2, <1>3, <1>4, <1>5, <1>6, <1>7, <1>8, <1>9, <1>10,
     <1>11, <1>12, <1>13, <1>14, <1>15, <1>16, <1>16a, <1>17, <1>18, <1>19, <1>20, <1>21,
     <1>22, <1>23, <1>24, <1>25, <1>26, <1>27, <1>28, <1>29, <1>30, <1>31, <1>32,
     <1>33, <1>34, <1>35, <1>36, <1>37, <1>38, <1>39, <1>40, <1>41
     DEF Next, Progress, Migrate, Failures, User

LEMMA SettledStep ==
  ASSUME CardOK, ListsOK, JournalOK, ControlOK, CallOK, FilesOK, MigratingOK, MovedOut, Settled, [Next]_vars
  PROVE  Settled'
<1> USE ConstantsAssumption DEF CardOK, ListsOK, JournalOK, ControlOK, CallOK, FilesOK,
   MigratingOK, MovedOut, Settled, Emptied, Migrating, BackupLabels, MoveLabels, AfterCache,
   AfterMarks, AfterClips, ClipLabels, Exists, Pending, Goto, Finish, NoFault, Fault, card,
   lists, ctl, hist, flt
<1>1. CASE Boot
  BY <1>1, Calling DEF Boot
<1>2. CASE Preflight
  BY <1>2, Calling DEF Preflight
<1>3. CASE WriteJournal
  BY <1>3 DEF WriteJournal
<1>4. CASE RenameFile
  BY <1>4 DEF RenameFile
<1>5. CASE Rollback
  BY <1>5, Calling DEF Rollback
<1>6. CASE DropJournal
  BY <1>6, Calling, Journals DEF DropJournal
<1>7. CASE RecoverPendingMove
  BY <1>7, Returns, Calling, Journals DEF RecoverPendingMove, NothingPending, NotRenamed,
     Refuse, BeginMigration, Ambiguous
<1>8. CASE BackupCache
  BY <1>8 DEF BackupCache
<1>9. CASE BackupMarks
  BY <1>9 DEF BackupMarks
<1>10. CASE BackupClips
  BY <1>10 DEF BackupClips
<1>11. CASE MarkBackedUp
  BY <1>11 DEF MarkBackedUp
<1>12. CASE MigrateCache
  BY <1>12, Returns, Calling DEF MigrateCache
<1>13. CASE MigrateMarks
  BY <1>13, StepFails, Calling DEF MigrateMarks
<1>14. CASE MigrateMarksDelete
  BY <1>14, StepFails, Calling DEF MigrateMarksDelete
<1>15. CASE MigrateClips
  BY <1>15 DEF MigrateClips
<1>16. CASE ClipsSwap
  BY <1>16, StepFails, Calling DEF ClipsSwap
<1>16a. CASE ClipsUndo
  BY <1>16a, StepFails, Calling DEF ClipsUndo
<1>17. CASE ClipsUnbak
  BY <1>17 DEF ClipsUnbak
<1>18. CASE ClipsAside
  BY <1>18 DEF ClipsAside
<1>19. CASE ClipsMove
  BY <1>19 DEF ClipsMove
<1>20. CASE MigrateRecents
  BY <1>20 DEF MigrateRecents
<1>21. CASE MigrateResume
  BY <1>21, Returns, Calling DEF MigrateResume
<1>22. CASE MoveHint
  BY <1>22, Returns, Calling DEF MoveHint
<1>23. CASE FinishMove
  BY <1>23, Returns, Calling, Journals DEF FinishMove
<1>24. CASE PowerLoss
  BY <1>24, Calling DEF PowerLoss, LoseRam
<1>25. CASE PowerLossInWrite
  BY <1>25, Calling, Journals DEF PowerLossInWrite, LoseRam
<1>26. CASE WriteJournalFails
  BY <1>26, Calling, Journals DEF WriteJournalFails
<1>27. CASE RenameFileFails
  BY <1>27 DEF RenameFileFails
<1>28. CASE RecoverFails
  BY <1>28, Returns, Calling DEF RecoverFails
<1>29. CASE BackupFails
  BY <1>29, Returns, Calling DEF BackupFails
<1>30. CASE MigrateCacheFails
  BY <1>30, StepFails, Calling DEF MigrateCacheFails
<1>31. CASE MigrateMarksFails
  BY <1>31, StepFails, Calling DEF MigrateMarksFails
<1>32. CASE MigrateMarksShort
  BY <1>32 DEF MigrateMarksShort
<1>33. CASE ClipsMoveFails
  BY <1>33, StepFails, Calling DEF ClipsMoveFails
<1>34. CASE Sleep
  BY <1>34, Calling DEF Sleep, LoseRam
<1>35. ASSUME NEW p \in Paths, OpenBook(p)
      PROVE  Settled'
  BY <1>35, Calling DEF OpenBook
<1>36. ASSUME NEW p \in Paths, NEW n \in Notes, AddBookmark(p, n)
      PROVE  Settled'
  BY <1>36, Calling DEF AddBookmark, NewNote
<1>37. ASSUME NEW p \in Paths, NEW n \in Notes, AddClipping(p, n)
      PROVE  Settled'
  BY <1>37, Calling DEF AddClipping, NewNote
<1>38. ASSUME NEW p \in Paths, NEW q \in Paths, ExternalMove(p, q)
      PROVE  Settled'
  BY <1>38, Calling DEF ExternalMove
<1>39. ASSUME NEW p \in Paths, NEW q \in Paths, StartRestore(p, q)
      PROVE  Settled'
  BY <1>39 DEF StartRestore
<1>40. ASSUME NEW p \in Paths, NEW q \in Paths, NEW keep \in BOOLEAN, StartMove(p, q, keep)
      PROVE  Settled'
  BY <1>40 DEF StartMove
<1>41. CASE UNCHANGED vars
  BY <1>41 DEF vars
<1>42. QED
  BY ONLY [Next]_vars, <1>1, <1>2, <1>3, <1>4, <1>5, <1>6, <1>7, <1>8, <1>9, <1>10,
     <1>11, <1>12, <1>13, <1>14, <1>15, <1>16, <1>16a, <1>17, <1>18, <1>19, <1>20, <1>21,
     <1>22, <1>23, <1>24, <1>25, <1>26, <1>27, <1>28, <1>29, <1>30, <1>31, <1>32,
     <1>33, <1>34, <1>35, <1>36, <1>37, <1>38, <1>39, <1>40, <1>41
     DEF Next, Progress, Migrate, Failures, User

\* A migration past the cache step goes on, or stops.
LEMMA FreshAhead ==
  ASSUME FilesOK, MovedOut, pc \in AfterCache, UNCHANGED <<file, cache>>, harm \subseteq harm',
         pc' \in AfterCache \cup {"rollback", "idle"},
         pc' = "rollback" => op' = op /\ op.call = "movePost"
  PROVE  Fresh'
<1>1. pc' \notin {"writeJournal", "rename", "recover", "cache"}
  BY DEF AfterCache, AfterMarks, AfterClips, ClipLabels
<1>2. pc' = "rollback" => cache[op.from] = NoBook \/ file[op.to] \in harm
  BY DEF FilesOK, MovedOut, AfterCache, AfterMarks, AfterClips, ClipLabels
<1>3. QED
  BY <1>1, <1>2 DEF Fresh

LEMMA FreshStep ==
  ASSUME CardOK, ListsOK, JournalOK, ControlOK, CallOK, FilesOK, MigratingOK, MovedOut, Fresh, [Next]_vars
  PROVE  Fresh'
<1> USE ConstantsAssumption DEF CardOK, ListsOK, JournalOK, ControlOK, CallOK, FilesOK,
   MigratingOK, MovedOut, Fresh, HasPriorState, Migrating, BackupLabels, MoveLabels,
   AfterCache, AfterMarks, AfterClips, ClipLabels, Exists, Pending, Goto, Finish, NoFault,
   Fault, card, lists, ctl, hist, flt
<1>1. CASE Boot
  BY <1>1, Calling DEF Boot
<1>2. CASE Preflight
  BY <1>2, Calling DEF Preflight
<1>3. CASE WriteJournal
  BY <1>3 DEF WriteJournal
<1>4. CASE RenameFile
  BY <1>4 DEF RenameFile
<1>5. CASE Rollback
  BY <1>5, Calling DEF Rollback
<1>6. CASE DropJournal
  BY <1>6, Calling, Journals DEF DropJournal
<1>7. CASE RecoverPendingMove
  BY <1>7, Returns, Calling, Journals DEF RecoverPendingMove, NothingPending, NotRenamed,
     Refuse, BeginMigration, Ambiguous
<1>8. CASE BackupCache
  BY <1>8 DEF BackupCache
<1>9. CASE BackupMarks
  BY <1>9 DEF BackupMarks
<1>10. CASE BackupClips
  BY <1>10 DEF BackupClips
<1>11. CASE MarkBackedUp
  BY <1>11 DEF MarkBackedUp
<1>12. CASE MigrateCache
  BY <1>12, Returns, Calling DEF MigrateCache
<1>13. CASE MigrateMarks
  <2>1. /\ pc \in AfterCache /\ UNCHANGED <<file, cache>> /\ harm \subseteq harm'
        /\ pc' \in AfterCache \cup {"rollback", "idle"}
        /\ pc' = "rollback" => op' = op /\ op.call = "movePost"
    BY ONLY <1>13, StepFails
       DEF MigrateMarks, NoFault, Fault, flt, Goto, hist,
           AfterCache, AfterMarks, AfterClips, ClipLabels
  <2>2. QED
    BY <2>1, FreshAhead
<1>14. CASE MigrateMarksDelete
  <2>1. /\ pc \in AfterCache /\ UNCHANGED <<file, cache>> /\ harm \subseteq harm'
        /\ pc' \in AfterCache \cup {"rollback", "idle"}
        /\ pc' = "rollback" => op' = op /\ op.call = "movePost"
    BY ONLY <1>14, StepFails
       DEF MigrateMarksDelete, NoFault, Fault, flt, Goto, hist,
           AfterCache, AfterMarks, AfterClips, ClipLabels
  <2>2. QED
    BY <2>1, FreshAhead
<1>15. CASE MigrateClips
  BY <1>15 DEF MigrateClips
<1>16. CASE ClipsSwap
  <2>1. /\ pc \in AfterCache /\ UNCHANGED <<file, cache>> /\ harm \subseteq harm'
        /\ pc' \in AfterCache \cup {"rollback", "idle"}
        /\ pc' = "rollback" => op' = op /\ op.call = "movePost"
    BY ONLY <1>16, StepFails
       DEF ClipsSwap, NoFault, Fault, flt, Goto, hist,
           AfterCache, AfterMarks, AfterClips, ClipLabels
  <2>2. QED
    BY <2>1, FreshAhead
<1>16a. CASE ClipsUndo
  <2>1. /\ pc \in AfterCache /\ UNCHANGED <<file, cache>> /\ harm \subseteq harm'
        /\ pc' \in AfterCache \cup {"rollback", "idle"}
        /\ pc' = "rollback" => op' = op /\ op.call = "movePost"
    BY ONLY <1>16a, StepFails
       DEF ClipsUndo, NoFault, Fault, flt, Goto, hist,
           AfterCache, AfterMarks, AfterClips, ClipLabels
  <2>2. QED
    BY <2>1, FreshAhead
<1>17. CASE ClipsUnbak
  BY <1>17 DEF ClipsUnbak
<1>18. CASE ClipsAside
  BY <1>18 DEF ClipsAside
<1>19. CASE ClipsMove
  BY <1>19 DEF ClipsMove
<1>20. CASE MigrateRecents
  BY <1>20 DEF MigrateRecents
<1>21. CASE MigrateResume
  <2>1. /\ pc \in AfterCache /\ UNCHANGED <<file, cache>> /\ harm \subseteq harm'
        /\ pc' \in AfterCache \cup {"rollback", "idle"}
        /\ pc' = "rollback" => op' = op /\ op.call = "movePost"
    BY ONLY <1>21, Returns
       DEF MigrateResume, NoFault, Fault, flt, Goto, card, AfterCache, AfterMarks,
          AfterClips
  <2>2. QED
    BY <2>1, FreshAhead
<1>22. CASE MoveHint
  <2>1. /\ pc \in AfterCache /\ UNCHANGED <<file, cache>> /\ harm \subseteq harm'
        /\ pc' \in AfterCache \cup {"rollback", "idle"}
        /\ pc' = "rollback" => op' = op /\ op.call = "movePost"
    BY ONLY <1>22, Returns
       DEF MoveHint, NoFault, Fault, flt, Goto, card, hist,
           AfterCache, AfterMarks, AfterClips, ClipLabels
  <2>2. QED
    BY <2>1, FreshAhead
<1>23. CASE FinishMove
  BY <1>23, Returns, Calling, Journals DEF FinishMove
<1>24. CASE PowerLoss
  BY <1>24, Calling DEF PowerLoss, LoseRam
<1>25. CASE PowerLossInWrite
  BY <1>25, Calling, Journals DEF PowerLossInWrite, LoseRam
<1>26. CASE WriteJournalFails
  BY <1>26, Calling, Journals DEF WriteJournalFails
<1>27. CASE RenameFileFails
  BY <1>27 DEF RenameFileFails
<1>28. CASE RecoverFails
  BY <1>28, Returns, Calling DEF RecoverFails
<1>29. CASE BackupFails
  BY <1>29, Returns, Calling DEF BackupFails
<1>30. CASE MigrateCacheFails
  BY <1>30, StepFails, Calling DEF MigrateCacheFails, Moving
<1>31. CASE MigrateMarksFails
  <2>1. /\ pc \in AfterCache /\ UNCHANGED <<file, cache>> /\ harm \subseteq harm'
        /\ pc' \in AfterCache \cup {"rollback", "idle"}
        /\ pc' = "rollback" => op' = op /\ op.call = "movePost"
    BY ONLY <1>31, StepFails
       DEF MigrateMarksFails, NoFault, Fault, flt, Goto, card, hist,
           AfterCache, AfterMarks, AfterClips, ClipLabels
  <2>2. QED
    BY <2>1, FreshAhead
<1>32. CASE MigrateMarksShort
  BY <1>32 DEF MigrateMarksShort
<1>33. CASE ClipsMoveFails
  <2>1. /\ pc \in AfterCache /\ UNCHANGED <<file, cache>> /\ harm \subseteq harm'
        /\ pc' \in AfterCache \cup {"rollback", "idle"}
        /\ pc' = "rollback" => op' = op /\ op.call = "movePost"
    BY ONLY <1>33, StepFails
       DEF ClipsMoveFails, NoFault, Fault, flt, Goto, card, hist,
           AfterCache, AfterMarks, AfterClips, ClipLabels
  <2>2. QED
    BY <2>1, FreshAhead
<1>34. CASE Sleep
  BY <1>34, Calling DEF Sleep, LoseRam
<1>35. ASSUME NEW p \in Paths, OpenBook(p)
      PROVE  Fresh'
  BY <1>35, Calling DEF OpenBook
<1>36. ASSUME NEW p \in Paths, NEW n \in Notes, AddBookmark(p, n)
      PROVE  Fresh'
  BY <1>36, Calling DEF AddBookmark, NewNote
<1>37. ASSUME NEW p \in Paths, NEW n \in Notes, AddClipping(p, n)
      PROVE  Fresh'
  BY <1>37, Calling DEF AddClipping, NewNote
<1>38. ASSUME NEW p \in Paths, NEW q \in Paths, ExternalMove(p, q)
      PROVE  Fresh'
  BY <1>38, Calling DEF ExternalMove
<1>39. ASSUME NEW p \in Paths, NEW q \in Paths, StartRestore(p, q)
      PROVE  Fresh'
  BY <1>39 DEF StartRestore
<1>40. ASSUME NEW p \in Paths, NEW q \in Paths, NEW keep \in BOOLEAN, StartMove(p, q, keep)
      PROVE  Fresh'
  BY <1>40 DEF StartMove
<1>41. CASE UNCHANGED vars
  BY <1>41 DEF vars
<1>42. QED
  BY ONLY [Next]_vars, <1>1, <1>2, <1>3, <1>4, <1>5, <1>6, <1>7, <1>8, <1>9, <1>10,
     <1>11, <1>12, <1>13, <1>14, <1>15, <1>16, <1>16a, <1>17, <1>18, <1>19, <1>20, <1>21,
     <1>22, <1>23, <1>24, <1>25, <1>26, <1>27, <1>28, <1>29, <1>30, <1>31, <1>32,
     <1>33, <1>34, <1>35, <1>36, <1>37, <1>38, <1>39, <1>40, <1>41
     DEF Next, Progress, Migrate, Failures, User

-----------------------------------------------------------------------------
(* What a step does to the records: nothing but clearing, taking them from  *)
(* the old path of the journal to the new one, or dropping a journal that   *)
(* has nothing left to take.                                                *)

Unmoved ==
  /\ \A p \in Paths : cache'[p] \in {cache[p], NoBook}
  /\ \A n \in Notes, p \in Paths : NoteAt(n, p)' => NoteAt(n, p)

Taken ==
  /\ \A p \in Paths : \/ cache'[p] \in {cache[p], NoBook}
                      \/ p = journal.to /\ cache'[p] = cache[journal.from]
  /\ \A n \in Notes, p \in Paths :
       NoteAt(n, p)' => NoteAt(n, p) \/ (p = journal.to /\ NoteAt(n, journal.from))

Bare(p) == cache[p] = NoBook /\ \A n \in Notes : ~NoteAt(n, p)

Rooted ==
  /\ UNCHANGED <<file, external, clash>> /\ harm \subseteq harm' /\ written' = written
  /\ op'.call = "restorePre" => op' = op

SameJournal ==
  /\ Pending' <=> Pending
  /\ journal'.from = journal.from /\ journal'.to = journal.to

Still == Rooted /\ SameJournal /\ Unmoved
Carry == Rooted /\ SameJournal /\ Taken /\ Migrating
Freed == /\ Rooted /\ Unmoved /\ ~Pending'
         /\ Pending /\ Exists(journal.to) => Bare(journal.from)

Making == \E p \in Paths, n \in Notes : AddBookmark(p, n) \/ AddClipping(p, n)

Kind ==
  \/ Still \/ Carry \/ Freed
  \/ WriteJournal \/ RenameFile \/ Rollback
  \/ \E p \in Paths : OpenBook(p)
  \/ Making
  \/ \E p, q \in Paths : ExternalMove(p, q) \/ StartRestore(p, q)

LEMMA CardSame ==
  ASSUME UNCHANGED card, pc' \notin Swapping \cup Replacing
  PROVE  Unmoved
BY DEF card, Unmoved, NoteAt

LEMMA Kinds ==
  ASSUME CardOK, JournalOK, ControlOK, CallOK, FilesOK, MigratingOK, MovedOut, Settled,
         [Next]_vars
  PROVE  Kind
<1> USE ConstantsAssumption DEF CardOK, JournalOK, ControlOK, Migrating, BackupLabels,
   MoveLabels, AfterCache,
           AfterMarks, AfterClips, ClipLabels, Pending, Goto, Finish, NoFault, Fault,
           card, lists, ctl, hist, flt
<1>1. CASE Boot
  <2>1. UNCHANGED <<card, journal>> /\ pc' \notin Swapping \cup Replacing /\ Rooted
    BY <1>1, Calling DEF Boot, Rooted
  <2>2. QED
    BY <2>1, CardSame DEF Kind, Still, SameJournal
<1>2. CASE Preflight
  <2>1. UNCHANGED <<card, journal>> /\ pc' \notin Swapping \cup Replacing /\ Rooted
    BY <1>2, Calling DEF Preflight, Rooted
  <2>2. QED
    BY <2>1, CardSame DEF Kind, Still, SameJournal
<1>3. CASE WriteJournal
  BY <1>3 DEF Kind
<1>4. CASE RenameFile
  BY <1>4 DEF Kind
<1>5. CASE Rollback
  BY <1>5 DEF Kind
<1>6. CASE DropJournal
  <2>1. UNCHANGED card /\ pc' \notin Swapping \cup Replacing /\ Rooted
    BY <1>6, Calling DEF DropJournal, Rooted
  <2>2. journal' = journal \/ ~Pending'
    BY <1>6, Journals DEF DropJournal
  <2>3. Pending /\ Exists(journal.to) => Bare(journal.from)
    BY <1>6 DEF DropJournal, FilesOK
  <2>4. QED
    BY <2>1, <2>2, <2>3, CardSame DEF Kind, Freed, Still, SameJournal
<1>7. CASE RecoverPendingMove
  <2>1. UNCHANGED card /\ pc' \notin Swapping \cup Replacing /\ Rooted
    BY <1>7, Returns, Calling DEF RecoverPendingMove, NothingPending, NotRenamed, Refuse,
       BeginMigration, Rooted
  <2>2. \/ journal' = journal
        \/ ~Pending' /\ ~Exists(journal.to)
    BY <1>7, Journals DEF RecoverPendingMove, NotRenamed
  <2>3. QED
    BY <2>1, <2>2, CardSame DEF Kind, Freed, Still, SameJournal
<1>8. CASE BackupCache
  <2>1. Rooted /\ SameJournal
    BY <1>8, Calling DEF BackupCache, Rooted, SameJournal
  <2>2. Unmoved
    BY <1>8, Calling DEF BackupCache, Unmoved, NoteAt
  <2>3. QED
    BY <2>1, <2>2 DEF Kind, Still
<1>9. CASE BackupMarks
  <2>1. Rooted /\ SameJournal
    BY <1>9, Calling DEF BackupMarks, Rooted, SameJournal
  <2>2. Unmoved
    BY <1>9, Calling DEF BackupMarks, Unmoved, NoteAt
  <2>3. QED
    BY <2>1, <2>2 DEF Kind, Still
<1>10. CASE BackupClips
  <2>1. Rooted /\ SameJournal
    BY <1>10, Calling DEF BackupClips, Rooted, SameJournal
  <2>2. Unmoved
    BY <1>10, Calling DEF BackupClips, Unmoved, NoteAt
  <2>3. QED
    BY <2>1, <2>2 DEF Kind, Still
<1>11. CASE MarkBackedUp
  <2>1. UNCHANGED card /\ pc' \notin Swapping \cup Replacing /\ Rooted
    BY <1>11 DEF MarkBackedUp, Rooted
  <2>2. QED
    BY <2>1, <1>11, CardSame DEF Kind, Still, SameJournal, MarkBackedUp
<1>12. CASE MigrateCache
  <2>1. Rooted /\ SameJournal /\ Migrating
    BY <1>12, Calling, Returns DEF MigrateCache, Rooted, SameJournal
  <2>2. Taken
    BY <1>12, Calling, Returns DEF MigrateCache, Taken, NoteAt
  <2>3. QED
    BY <2>1, <2>2 DEF Kind, Carry
<1>13. CASE MigrateMarks
  <2>1. Rooted /\ SameJournal /\ Migrating
    BY <1>13, Calling, StepFails DEF MigrateMarks, Rooted, SameJournal
  <2>2. /\ pc = "marks" /\ pc' \notin Swapping \cup Replacing
        /\ UNCHANGED <<cache, clips>>
        /\ marks' = marks \/ marks' = [marks EXCEPT ![journal.to] = @ \cup marks[journal.from]]
    BY <1>13, StepFails DEF MigrateMarks
  <2>3. Taken
    BY <2>2 DEF Taken, NoteAt
  <2>4. QED
    BY <2>1, <2>3 DEF Kind, Carry
<1>14. CASE MigrateMarksDelete
  <2>1. Rooted /\ SameJournal
    BY <1>14, Calling, StepFails DEF MigrateMarksDelete, Rooted, SameJournal
  <2>2. Unmoved
    BY <1>14, Calling, StepFails DEF MigrateMarksDelete, Unmoved, NoteAt
  <2>3. QED
    BY <2>1, <2>2 DEF Kind, Still
<1>15. CASE MigrateClips
  <2>1. Rooted /\ SameJournal
    BY <1>15, Calling DEF MigrateClips, Rooted, SameJournal
  <2>2. Unmoved
    BY <1>15, Calling DEF MigrateClips, Unmoved, NoteAt
  <2>3. QED
    BY <2>1, <2>2 DEF Kind, Still
<1>16. CASE ClipsSwap
  <2>1. Rooted /\ SameJournal
    BY <1>16, Calling, StepFails DEF ClipsSwap, Rooted, SameJournal
  <2>2. Unmoved
    BY <1>16, Calling, StepFails DEF ClipsSwap, Unmoved, NoteAt
  <2>3. QED
    BY <2>1, <2>2 DEF Kind, Still
<1>16a. CASE ClipsUndo
  <2>1. Rooted /\ SameJournal
    BY <1>16a, Calling, StepFails DEF ClipsUndo, Rooted, SameJournal
  <2>2. Unmoved
    <3>1. pc' \in {"recents", "rollback", "idle"} /\ UNCHANGED <<cache, marks>>
      BY <1>16a, StepFails DEF ClipsUndo
    <3>2. QED
      BY <1>16a, <3>1 DEF ClipsUndo, Unmoved, NoteAt
  <2>3. QED
    BY <2>1, <2>2 DEF Kind, Still
<1>17. CASE ClipsUnbak
  <2>1. Rooted /\ SameJournal
    BY <1>17, Calling DEF ClipsUnbak, Rooted, SameJournal
  <2>2. Unmoved
    BY <1>17, Calling DEF ClipsUnbak, Unmoved, NoteAt
  <2>3. QED
    BY <2>1, <2>2 DEF Kind, Still
<1>18. CASE ClipsAside
  <2>1. Rooted /\ SameJournal
    BY <1>18, Calling DEF ClipsAside, Rooted, SameJournal
  <2>2. Unmoved
    BY <1>18, Calling DEF ClipsAside, Unmoved, NoteAt
  <2>3. QED
    BY <2>1, <2>2 DEF Kind, Still
<1>19. CASE ClipsMove
  <2>1. Rooted /\ SameJournal /\ Migrating
    BY <1>19, Calling DEF ClipsMove, Rooted, SameJournal
  <2>2. Taken
    BY <1>19, Calling DEF ClipsMove, Taken, NoteAt
  <2>3. QED
    BY <2>1, <2>2 DEF Kind, Carry
<1>20. CASE MigrateRecents
  <2>1. UNCHANGED <<card, journal>> /\ pc' \notin Swapping \cup Replacing /\ Rooted
    BY <1>20, Calling DEF MigrateRecents, Rooted
  <2>2. QED
    BY <2>1, CardSame DEF Kind, Still, SameJournal
<1>21. CASE MigrateResume
  <2>1. UNCHANGED <<card, journal>> /\ pc' \notin Swapping \cup Replacing /\ Rooted
    BY <1>21, Calling, Returns DEF MigrateResume, Rooted
  <2>2. QED
    BY <2>1, CardSame DEF Kind, Still, SameJournal
<1>22. CASE MoveHint
  <2>1. UNCHANGED <<card, journal>> /\ pc' \notin Swapping \cup Replacing /\ Rooted
    BY <1>22, Calling, Returns DEF MoveHint, Rooted
  <2>2. QED
    BY <2>1, CardSame DEF Kind, Still, SameJournal
<1>23. CASE FinishMove
  <2>1. UNCHANGED card /\ pc' \notin Swapping \cup Replacing /\ Rooted
    BY <1>23, Calling, Returns DEF FinishMove, Rooted
  <2>2. journal' = journal \/ ~Pending'
    BY <1>23, Journals DEF FinishMove
  <2>3. Bare(journal.from)
    BY <1>23 DEF FinishMove, MovedOut, MigratingOK, Bare, NoteAt, AfterCache, AfterMarks,
       AfterClips
  <2>4. QED
    BY <2>1, <2>2, <2>3, CardSame DEF Kind, Freed, Still, SameJournal
<1>24. CASE PowerLoss
  <2>1. UNCHANGED <<card, journal>> /\ pc' \notin Swapping \cup Replacing /\ Rooted
    BY <1>24, Calling DEF PowerLoss, LoseRam, Rooted
  <2>2. QED
    BY <2>1, CardSame DEF Kind, Still, SameJournal
<1>25. CASE PowerLossInWrite
  <2>1. Rooted /\ pc' = "boot"
    BY <1>25, Calling DEF PowerLossInWrite, LoseRam, Rooted
  <2>2. CASE pc = "writeJournal" /\ journal' = TornJournal /\ UNCHANGED card
    <3>1. Unmoved
      BY <2>1, <2>2, CardSame
    <3>2. Pending /\ Exists(journal.to) => Bare(journal.from)
      BY <2>2 DEF Settled, Emptied, Bare, NoteAt
    <3>3. QED
      BY <2>1, <2>2, <3>1, <3>2, Journals DEF Kind, Freed
  <2>3. CASE journal' = journal
    <3>1. Unmoved
      BY <1>25, <2>1, <2>3 DEF PowerLossInWrite, Unmoved, NoteAt
    <3>2. QED
      BY <2>1, <2>3, <3>1 DEF Kind, Still, SameJournal
  <2>4. QED
    BY <1>25, <2>2, <2>3 DEF PowerLossInWrite
<1>26. CASE WriteJournalFails
  <2>1. UNCHANGED card /\ pc' \notin Swapping \cup Replacing /\ Rooted
    BY <1>26, Calling DEF WriteJournalFails, Rooted
  <2>2. journal' = journal \/ ~Pending'
    BY <1>26, Journals DEF WriteJournalFails
  <2>3. Pending /\ Exists(journal.to) => Bare(journal.from)
    BY <1>26 DEF WriteJournalFails, Settled, Emptied, Bare, NoteAt
  <2>4. QED
    BY <2>1, <2>2, <2>3, CardSame DEF Kind, Freed, Still, SameJournal
<1>27. CASE RenameFileFails
  <2>1. UNCHANGED <<card, journal>> /\ pc' \notin Swapping \cup Replacing /\ Rooted
    BY <1>27, Calling DEF RenameFileFails, Rooted
  <2>2. QED
    BY <2>1, CardSame DEF Kind, Still, SameJournal
<1>28. CASE RecoverFails
  <2>1. UNCHANGED <<card, journal>> /\ pc' \notin Swapping \cup Replacing /\ Rooted
    BY <1>28, Calling, Returns DEF RecoverFails, Rooted
  <2>2. QED
    BY <2>1, CardSame DEF Kind, Still, SameJournal
<1>29. CASE BackupFails
  <2>1. UNCHANGED <<card, journal>> /\ pc' \notin Swapping \cup Replacing /\ Rooted
    BY <1>29, Calling, Returns DEF BackupFails, Rooted
  <2>2. QED
    BY <2>1, CardSame DEF Kind, Still, SameJournal
<1>30. CASE MigrateCacheFails
  <2>1. UNCHANGED <<card, journal>> /\ pc' \notin Swapping \cup Replacing /\ Rooted
    BY <1>30, Calling, StepFails DEF MigrateCacheFails, Rooted
  <2>2. QED
    BY <2>1, CardSame DEF Kind, Still, SameJournal
<1>31. CASE MigrateMarksFails
  <2>1. UNCHANGED <<card, journal>> /\ pc' \notin Swapping \cup Replacing /\ Rooted
    BY <1>31, Calling, StepFails DEF MigrateMarksFails, Rooted
  <2>2. QED
    BY <2>1, CardSame DEF Kind, Still, SameJournal
<1>32. CASE MigrateMarksShort
  <2>1. Rooted /\ SameJournal
    BY <1>32, Calling DEF MigrateMarksShort, Rooted, SameJournal
  <2>2. Unmoved
    BY <1>32, Calling DEF MigrateMarksShort, Unmoved, NoteAt
  <2>3. QED
    BY <2>1, <2>2 DEF Kind, Still
<1>33. CASE ClipsMoveFails
  <2>1. Rooted /\ SameJournal
    BY <1>33, Calling, StepFails DEF ClipsMoveFails, Rooted, SameJournal
  <2>2. Unmoved
    <3>1. CASE pc = "clipReplace"
      BY <1>33, <3>1 DEF ClipsMoveFails, Unmoved, NoteAt
    <3>2. CASE pc # "clipReplace"
      <4>1. pc' \in {"recents", "rollback", "idle"} /\ UNCHANGED card
        BY <1>33, <3>2, StepFails DEF ClipsMoveFails
      <4>2. QED
        BY <4>1, CardSame
    <3>3. QED
      BY <3>1, <3>2
  <2>3. QED
    BY <2>1, <2>2 DEF Kind, Still
<1>34. CASE Sleep
  <2>1. UNCHANGED <<card, journal>> /\ pc' \notin Swapping \cup Replacing /\ Rooted
    BY <1>34, Calling DEF Sleep, LoseRam, Rooted
  <2>2. QED
    BY <2>1, CardSame DEF Kind, Still, SameJournal
<1>35. ASSUME NEW p \in Paths, OpenBook(p)
      PROVE  Kind
  BY <1>35 DEF Kind
<1>36. ASSUME NEW p \in Paths, NEW n \in Notes, AddBookmark(p, n)
      PROVE  Kind
  BY <1>36 DEF Kind, Making
<1>37. ASSUME NEW p \in Paths, NEW n \in Notes, AddClipping(p, n)
      PROVE  Kind
  BY <1>37 DEF Kind, Making
<1>38. ASSUME NEW p \in Paths, NEW q \in Paths, ExternalMove(p, q)
      PROVE  Kind
  BY <1>38 DEF Kind
<1>39. ASSUME NEW p \in Paths, NEW q \in Paths, StartRestore(p, q)
      PROVE  Kind
  BY <1>39 DEF Kind
<1>40. ASSUME NEW p \in Paths, NEW q \in Paths, NEW keep \in BOOLEAN, StartMove(p, q, keep)
      PROVE  Kind
  <2>1. UNCHANGED <<card, journal>> /\ pc' \notin Swapping \cup Replacing /\ Rooted
    BY <1>40 DEF StartMove, Rooted
  <2>2. QED
    BY <2>1, CardSame DEF Kind, Still, SameJournal
<1>41. CASE UNCHANGED vars
  <2>1. UNCHANGED <<card, journal, pc>> /\ Rooted
    BY <1>41 DEF vars, Rooted
  <2>2. Unmoved
    BY <2>1 DEF Unmoved, NoteAt
  <2>3. QED
    BY <2>1, <2>2 DEF Kind, Still, SameJournal
<1>42. QED
  BY ONLY [Next]_vars, <1>1, <1>2, <1>3, <1>4, <1>5, <1>6, <1>7, <1>8, <1>9, <1>10,
     <1>11, <1>12, <1>13, <1>14, <1>15, <1>16, <1>16a, <1>17, <1>18, <1>19, <1>20, <1>21,
     <1>22, <1>23, <1>24, <1>25, <1>26, <1>27, <1>28, <1>29, <1>30, <1>31, <1>32,
     <1>33, <1>34, <1>35, <1>36, <1>37, <1>38, <1>39, <1>40, <1>41
     DEF Next, Progress, Migrate, Failures, User

-----------------------------------------------------------------------------
(* Nothing is left behind, and nothing gets to another book.                *)

LEMMA UnmovedBears ==
  ASSUME Unmoved, NEW b \in Books, NEW p \in Paths, Bears(b, p)'
  PROVE  Bears(b, p)
BY ConstantsAssumption DEF Unmoved, Bears

LEMMA TakenBears ==
  ASSUME Taken, NEW b \in Books, NEW p \in Paths, Bears(b, p)'
  PROVE  Bears(b, p) \/ (p = journal.to /\ Bears(b, journal.from))
BY ConstantsAssumption DEF Taken, Bears

LEMMA BareBears ==
  ASSUME NEW b \in Books, NEW p, Bare(p)
  PROVE  ~Bears(b, p)
BY ConstantsAssumption DEF Bare, Bears

\* Outside the steps that replace a clipping file.
LEMMA BearsOwners ==
  ASSUME pc \notin Swapping \cup Replacing, CardOK, NEW b \in Books, NEW p \in Paths
  PROVE  Bears(b, p) <=> b \in RecordOwners(p)
<1>1. RecordOwners(p) = ({cache[p]} \ {NoBook}) \cup {Owner[n] : n \in marks[p] \cup clips[p]}
  BY DEF RecordOwners
<1>2. marks[p] \cup clips[p] \subseteq Notes
  BY DEF CardOK
<1>3. QED
  BY <1>1, <1>2, ConstantsAssumption DEF Bears, NoteAt

LEMMA PriorStateBears ==
  ASSUME pc \notin Swapping \cup Replacing, NEW b \in Books, NEW p, ~HasPriorState(p)
  PROVE  ~Bears(b, p)
BY ConstantsAssumption DEF HasPriorState, Bears, NoteAt

\* Opening a book, and making a note, add the book's own cache or note to its record.
LEMMA OpenedBears ==
  ASSUME NEW p \in Paths, OpenBook(p), CardOK, NEW b \in Books, NEW q \in Paths, Bears(b, q)'
  PROVE  Bears(b, q) \/ (q = p /\ file[p] = b)
BY DEF OpenBook, Finish, CardOK, Bears, NoteAt

LEMMA MadeBears ==
  ASSUME NEW p \in Paths, NEW n \in Notes, AddBookmark(p, n) \/ AddClipping(p, n),
         CardOK, NEW b \in Books, NEW q \in Paths, Bears(b, q)'
  PROVE  Bears(b, q) \/ (q = p /\ file[p] = b)
<1>1. pc = "idle" /\ pc' = "idle" /\ cache' = cache /\ Owner[n] = file[p]
  BY DEF AddBookmark, AddClipping, NewNote, Finish
<1>2. /\ marks' \in {marks, [marks EXCEPT ![p] = @ \cup {n}]}
      /\ clips' \in {clips, [clips EXCEPT ![p] = @ \cup {n}]}
  BY DEF AddBookmark, AddClipping
<1>3. \A m \in Notes : NoteAt(m, q)' => NoteAt(m, q) \/ (q = p /\ m = n)
  BY <1>1, <1>2 DEF CardOK, NoteAt
<1>4. QED
  BY <1>1, <1>3 DEF Bears

LEMMA Made ==
  ASSUME Making
  PROVE  /\ UNCHANGED <<file, cache, journal, external, clash, harm, aside>>
         /\ pc = "idle" /\ pc' = "idle" /\ op'.call = "boot"
BY Calling DEF Making, AddBookmark, AddClipping, NewNote, Finish, flt

LEMMA BehindStep ==
  ASSUME CardOK, ListsOK, JournalOK, ControlOK, CallOK, FilesOK, MigratingOK, MovedOut,
         Settled, Fresh, Behind, [Next]_vars
  PROVE  Behind'
<1> USE DEF Pending, Exists
<1> SUFFICES ASSUME NEW b \in Books \ (external' \cup harm'), NEW p \in Paths, Bears(b, p)'
             PROVE  AtHome(b, p)'
  BY DEF Behind
<1>0. ASSUME harm \subseteq harm', b \notin external, NEW q \in Paths, Bears(b, q)
      PROVE  file[q] = b \/ (Pending /\ file[journal.to] = b /\ q = journal.from)
  BY <1>0 DEF Behind, AtHome
<1>1. CASE Still
  BY <1>0, <1>1, UnmovedBears DEF Still, Rooted, SameJournal, AtHome
<1>2. CASE Carry
  <2>1. Bears(b, p) \/ (p = journal.to /\ Bears(b, journal.from))
    BY <1>2, TakenBears DEF Carry
  <2>2. CASE Bears(b, p)
    BY <1>0, <1>2, <2>2 DEF Carry, Rooted, SameJournal, AtHome
  <2>3. CASE p = journal.to /\ Bears(b, journal.from)
    <3>1. Pending /\ journal.from \in Paths
      BY <1>2 DEF Carry, MigratingOK, JournalOK
    <3>2. file[journal.from] = b \/ file[journal.to] = b
      BY <1>0, <1>2, <2>3, <3>1 DEF Carry, Rooted
    <3>3. file[journal.from] # b
      BY <1>2, <3>1, ConstantsAssumption DEF Carry, Rooted, MigratingOK
    <3>4. QED
      BY <1>2, <2>3, <3>2, <3>3 DEF Carry, Rooted, AtHome
  <2>4. QED
    BY <2>1, <2>2, <2>3
<1>3. CASE Freed
  <2>1. Bears(b, p) /\ file' = file /\ harm \subseteq harm' /\ b \notin external
    BY <1>3, UnmovedBears DEF Freed, Rooted
  <2>2. ~(Pending /\ file[journal.to] = b /\ p = journal.from)
    BY <1>3, <2>1, BareBears, ConstantsAssumption DEF Freed
  <2>3. QED
    BY <1>0, <2>1, <2>2 DEF AtHome
<1>4. CASE WriteJournal
  <2>1. /\ pc = "writeJournal" /\ UNCHANGED <<file, external, harm>> /\ UNCHANGED card
        /\ pc' \in {"rename", "recover"}
    BY <1>4 DEF WriteJournal, NoFault, card, hist, flt
  <2>2. Bears(b, p)
    BY <2>1, CardSame, UnmovedBears
  <2>3. ~(Pending /\ file[journal.to] = b /\ p = journal.from)
    <3>1. SUFFICES ASSUME Emptied(p) PROVE FALSE
      BY <2>1, ConstantsAssumption DEF Settled
    <3>2. QED
      BY <2>1, <2>2, <3>1, ConstantsAssumption DEF Emptied, Bears, NoteAt
  <2>4. QED
    BY <1>0, <2>1, <2>2, <2>3 DEF AtHome
<1>5. CASE RenameFile
  <2>1. /\ pc = "rename" /\ UNCHANGED <<journal, external, harm, cache, marks, clips>>
        /\ pc' = "recover"
        /\ file' = [file EXCEPT ![op.to] = file[op.from], ![op.from] = NoBook]
    BY <1>5 DEF RenameFile, NoFault, hist, flt
  <2>2. Bears(b, p)
    BY <2>1 DEF Bears, NoteAt
  <2>3. /\ Pending /\ journal.from = op.from /\ journal.to = op.to /\ op.from # op.to
        /\ op.from \in Paths /\ op.to \in Paths /\ file[op.to] = NoBook
    BY <2>1, Calling DEF CallOK, FilesOK
  <2>4. file[p] = b
    BY <1>0, <2>1, <2>2, <2>3, ConstantsAssumption
  <2>5. p # op.to
    BY <2>3, <2>4, ConstantsAssumption
  <2>6. CASE p = op.from
    BY <2>1, <2>3, <2>4, <2>6 DEF AtHome, CardOK
  <2>7. CASE p # op.from
    BY <2>1, <2>4, <2>5, <2>7 DEF AtHome, CardOK
  <2>8. QED
    BY <2>6, <2>7
<1>6. CASE Rollback
  <2>1. /\ pc = "rollback" /\ UNCHANGED <<journal, external, cache, marks, clips>>
        /\ pc' \in {"dropJournal", "idle"} /\ harm \subseteq harm'
    BY <1>6 DEF Rollback, Goto, Finish, NoFault, Fault, hist, flt
  <2>2. Bears(b, p)
    BY <2>1 DEF Bears, NoteAt
  <2>3. CASE file' = file
    BY <1>0, <2>1, <2>2, <2>3 DEF AtHome
  <2>4. CASE file' # file
    <3>1. /\ file' = [file EXCEPT ![op.from] = file[op.to], ![op.to] = NoBook]
          /\ cache[op.from] # NoBook /\ ~Exists(op.from)
      BY <1>6, <2>4 DEF Rollback
    <3>2. /\ Pending /\ journal.from = op.from /\ journal.to = op.to /\ op.from # op.to
          /\ op.from \in Paths /\ op.to \in Paths
      BY <2>1, Calling DEF CallOK, FilesOK
    <3>3. p # op.to
      <4>1. CASE file[op.to] \in harm
        BY <1>0, <2>1, <2>2, <3>2, <4>1
      <4>2. CASE ~HasPriorState(op.to)
        BY <2>1, <2>2, <4>2, PriorStateBears
      <4>3. QED
        BY <2>1, <3>1, <4>1, <4>2 DEF Fresh
    <3>5. CASE file[p] = b
      BY <3>1, <3>2, <3>3, <3>5, ConstantsAssumption DEF AtHome, CardOK
    <3>6. CASE file[op.to] = b /\ p = op.from
      BY <3>1, <3>2, <3>6 DEF AtHome, CardOK
    <3>7. QED
      BY <1>0, <2>1, <2>2, <3>2, <3>5, <3>6
  <2>5. QED
    BY <2>3, <2>4
<1>7. ASSUME NEW q \in Paths, OpenBook(q)
      PROVE  AtHome(b, p)'
  <2>1. UNCHANGED <<file, journal, external, harm>>
    BY <1>7 DEF OpenBook, hist, flt
  <2>2. QED
    BY <1>0, <1>7, <2>1, OpenedBears DEF AtHome
<1>8. CASE Making
  <2>1. Bears(b, p) \/ file[p] = b
    BY <1>8, MadeBears DEF Making
  <2>2. QED
    BY <1>0, <1>8, <2>1, Made DEF AtHome
<1>9. ASSUME NEW x \in Paths, NEW y \in Paths, ExternalMove(x, y)
      PROVE  AtHome(b, p)'
  <2>1. /\ pc = "idle" /\ pc' = "boot" /\ file[x] # NoBook /\ file[y] = NoBook
        /\ UNCHANGED <<journal, harm, cache, marks, clips>>
        /\ file' = [file EXCEPT ![y] = file[x], ![x] = NoBook]
        /\ external' = external \cup {file[x]}
    BY <1>9 DEF ExternalMove, flt
  <2>2. Bears(b, p) /\ b # file[x] /\ b # NoBook
    BY <2>1, ConstantsAssumption DEF Bears, NoteAt
  <2>3. \A q \in Paths : file[q] = b => file'[q] = b
    BY <2>1, <2>2 DEF CardOK
  <2>4. QED
    BY <1>0, <2>1, <2>2, <2>3 DEF AtHome, JournalOK
<1>10. ASSUME NEW x \in Paths, NEW y \in Paths, StartRestore(x, y)
       PROVE  AtHome(b, p)'
  <2>1. /\ UNCHANGED card /\ UNCHANGED <<file, journal, external, harm>>
        /\ pc' \notin Swapping \cup Replacing
    BY <1>10 DEF StartRestore, card, hist, flt
  <2>2. QED
    BY <1>0, <2>1, CardSame, UnmovedBears DEF AtHome
<1>11. QED
  BY <1>1, <1>2, <1>3, <1>4, <1>5, <1>6, <1>7, <1>8, <1>9, <1>10, Kinds DEF Kind

LEMMA ForeignStep ==
  ASSUME CardOK, ListsOK, JournalOK, ControlOK, CallOK, FilesOK, MigratingOK, MovedOut,
         Settled, Fresh, Foreign, [Next]_vars
  PROVE  Foreign'
<1> USE DEF Pending, Exists
<1>1. CASE Still
  <2>1. ASSUME ~clash' PROVE Foreign
    BY <1>1, <2>1 DEF Still, Rooted, Foreign
  <2>2. QED
    BY <1>1, <2>1, UnmovedBears DEF Still, Rooted, SameJournal, Foreign, JournalOK,
       ControlOK, CallOK
<1>2. CASE Carry
  <2>1. SUFFICES ASSUME ~clash PROVE Foreign'
    BY <1>2 DEF Carry, Rooted, Foreign
  <2>2. /\ Pending /\ Exists(journal.to) /\ journal.from \in Paths /\ journal.to \in Paths
        /\ journal.from # journal.to /\ ~Exists(journal.from)
    BY <1>2, <2>1 DEF Carry, MigratingOK, JournalOK, FilesOK, Foreign
  <2>3. op'.call # "restorePre" \/ op' = op
    BY <1>2 DEF Carry, Rooted
  <2>4. \A b \in Books, p \in Paths : Bears(b, p)' =>
          Bears(b, p) \/ (p = journal.to /\ file[journal.to] = b)
    BY <1>2, <2>1, <2>2, TakenBears DEF Carry, Foreign
  <2>5. \A b \in Books, p \in Paths : Bears(b, p)' /\ Exists(p) => file[p] = b
    BY <2>1, <2>4 DEF Foreign
  <2>6. \A b \in Books, p \in Paths : Bears(b, p)' /\ p = journal.from => file[journal.to] = b
    BY <2>1, <2>2, <2>4 DEF Foreign
  <2>7. op.call = "restorePre" =>
          \A b \in Books, p \in Paths : Bears(b, p)' /\ p = op.from => file[op.to] = b
    <3>1. SUFFICES ASSUME op.call = "restorePre", NEW b \in Books, Bears(b, op.from)
                          \/ (op.from = journal.to /\ file[journal.to] = b)
                   PROVE  file[op.to] = b
      BY <2>4
    <3>2. op.from # journal.to
      BY <2>2, <3>1 DEF FilesOK
    <3>3. QED
      BY <2>1, <3>1, <3>2 DEF Foreign
  <2>8. QED
    BY <1>2, <2>2, <2>3, <2>5, <2>6, <2>7 DEF Carry, Rooted, SameJournal, Foreign, CallOK
<1>3. CASE Freed
  <2>1. ASSUME ~clash' PROVE Foreign
    BY <1>3, <2>1 DEF Freed, Rooted, Foreign
  <2>2. QED
    BY <1>3, <2>1, UnmovedBears DEF Freed, Rooted, Foreign, ControlOK, CallOK
<1>4. CASE WriteJournal
  <2>1. /\ pc = "writeJournal" /\ UNCHANGED <<file, clash>> /\ UNCHANGED card
        /\ pc' \in {"rename", "recover"} /\ op.call \in {"movePre", "restorePre"}
        /\ journal'.from = op.from /\ journal'.to = op.to
        /\ op'.call # "restorePre" /\ op.from \in Paths /\ op.to \in Paths
    BY <1>4 DEF WriteJournal, card, hist, CallOK, ControlOK
  <2>2. \A b \in Books, p \in Paths : Bears(b, p)' => Bears(b, p)
    BY <2>1, CardSame, UnmovedBears
  <2>3. CASE op.call = "movePre"
    BY <2>1, <2>2, <2>3 DEF Foreign, FilesOK
  <2>4. CASE op.call = "restorePre"
    BY <2>1, <2>2, <2>4 DEF Foreign, FilesOK
  <2>5. QED
    BY <2>1, <2>3, <2>4
<1>5. CASE RenameFile
  <2>1. /\ pc = "rename" /\ UNCHANGED <<journal, clash, cache, marks, clips>>
        /\ pc' = "recover" /\ op'.call = "movePost"
        /\ file' = [file EXCEPT ![op.to] = file[op.from], ![op.from] = NoBook]
    BY <1>5 DEF RenameFile, hist, ControlOK
  <2>2. /\ Pending /\ journal.from = op.from /\ journal.to = op.to /\ op.from # op.to
        /\ op.from \in Paths /\ op.to \in Paths /\ file[op.from] # NoBook
        /\ ~HasPriorState(op.to)
    BY <2>1, Calling DEF CallOK, FilesOK, Fresh
  <2>3. SUFFICES ASSUME ~clash PROVE Foreign'
    BY <2>1 DEF Foreign
  <2>4. \A b \in Books, p \in Paths : Bears(b, p)' => Bears(b, p) /\ p # op.to
    BY <2>1, <2>2, PriorStateBears DEF Bears, NoteAt
  <2>5. file'[op.from] = NoBook /\ file'[op.to] = file[op.from]
    BY <2>1, <2>2 DEF CardOK
  <2>6. \A p \in Paths : p # op.to => file'[p] \in {file[p], NoBook}
    BY <2>1 DEF CardOK
  <2>7. \A b \in Books, p \in Paths : Bears(b, p)' /\ file'[p] # NoBook => file'[p] = b
    BY <2>3, <2>4, <2>6 DEF Foreign
  <2>8. \A b \in Books : Bears(b, op.from) => file'[op.to] = b
    BY <2>2, <2>3, <2>5 DEF Foreign
  <2>9. QED
    BY <2>1, <2>2, <2>4, <2>5, <2>7, <2>8 DEF Foreign
<1>6. CASE Rollback
  <2>1. /\ pc = "rollback" /\ UNCHANGED <<journal, clash, cache, marks, clips>>
        /\ pc' \in {"dropJournal", "idle"} /\ op'.call # "restorePre"
    BY <1>6, Calling DEF Rollback, Goto, Finish, hist, CallOK
  <2>2. \A b \in Books, p \in Paths : Bears(b, p)' => Bears(b, p)
    BY <2>1 DEF Bears, NoteAt
  <2>3. CASE file' = file
    BY <2>1, <2>2, <2>3 DEF Foreign, JournalOK
  <2>4. CASE file' # file
    <3>1. /\ file' = [file EXCEPT ![op.from] = file[op.to], ![op.to] = NoBook]
          /\ ~Exists(op.from)
      BY <1>6, <2>4 DEF Rollback
    <3>2. /\ Pending /\ journal.from = op.from /\ journal.to = op.to /\ op.from # op.to
          /\ op.from \in Paths /\ op.to \in Paths /\ Exists(op.to)
      BY <2>1, Calling DEF CallOK, FilesOK
    <3>3. /\ file'[op.to] = NoBook /\ file'[op.from] = file[op.to]
          /\ \A p \in Paths : p \notin {op.from, op.to} => file'[p] = file[p]
      BY <3>1, <3>2 DEF CardOK
    <3>4. QED
      BY <2>1, <2>2, <3>2, <3>3 DEF Foreign
  <2>5. QED
    BY <2>3, <2>4
<1>7. ASSUME NEW q \in Paths, OpenBook(q)
      PROVE  Foreign'
  <2>1. UNCHANGED <<file, journal, clash>> /\ op'.call = "boot" /\ Exists(q)
    BY <1>7, Calling DEF OpenBook, Finish, hist
  <2>2. QED
    BY <1>7, <2>1, OpenedBears DEF Foreign, JournalOK
<1>8. CASE Making
  <2>1. \A b \in Books, p \in Paths : Bears(b, p)' => Bears(b, p) \/ file[p] = b
    BY <1>8, MadeBears DEF Making
  <2>2. QED
    BY <1>8, <2>1, Made, ConstantsAssumption DEF Foreign, JournalOK
<1>9. ASSUME NEW x \in Paths, NEW y \in Paths, ExternalMove(x, y)
      PROVE  Foreign'
  <2>1. /\ pc = "idle" /\ pc' = "boot" /\ RecordOwners(y) = {}
        /\ UNCHANGED <<journal, cache, marks, clips>> /\ op'.call = "boot"
        /\ file' = [file EXCEPT ![y] = file[x], ![x] = NoBook]
        /\ clash' = (clash \/ Pending)
    BY <1>9, Calling DEF ExternalMove, flt
  <2>2. SUFFICES ASSUME ~clash, ~Pending PROVE Foreign'
    BY <2>1 DEF Foreign
  <2>3. \A b \in Books, p \in Paths : Bears(b, p)' => Bears(b, p) /\ p # y
    BY <2>1, BearsOwners DEF Bears, NoteAt
  <2>4. \A p \in Paths : p # y => file'[p] \in {file[p], NoBook}
    BY <2>1 DEF CardOK
  <2>5. QED
    BY <2>1, <2>2, <2>3, <2>4 DEF Foreign
<1>10. ASSUME NEW x \in Paths, NEW y \in Paths, StartRestore(x, y)
       PROVE  Foreign'
  <2>1. /\ UNCHANGED card /\ UNCHANGED <<file, journal, clash>> /\ pc = "idle"
        /\ pc' \notin Swapping \cup Replacing /\ op'.from = x /\ op'.to = y
        /\ RecordOwners(x) \subseteq {file[y]}
    BY <1>10 DEF StartRestore, card, hist
  <2>2. \A b \in Books, p \in Paths : Bears(b, p)' => Bears(b, p)
    BY <2>1, CardSame, UnmovedBears
  <2>3. \A b \in Books : Bears(b, x) => b = file[y]
    BY <2>1, BearsOwners
  <2>4. QED
    BY <2>1, <2>2, <2>3 DEF Foreign, JournalOK
<1>11. QED
  BY <1>1, <1>2, <1>3, <1>4, <1>5, <1>6, <1>7, <1>8, <1>9, <1>10, Kinds DEF Kind

-----------------------------------------------------------------------------
(* The lists.                                                              *)

LEMMA ListsAhead ==
  ASSUME FilesOK, MovedOut, Lists, pc \in AfterCache, harm \subseteq harm',
         UNCHANGED <<file, cache, lists, journal, external>>,
         pc' \in AfterCache \cup {"rollback", "idle"},
         pc' = "rollback" => op' = op /\ op.call = "movePost"
  PROVE  Lists'
<1>1. pc' \notin {"rename", "recover", "cache"}
  BY DEF AfterCache, AfterMarks, AfterClips, ClipLabels
<1>2. pc' = "rollback" => cache[op.from] = NoBook \/ op.to \in harm
  BY DEF FilesOK, MovedOut, AfterCache, AfterMarks, AfterClips, ClipLabels
<1>3. QED
  BY <1>1, <1>2 DEF Lists, Listed, Exists, Pending, lists

LEMMA ListsStep ==
  ASSUME CardOK, ListsOK, JournalOK, ControlOK, CallOK, FilesOK, MigratingOK, MovedOut,
         Settled, Lists, [Next]_vars
  PROVE  Lists'
<1> USE ConstantsAssumption DEF CardOK, ListsOK, JournalOK, ControlOK, CallOK, FilesOK,
   MigratingOK, MovedOut,
           Settled, Emptied, Lists, Listed, Migrating, BackupLabels, MoveLabels, AfterCache,
           AfterMarks, AfterClips, ClipLabels, Exists, Pending, Goto, Finish, NoFault, Fault,
           card, lists, ctl, hist, flt
<1>1. CASE Boot
  BY <1>1, Calling DEF Boot
<1>2. CASE Preflight
  BY <1>2, Calling DEF Preflight
<1>3. CASE WriteJournal
  BY <1>3 DEF WriteJournal
<1>4. CASE RenameFile
  BY <1>4 DEF RenameFile
<1>5. CASE Rollback
  BY <1>5, Calling DEF Rollback
<1>6. CASE DropJournal
  BY <1>6, Calling, Journals DEF DropJournal
<1>7. CASE RecoverPendingMove
  <2>1. UNCHANGED <<card, lists, external>> /\ harm \subseteq harm'
    BY <1>7 DEF RecoverPendingMove
  <2>2. CASE BeginMigration /\ UNCHANGED journal /\ NoFault
    <3>1. pc = "recover" /\ pc' \in {"backupCache", "cache"} /\ op' = op /\ harm' = harm
      BY ONLY <1>7, <2>2 DEF RecoverPendingMove, BeginMigration, NoFault, flt
    <3>2. QED
      BY ONLY <2>1, <2>2, <3>1, Lists DEF Lists, Listed, Exists, Pending, card, lists
  <2>3. CASE NothingPending /\ UNCHANGED journal
    BY <1>7, <2>1, <2>3, Returns, Calling DEF NothingPending
  <2>4. CASE NotRenamed /\ journal' \in {journal, NoJournal}
    <3>1. /\ pc = "recover" /\ Exists(journal.from) /\ ~journal.recovery
          /\ pc' \in {"preflight", "writeJournal", "rollback", "idle"}
          /\ pc' = "rollback" => op' = op /\ op.call = "movePost"
      BY ONLY <1>7, <2>4, Returns DEF RecoverPendingMove, NotRenamed
    <3>2. op.call # "movePost"
      BY ONLY <3>1, FilesOK DEF FilesOK
    <3>3. QED
      BY ONLY <2>1, <2>4, <3>1, <3>2, Lists DEF Lists, Listed, Exists, Pending, card, lists
  <2>5. CASE Refuse /\ UNCHANGED journal /\ NoFault
    <3>1. /\ pc = "recover" /\ pc' \in {"rollback", "idle"} /\ harm' = harm
          /\ pc' = "rollback" => op' = op /\ op.call = "movePost"
      BY ONLY <1>7, <2>5, Returns DEF RecoverPendingMove, Refuse, NoFault, flt
    <3>2. QED
      BY ONLY <2>1, <2>5, <3>1, Lists, Calling DEF Lists, Listed, Exists, Pending, card,
         lists
  <2>6. QED
    BY <1>7, <2>2, <2>3, <2>4, <2>5 DEF RecoverPendingMove
<1>8. CASE BackupCache
  BY <1>8 DEF BackupCache
<1>9. CASE BackupMarks
  BY <1>9 DEF BackupMarks
<1>10. CASE BackupClips
  BY <1>10 DEF BackupClips
<1>11. CASE MarkBackedUp
  BY <1>11 DEF MarkBackedUp
<1>12. CASE MigrateCache
  BY <1>12, Returns, Calling DEF MigrateCache
<1>13. CASE MigrateMarks
  <2>1. /\ pc \in AfterCache /\ UNCHANGED <<file, cache, lists, journal, external>> /\ harm \subseteq harm'
        /\ pc' \in AfterCache \cup {"rollback", "idle"}
        /\ pc' = "rollback" => op' = op /\ op.call = "movePost"
    BY ONLY <1>13, StepFails
       DEF MigrateMarks, NoFault, Fault, flt, Goto, hist,
           AfterCache, AfterMarks, AfterClips, ClipLabels
  <2>2. QED
    BY <2>1, ListsAhead
<1>14. CASE MigrateMarksDelete
  <2>1. /\ pc \in AfterCache /\ UNCHANGED <<file, cache, lists, journal, external>> /\ harm \subseteq harm'
        /\ pc' \in AfterCache \cup {"rollback", "idle"}
        /\ pc' = "rollback" => op' = op /\ op.call = "movePost"
    BY ONLY <1>14, StepFails
       DEF MigrateMarksDelete, NoFault, Fault, flt, Goto, hist,
           AfterCache, AfterMarks, AfterClips, ClipLabels
  <2>2. QED
    BY <2>1, ListsAhead
<1>15. CASE MigrateClips
  BY <1>15 DEF MigrateClips
<1>16. CASE ClipsSwap
  <2>1. /\ pc \in AfterCache /\ UNCHANGED <<file, cache, lists, journal, external>> /\ harm \subseteq harm'
        /\ pc' \in AfterCache \cup {"rollback", "idle"}
        /\ pc' = "rollback" => op' = op /\ op.call = "movePost"
    BY ONLY <1>16, StepFails
       DEF ClipsSwap, NoFault, Fault, flt, Goto, hist,
           AfterCache, AfterMarks, AfterClips, ClipLabels
  <2>2. QED
    BY <2>1, ListsAhead
<1>16a. CASE ClipsUndo
  <2>1. /\ pc \in AfterCache /\ UNCHANGED <<file, cache, lists, journal, external>> /\ harm \subseteq harm'
        /\ pc' \in AfterCache \cup {"rollback", "idle"}
        /\ pc' = "rollback" => op' = op /\ op.call = "movePost"
    BY ONLY <1>16a, StepFails
       DEF ClipsUndo, NoFault, Fault, flt, Goto, hist,
           AfterCache, AfterMarks, AfterClips, ClipLabels
  <2>2. QED
    BY <2>1, ListsAhead
<1>17. CASE ClipsUnbak
  BY <1>17 DEF ClipsUnbak
<1>18. CASE ClipsAside
  BY <1>18 DEF ClipsAside
<1>19. CASE ClipsMove
  BY <1>19 DEF ClipsMove
<1>20. CASE MigrateRecents
  BY <1>20 DEF MigrateRecents
<1>21. CASE MigrateResume
  <2>1. /\ pc = "resume" /\ UNCHANGED <<file, cache, recents, recentsDisk, journal, external>>
        /\ pc' \in AfterCache \cup {"rollback", "idle"} /\ harm \subseteq harm'
        /\ pc' = "rollback" => op' = op /\ op.call = "movePost"
    BY ONLY <1>21, Returns
       DEF MigrateResume, NoFault, Fault, flt, Goto, card, hist, AfterCache, AfterMarks,
          AfterClips
  <2>2. CASE UNCHANGED <<resume, resumeDisk>>
    BY <2>1, <2>2, ListsAhead
  <2>3. CASE /\ resume = journal.from /\ resume' = journal.to
             /\ resumeDisk' = resume' \/ (resumeDisk' = resumeDisk /\ journal.from \in harm')
    <3>1. Pending /\ Exists(journal.to)
      BY ONLY <2>1, MigratingOK DEF MigratingOK, Migrating, MoveLabels, AfterCache,
         AfterMarks, AfterClips
    <3>2. pc' \notin {"rename", "recover", "cache"}
      BY ONLY <2>1 DEF AfterCache, AfterMarks, AfterClips, ClipLabels
    <3>3. pc' = "rollback" => cache[op.from] = NoBook \/ op.to \in harm
      BY ONLY <2>1, FilesOK, MovedOut DEF FilesOK, MovedOut, AfterCache, AfterMarks,
         AfterClips
    <3>4. QED
      BY ONLY <2>1, <2>3, <3>1, <3>2, <3>3, Lists DEF Lists, Listed, Exists, Pending
  <2>4. QED
    BY ONLY <1>21, <2>2, <2>3 DEF MigrateResume, Fault
<1>22. CASE MoveHint
  <2>1. /\ pc \in AfterCache /\ UNCHANGED <<file, cache, lists, journal, external>> /\ harm \subseteq harm'
        /\ pc' \in AfterCache \cup {"rollback", "idle"}
        /\ pc' = "rollback" => op' = op /\ op.call = "movePost"
    BY ONLY <1>22, Returns
       DEF MoveHint, NoFault, Fault, flt, Goto, card, hist,
           AfterCache, AfterMarks, AfterClips, ClipLabels
  <2>2. QED
    BY <2>1, ListsAhead
<1>23. CASE FinishMove
  BY <1>23, Returns, Calling, Journals DEF FinishMove
<1>24. CASE PowerLoss
  BY <1>24, Calling DEF PowerLoss, LoseRam
<1>25. CASE PowerLossInWrite
  BY <1>25, Calling, Journals DEF PowerLossInWrite, LoseRam
<1>26. CASE WriteJournalFails
  BY <1>26, Calling, Journals DEF WriteJournalFails
<1>27. CASE RenameFileFails
  BY <1>27 DEF RenameFileFails
<1>28. CASE RecoverFails
  BY <1>28, Returns, Calling DEF RecoverFails
<1>29. CASE BackupFails
  BY <1>29, Returns, Calling DEF BackupFails
<1>30. CASE MigrateCacheFails
  BY <1>30, StepFails, Calling DEF MigrateCacheFails, Moving
<1>31. CASE MigrateMarksFails
  <2>1. /\ pc \in AfterCache /\ UNCHANGED <<file, cache, lists, journal, external>> /\ harm \subseteq harm'
        /\ pc' \in AfterCache \cup {"rollback", "idle"}
        /\ pc' = "rollback" => op' = op /\ op.call = "movePost"
    BY ONLY <1>31, StepFails
       DEF MigrateMarksFails, NoFault, Fault, flt, Goto, card, hist,
           AfterCache, AfterMarks, AfterClips, ClipLabels
  <2>2. QED
    BY <2>1, ListsAhead
<1>32. CASE MigrateMarksShort
  BY <1>32 DEF MigrateMarksShort
<1>33. CASE ClipsMoveFails
  <2>1. /\ pc \in AfterCache /\ UNCHANGED <<file, cache, lists, journal, external>> /\ harm \subseteq harm'
        /\ pc' \in AfterCache \cup {"rollback", "idle"}
        /\ pc' = "rollback" => op' = op /\ op.call = "movePost"
    BY ONLY <1>33, StepFails
       DEF ClipsMoveFails, NoFault, Fault, flt, Goto, card, hist,
           AfterCache, AfterMarks, AfterClips, ClipLabels
  <2>2. QED
    BY <2>1, ListsAhead
<1>34. CASE Sleep
  BY <1>34, Calling DEF Sleep, LoseRam
<1>35. ASSUME NEW p \in Paths, OpenBook(p)
      PROVE  Lists'
  BY <1>35, Calling DEF OpenBook
<1>36. ASSUME NEW p \in Paths, NEW n \in Notes, AddBookmark(p, n)
      PROVE  Lists'
  BY <1>36, Calling DEF AddBookmark, NewNote
<1>37. ASSUME NEW p \in Paths, NEW n \in Notes, AddClipping(p, n)
      PROVE  Lists'
  BY <1>37, Calling DEF AddClipping, NewNote
<1>38. ASSUME NEW p \in Paths, NEW q \in Paths, ExternalMove(p, q)
      PROVE  Lists'
  BY <1>38, Calling DEF ExternalMove
<1>39. ASSUME NEW p \in Paths, NEW q \in Paths, StartRestore(p, q)
      PROVE  Lists'
  BY <1>39 DEF StartRestore
<1>40. ASSUME NEW p \in Paths, NEW q \in Paths, NEW keep \in BOOLEAN, StartMove(p, q, keep)
      PROVE  Lists'
  BY <1>40 DEF StartMove
<1>41. CASE UNCHANGED vars
  BY <1>41 DEF vars
<1>42. QED
  BY ONLY [Next]_vars, <1>1, <1>2, <1>3, <1>4, <1>5, <1>6, <1>7, <1>8, <1>9, <1>10,
     <1>11, <1>12, <1>13, <1>14, <1>15, <1>16, <1>16a, <1>17, <1>18, <1>19, <1>20, <1>21,
     <1>22, <1>23, <1>24, <1>25, <1>26, <1>27, <1>28, <1>29, <1>30, <1>31, <1>32,
     <1>33, <1>34, <1>35, <1>36, <1>37, <1>38, <1>39, <1>40, <1>41
     DEF Next, Progress, Migrate, Failures, User

-----------------------------------------------------------------------------
(* The notes.                                                              *)

LEMMA RecordedStep ==
  ASSUME CardOK, ListsOK, JournalOK, ControlOK, CallOK, FilesOK, MigratingOK, MovedOut,
         Settled, Recorded, [Next]_vars
  PROVE  Recorded'
<1> SUFFICES ASSUME NEW n \in Notes, NEW p \in Paths, NoteAt(n, p)'
             PROVE  n \in written'
  BY DEF Recorded
<1>1. CASE Still
  BY <1>1 DEF Still, Unmoved, Rooted, Recorded
<1>2. CASE Carry
  BY <1>2 DEF Carry, Taken, Rooted, Recorded, MigratingOK, JournalOK, Pending
<1>3. CASE Freed
  BY <1>3 DEF Freed, Unmoved, Rooted, Recorded
<1>4. CASE WriteJournal
  BY <1>4 DEF WriteJournal, card, hist, NoteAt, Recorded
<1>5. CASE RenameFile
  BY <1>5 DEF RenameFile, hist, NoteAt, Recorded
<1>6. CASE Rollback
  BY <1>6 DEF Rollback, Goto, Finish, hist, NoteAt, Recorded
<1>7. ASSUME NEW q \in Paths, OpenBook(q) PROVE n \in written'
  BY <1>7 DEF OpenBook, Finish, hist, NoteAt, Recorded
<1>8. ASSUME NEW q \in Paths, NEW m \in Notes, AddBookmark(q, m) \/ AddClipping(q, m)
      PROVE  n \in written'
  <2>1. NoteAt(n, p) \/ n = m
    BY <1>8 DEF AddBookmark, AddClipping, NewNote, Finish, CardOK, NoteAt
  <2>2. written' = written \cup {m}
    BY <1>8 DEF AddBookmark, AddClipping, NewNote
  <2>3. QED
    BY <2>1, <2>2 DEF Recorded
<1>9. ASSUME NEW x \in Paths, NEW y \in Paths, ExternalMove(x, y) PROVE n \in written'
  BY <1>9 DEF ExternalMove, NoteAt, Recorded
<1>10. ASSUME NEW x \in Paths, NEW y \in Paths, StartRestore(x, y) PROVE n \in written'
  BY <1>10 DEF StartRestore, card, hist, NoteAt, Recorded
<1>11. QED
  BY <1>1, <1>2, <1>3, <1>4, <1>5, <1>6, <1>7, <1>8, <1>9, <1>10, Kinds DEF Kind, Making

\* Damage stays.
LEMMA Harms ==
  ASSUME CardOK, ListsOK, JournalOK, ControlOK, CallOK, FilesOK, MigratingOK, MovedOut,
         Settled, [Next]_vars
  PROVE  harm \subseteq harm'
<1>1. CASE Still \/ Carry \/ Freed
  BY <1>1 DEF Still, Carry, Freed, Rooted
<1>2. CASE WriteJournal \/ RenameFile \/ Rollback
  BY <1>2 DEF WriteJournal, RenameFile, Rollback, NoFault, Fault, flt
<1>3. CASE Making
  BY <1>3, Made
<1>4. CASE \E p \in Paths : OpenBook(p)
  BY <1>4 DEF OpenBook, flt
<1>5. CASE \E p, q \in Paths : ExternalMove(p, q) \/ StartRestore(p, q)
  BY <1>5 DEF ExternalMove, StartRestore, flt
<1>6. QED
  BY <1>1, <1>2, <1>3, <1>4, <1>5, Kinds DEF Kind

\* The steps a migration takes between copying a part and removing the old one.
Midway == (ClipLabels \ {"clips"}) \cup {"marksDelete", "backupClips", "markBackedUp"}

\* Steps that leave the card and the journal alone.
LEMMA NotesStill ==
  ASSUME Notebook, UNCHANGED <<card, journal, written, late, external>>, harm \subseteq harm',
         pc \notin Swapping \/ InBak \subseteq harm', pc' \notin Midway
  PROVE  Notebook'
<1> USE DEF Midway, ClipLabels, card
<1>1. Safe' \subseteq Safe
  BY DEF Safe
<1>2. \A n \in Safe', p \in Paths : NoteAt(n, p)' <=> NoteAt(n, p)
  BY <1>1 DEF NoteAt, Notebook, Halfway, InBak, Safe
<1>3. NotesHome'
  BY <1>1, <1>2 DEF Notebook, NotesHome, AtHome, Pending
<1>4. Beside'
  BY <1>1, <1>2 DEF Notebook, Beside, Accompanied, Carrying, Pending, Exists
<1>5. Halfway'
  BY DEF Halfway
<1>6. Apart'
  BY <1>1 DEF Notebook, Apart, TwoCaches, Pending
<1>7. QED
  BY <1>3, <1>4, <1>5, <1>6 DEF Notebook

\* A journal with nothing left to take along.
Delivered ==
  Pending =>
    /\ journal.recovery => journal.backedUp
    /\ \/ ~journal.recovery /\ Exists(journal.from) /\ ~Exists(journal.to)
       \/ marks[journal.from] = {} /\ clips[journal.from] = {}

LEMMA SafeOwners ==
  ASSUME HistoryOK, NEW n \in Safe
  PROVE  n \in Notes /\ Owner[n] \in Books /\ Owner[n] # NoBook /\ Owner[n] \notin external \cup harm
BY ConstantsAssumption DEF HistoryOK, Safe

LEMMA DeliveredNotes ==
  ASSUME Notebook, Delivered, HistoryOK, pc \notin Swapping \cup Replacing
  PROVE  /\ \A n \in Safe : \E p \in Paths : NoteAt(n, p) /\ file[p] = Owner[n]
         /\ \A n \in Safe, p \in Paths : NoteAt(n, p) => cache[p] # NoBook
<1>1. ASSUME NEW n \in Safe, NEW p \in Paths, NoteAt(n, p)
      PROVE  ~(Pending /\ p = journal.from) \/ (~journal.recovery /\ Exists(p) /\ ~Exists(journal.to))
  BY <1>1 DEF Delivered, NoteAt
<1>2. ASSUME NEW n \in Safe PROVE \E p \in Paths : NoteAt(n, p) /\ file[p] = Owner[n]
  <2>1. PICK p \in Paths : NoteAt(n, p) /\ AtHome(Owner[n], p)
    BY DEF Notebook, NotesHome
  <2>2. file[p] = Owner[n]
    BY <1>1, <2>1, SafeOwners DEF AtHome, Exists
  <2>3. QED
    BY <2>1, <2>2
<1>3. ASSUME NEW n \in Safe, NEW p \in Paths, NoteAt(n, p) PROVE cache[p] # NoBook
  BY <1>1, <1>3 DEF Notebook, Beside, Accompanied, Carrying, Delivered
<1>4. QED
  BY <1>2, <1>3

\* Removing or tearing such a journal.
LEMMA NotesDropped ==
  ASSUME Notebook, Delivered, HistoryOK, UNCHANGED <<card, written, late, external>>,
         harm \subseteq harm', ~Pending', pc \notin Swapping \cup Replacing, pc' \notin Midway
  PROVE  Notebook'
<1> USE DEF Midway, ClipLabels, card
<1>1. Safe' \subseteq Safe
  BY DEF Safe
<1>2. \A n \in Safe, p \in Paths : NoteAt(n, p)' <=> NoteAt(n, p)
  BY DEF NoteAt
<1>3. NotesHome'
  BY <1>1, <1>2, DeliveredNotes DEF NotesHome, AtHome
<1>4. Beside'
  BY <1>1, <1>2, DeliveredNotes DEF Beside, Accompanied
<1>5. QED
  BY <1>3, <1>4 DEF Notebook, Halfway, Apart

\* Where a migration is, and whose notes are at its two paths.
LEMMA Between ==
  ASSUME JournalOK, FilesOK, MigratingOK, HistoryOK, Migrating
  PROVE  /\ Pending /\ journal.from \in Paths /\ journal.to \in Paths
         /\ journal.from # journal.to
         /\ \A n \in Safe : AtHome(Owner[n], journal.from) <=> file[journal.to] = Owner[n]
         /\ \A n \in Safe : AtHome(Owner[n], journal.to) <=> file[journal.to] = Owner[n]
<1>1. /\ Pending /\ journal.from \in Paths /\ journal.to \in Paths
      /\ journal.from # journal.to
  BY DEF JournalOK, FilesOK, MigratingOK
<1>2. ASSUME NEW n \in Safe PROVE file[journal.from] # Owner[n]
  BY SafeOwners, <1>1 DEF MigratingOK, Exists
<1>3. QED
  BY <1>1, <1>2 DEF AtHome

\* A note the code answers for is found by its book.
LEMMA SafeAtHome ==
  ASSUME HistoryOK, Behind, NEW n \in Safe, NEW p \in Paths, NoteAt(n, p)
  PROVE  AtHome(Owner[n], p)
BY SafeOwners DEF Behind, Bears

\* Past the cache step the cache is under the new path, or the notes of its book
\* are given up.
LEMMA ApartAhead ==
  ASSUME HistoryOK, JournalOK, FilesOK, MigratingOK, MovedOut, Behind, Notebook,
         pc \in AfterCache
  PROVE  /\ clips[journal.from] # {} => Safe \cap clips[journal.to] = {}
         /\ marks[journal.from] # {} => Safe \cap marks[journal.to] \subseteq marks[journal.from]
<1>1. Migrating
  BY DEF Migrating, MoveLabels
<1>2. CASE cache[journal.from] # NoBook
  <2>1. file[journal.to] \in harm
    BY <1>2 DEF MovedOut
  <2>2. \A n \in Safe : ~NoteAt(n, journal.to)
    BY <1>1, <2>1, Between, SafeAtHome, SafeOwners
  <2>3. QED
    BY <2>2 DEF NoteAt
<1>3. CASE cache[journal.from] = NoBook
  BY <1>1, <1>3, Between DEF Notebook, Apart, TwoCaches, MigratingOK, MoveLabels
<1>4. QED
  BY <1>2, <1>3

\* Notes that follow the cache to the new path find it there.
LEMMA BesideAhead ==
  ASSUME HistoryOK, JournalOK, FilesOK, MigratingOK, MovedOut, Behind, Notebook,
         pc \in AfterCache, NEW n \in Safe, NoteAt(n, journal.from)
  PROVE  cache[journal.to] # NoBook
<1>1. Migrating
  BY DEF Migrating, MoveLabels
<1>2. file[journal.to] = Owner[n]
  BY <1>1, Between, SafeAtHome
<1>3. cache[journal.from] = NoBook
  BY <1>2, SafeOwners DEF MovedOut
<1>4. QED
  BY <1>1, <1>3, Between DEF Notebook, Beside, Accompanied, MigratingOK, MoveLabels

LEMMA UnchangedNotes ==
  ASSUME Notebook, UNCHANGED <<card, journal, written, late, external, pc>>, harm \subseteq harm'
  PROVE  Notebook'
BY DEF Notebook, NotesHome, Beside, Halfway, Apart, Safe, NoteAt, AtHome, Accompanied,
   Carrying,
   TwoCaches, Pending, Exists, card

\* A new note: it is in Safe only when no journal is pending.
LEMMA NotesMade ==
  ASSUME Notebook, CardOK, JournalOK, HistoryOK, FilesOK, Recorded,
         harm \subseteq harm',
         NEW p \in Paths, NEW n \in Notes, AddBookmark(p, n) \/ AddClipping(p, n)
  PROVE  Notebook'
<1>1. /\ pc = "idle" /\ pc' = "idle" /\ UNCHANGED <<file, cache, aside, journal, external>>
      /\ Exists(p) /\ cache[p] # NoBook /\ Owner[n] = file[p] /\ n \notin written
      /\ written' = written \cup {n}
      /\ late' = IF Pending THEN late \cup {n} ELSE late
  BY DEF AddBookmark, AddClipping, NewNote, Finish
<1>2. \/ marks' = [marks EXCEPT ![p] = @ \cup {n}] /\ clips' = clips
      \/ clips' = [clips EXCEPT ![p] = @ \cup {n}] /\ marks' = marks
  BY DEF AddBookmark, AddClipping
<1>3. /\ Safe' \subseteq Safe \cup {n} /\ n \notin Safe
      /\ Pending => n \notin Safe'
  BY <1>1 DEF Safe
<1>4. \A m \in Safe, q \in Paths : NoteAt(m, q)' <=> NoteAt(m, q)
  BY <1>1, <1>2, <1>3 DEF NoteAt, CardOK
<1>5. NoteAt(n, p)' /\ \A q \in Paths : NoteAt(n, q)' => q = p
  BY <1>1, <1>2 DEF NoteAt, CardOK, Recorded
<1>6. NotesHome'
  BY <1>1, <1>3, <1>4, <1>5 DEF Notebook, NotesHome, AtHome, Pending
<1>7. Beside'
  BY <1>1, <1>3, <1>4, <1>5 DEF Notebook, Beside, Accompanied, Carrying, Pending, Exists
<1>8. Apart'
  <2>1. SUFFICES ASSUME Pending, journal.recovery => journal.backedUp, ~TwoCaches
                 PROVE  /\ clips'[journal.from] # {} => Safe' \cap clips'[journal.to] = {}
                        /\ marks'[journal.from] # {} =>
                             Safe' \cap marks'[journal.to] \subseteq marks'[journal.from]
    BY <1>1 DEF Apart, TwoCaches, Pending
  <2>2. /\ journal.from \in Paths /\ journal.to \in Paths /\ journal.from # journal.to
        /\ Safe' \subseteq Safe
    BY <1>3, <2>1 DEF JournalOK, FilesOK
  <2>3. CASE p = journal.from
    <3>1. \A m \in Safe : ~NoteAt(m, journal.to)
      BY <1>1, <2>1, <2>2, <2>3 DEF Notebook, Beside, Accompanied, TwoCaches
    <3>2. QED
      BY <1>2, <2>2, <2>3, <3>1 DEF NoteAt, CardOK
  <2>4. CASE p # journal.from
    <3>1. clips'[journal.from] = clips[journal.from] /\ marks'[journal.from] = marks[journal.from]
      BY <1>2, <2>2, <2>4 DEF CardOK
    <3>2. /\ Safe \cap clips'[journal.to] = Safe \cap clips[journal.to]
          /\ Safe \cap marks'[journal.to] = Safe \cap marks[journal.to]
      BY <1>2, <1>3, <2>2 DEF CardOK
    <3>3. QED
      BY <2>1, <2>2, <3>1, <3>2 DEF Notebook, Apart
  <2>5. QED
    BY <2>3, <2>4
<1>9. QED
  BY <1>1, <1>6, <1>7, <1>8 DEF Notebook, Halfway, ClipLabels

LEMMA NotebookStep ==
  ASSUME CardOK, ListsOK, JournalOK, ControlOK, HistoryOK, CallOK, FilesOK, MigratingOK, MovedOut,
         Settled, Fresh, Behind, Recorded, Notebook, [Next]_vars
  PROVE  Notebook'
<1>0. Notebook /\ harm \subseteq harm'
  BY Harms
<1> USE DEF Midway, ClipLabels, Goto, Finish, card
<1>1. CASE Boot
  <2>1. /\ UNCHANGED <<card, journal, written, late, external>>
        /\ pc \notin Swapping /\ pc' \notin Midway
    BY <1>1, <1>0 DEF Boot, hist
  <2>2. QED
    BY <1>0, <2>1, NotesStill
<1>2. CASE Preflight
  <2>1. /\ UNCHANGED <<card, journal, written, late, external>>
        /\ pc \notin Swapping /\ pc' \notin Midway
    BY <1>2, <1>0 DEF Preflight, hist
  <2>2. QED
    BY <1>0, <2>1, NotesStill
<1>3. CASE WriteJournal
  <2>1. /\ UNCHANGED <<card, written, late, external>> /\ pc = "writeJournal" /\ pc' \notin Midway
        /\ journal'.from = op.from /\ journal'.to = op.to /\ ~journal'.backedUp
        /\ journal'.recovery <=> op.call = "restorePre"
    BY <1>3 DEF WriteJournal, hist
  <2>2. Delivered
    BY <2>1 DEF Delivered, Settled, Emptied, Pending
  <2>3. /\ \A n \in Safe : \E p \in Paths : NoteAt(n, p) /\ file[p] = Owner[n]
        /\ \A n \in Safe, p \in Paths : NoteAt(n, p) => cache[p] # NoBook
    BY <1>0, <2>1, <2>2, DeliveredNotes
  <2>4. Safe' \subseteq Safe /\ \A n \in Safe, p \in Paths : NoteAt(n, p)' <=> NoteAt(n, p)
    BY <1>0, <2>1 DEF Safe, NoteAt, card
  <2>5. NotesHome' /\ Beside'
    BY <2>1, <2>3, <2>4 DEF NotesHome, Beside, AtHome, Accompanied, card
  <2>6. Halfway'
    BY <2>1 DEF Halfway
  <2>7. op.call = "movePre" => marks[op.to] = {} /\ clips[op.to] = {}
    BY <2>1 DEF Fresh, HasPriorState
  <2>8. Apart'
    BY <2>1, <2>7 DEF Apart, CallOK, card
  <2>9. QED
    BY <2>5, <2>6, <2>8 DEF Notebook
<1>4. CASE RenameFile
  <2>1. /\ UNCHANGED <<cache, marks, clips, clipsBak, aside, journal, written, late, external>>
        /\ pc = "rename" /\ pc' = "recover"
        /\ file' = [file EXCEPT ![op.to] = file[op.from], ![op.from] = NoBook]
    BY <1>4 DEF RenameFile, hist
  <2>2. /\ Pending /\ journal.from = op.from /\ journal.to = op.to /\ op.from # op.to
        /\ op.from \in Paths /\ op.to \in Paths /\ ~Exists(op.to) /\ Exists(op.from)
        /\ ~journal.recovery
    BY <2>1, Calling DEF CallOK, FilesOK
  <2>3. Safe' \subseteq Safe /\ \A n \in Safe, p \in Paths : NoteAt(n, p)' <=> NoteAt(n, p)
    BY <1>0, <2>1 DEF Safe, NoteAt
  <2>4. \A n \in Safe, p \in Paths : AtHome(Owner[n], p) => AtHome(Owner[n], p)'
    <3>1. SUFFICES ASSUME NEW n \in Safe, NEW p \in Paths, file[p] = Owner[n], p # op.to
                   PROVE  AtHome(Owner[n], p)'
      BY <2>2, SafeOwners DEF AtHome, Exists
    <3>2. QED
      BY <2>1, <2>2, <3>1 DEF AtHome, CardOK, Pending
  <2>5. NotesHome'
    BY <1>0, <2>3, <2>4 DEF Notebook, NotesHome
  <2>6. \A n \in Safe, p \in Paths : NoteAt(n, p) => cache[p] # NoBook
    BY <1>0, <2>2 DEF Notebook, Beside, Accompanied, Carrying
  <2>7. Beside'
    BY <2>1, <2>3, <2>6 DEF Beside, Accompanied
  <2>8. Halfway' /\ Apart'
    BY <1>0, <2>1, <2>3 DEF Notebook, Halfway, Apart, TwoCaches, Pending
  <2>9. QED
    BY <2>5, <2>7, <2>8 DEF Notebook
<1>5. CASE Rollback
  <2>1. /\ UNCHANGED <<cache, marks, clips, clipsBak, aside, journal, written, late, external>>
        /\ pc = "rollback" /\ pc' \in {"dropJournal", "idle"}
    BY <1>5 DEF Rollback, hist
  <2>2. CASE file' = file
    BY <1>0, <1>5, <2>1, <2>2, NotesStill DEF Rollback
  <2>3. CASE file' # file
    <3>1. /\ file' = [file EXCEPT ![op.from] = file[op.to], ![op.to] = NoBook]
          /\ cache[op.from] # NoBook /\ cache[op.to] = NoBook /\ ~Exists(op.from)
      BY <1>5, <2>3 DEF Rollback
    <3>2. /\ Pending /\ journal.from = op.from /\ journal.to = op.to /\ op.from # op.to
          /\ op.from \in Paths /\ op.to \in Paths /\ ~journal.recovery
      BY <2>1, Calling DEF CallOK, FilesOK
    <3>3. \A n \in Safe : ~NoteAt(n, op.to)
      <4>1. CASE file[op.to] \in harm
        <5>1. \A n \in Safe : ~AtHome(Owner[n], op.to)
          BY <3>2, <4>1, SafeOwners DEF AtHome
        <5>2. QED
          BY <3>2, <5>1, SafeAtHome
      <4>2. CASE ~HasPriorState(op.to)
        BY <2>1, <4>2 DEF HasPriorState, NoteAt
      <4>3. QED
        BY <2>1, <3>1, <4>1, <4>2 DEF Fresh
    <3>4. Safe' \subseteq Safe /\ \A n \in Safe, p \in Paths : NoteAt(n, p)' <=> NoteAt(n, p)
      BY <1>0, <2>1 DEF Safe, NoteAt
    <3>5. \A n \in Safe, p \in Paths : AtHome(Owner[n], p) /\ p # op.to => AtHome(Owner[n], p)'
      <4>1. SUFFICES ASSUME NEW n \in Safe, NEW p \in Paths, p # op.to,
                            file[p] = Owner[n] \/ (p = op.from /\ file[op.to] = Owner[n])
                     PROVE  file'[p] = Owner[n]
        BY <3>2 DEF AtHome
      <4>2. QED
        BY <3>1, <3>2, <4>1, SafeOwners DEF CardOK, Exists
    <3>6. NotesHome'
      BY <1>0, <3>3, <3>4, <3>5 DEF Notebook, NotesHome
    <3>7. \A n \in Safe, p \in Paths : NoteAt(n, p) => cache[p] # NoBook
      BY <1>0, <3>1, <3>2 DEF Notebook, Beside, Accompanied, Carrying
    <3>8. Beside'
      BY <2>1, <3>4, <3>7 DEF Beside, Accompanied
    <3>9. Halfway' /\ Apart'
      BY <1>0, <2>1, <3>4 DEF Notebook, Halfway, Apart, TwoCaches, Pending
    <3>10. QED
      BY <3>6, <3>8, <3>9 DEF Notebook
  <2>4. QED
    BY <2>2, <2>3
<1>6. CASE DropJournal
  <2>1. /\ UNCHANGED <<card, written, late, external>>
        /\ pc \notin Swapping \cup Replacing /\ pc' \notin Midway
        /\ journal' = journal \/ ~Pending'
    BY <1>6, Journals DEF DropJournal, hist, Pending
  <2>2. Delivered
    BY <1>6 DEF DropJournal, Delivered, FilesOK
  <2>3. QED
    BY <1>0, <2>1, <2>2, NotesStill, NotesDropped
<1>7. CASE RecoverPendingMove
  <2>1. /\ UNCHANGED <<card, written, late, external>>
        /\ pc \notin Swapping \cup Replacing /\ pc' \notin Midway
        /\ journal' = journal \/ (~Pending' /\ NotRenamed)
    BY <1>7, Journals, Returns DEF RecoverPendingMove, NothingPending, NotRenamed, Refuse,
       BeginMigration, hist, Pending
  <2>2. NotRenamed => Delivered
    BY DEF NotRenamed, Delivered
  <2>3. QED
    BY <1>0, <2>1, <2>2, NotesStill, NotesDropped
<1>8. CASE BackupCache
  <2>1. /\ UNCHANGED <<file, marks, clips, clipsBak, aside, journal, written, late, external>>
        /\ pc = "backupCache" /\ pc' = "backupMarks"
        /\ cache' = [cache EXCEPT ![journal.to] = NoBook]
    BY <1>8 DEF BackupCache, hist
  <2>2. Pending /\ journal.recovery /\ ~journal.backedUp /\ journal.to \in Paths
    BY <2>1 DEF MigratingOK, JournalOK, BackupLabels, Migrating
  <2>3. Safe' \subseteq Safe /\ \A n \in Safe, x \in Paths : NoteAt(n, x)' <=> NoteAt(n, x)
    BY <1>0, <2>1 DEF Safe, NoteAt
  <2>4. NotesHome'
    BY <1>0, <2>1, <2>3 DEF Notebook, NotesHome, AtHome, Pending
  <2>5. Beside'
    BY <1>0, <2>1, <2>2, <2>3 DEF Notebook, Beside, Accompanied, Carrying, Pending, CardOK
  <2>6. Halfway' /\ Apart'
    BY <2>1, <2>2 DEF Halfway, Apart
  <2>7. QED
    BY <2>4, <2>5, <2>6 DEF Notebook
<1>9. CASE BackupMarks
  <2>1. /\ UNCHANGED <<file, cache, clips, clipsBak, journal, written, late, external>>
        /\ pc = "backupMarks" /\ pc' = "backupClips" /\ aside' = aside \cup marks[journal.to]
        /\ marks' = [marks EXCEPT ![journal.to] = {}]
    BY <1>9 DEF BackupMarks, hist
  <2>2. Pending /\ journal.recovery /\ ~journal.backedUp /\ journal.to \in Paths
    BY <2>1 DEF MigratingOK, JournalOK, BackupLabels, Migrating
  <2>3. Safe' \subseteq Safe \ marks[journal.to]
    BY <1>0, <2>1 DEF Safe
  <2>4. \A n \in Safe', x \in Paths : NoteAt(n, x)' <=> NoteAt(n, x)
    BY <2>1, <2>3 DEF NoteAt, CardOK
  <2>5. NotesHome'
    BY <1>0, <2>1, <2>3, <2>4 DEF Notebook, NotesHome, AtHome, Pending
  <2>6. Beside'
    BY <1>0, <2>1, <2>3, <2>4 DEF Notebook, Beside, Accompanied, Carrying, Pending, Exists
  <2>7. Halfway' /\ Apart'
    BY <1>0, <2>1, <2>2 DEF Notebook, Halfway, Apart, CardOK
  <2>8. QED
    BY <2>5, <2>6, <2>7 DEF Notebook
<1>10. CASE BackupClips
  <2>1. /\ UNCHANGED <<file, cache, marks, clipsBak, journal, written, late, external>>
        /\ pc = "backupClips" /\ pc' = "markBackedUp" /\ aside' = aside \cup clips[journal.to]
        /\ clips' = [clips EXCEPT ![journal.to] = {}]
    BY <1>10 DEF BackupClips, hist
  <2>2. Pending /\ journal.recovery /\ ~journal.backedUp /\ journal.to \in Paths
    BY <2>1 DEF MigratingOK, JournalOK, BackupLabels, Migrating
  <2>3. Safe' \subseteq Safe \ clips[journal.to]
    BY <1>0, <2>1 DEF Safe
  <2>4. \A n \in Safe', x \in Paths : NoteAt(n, x)' <=> NoteAt(n, x)
    BY <2>1, <2>3 DEF NoteAt, CardOK
  <2>5. NotesHome'
    BY <1>0, <2>1, <2>3, <2>4 DEF Notebook, NotesHome, AtHome, Pending
  <2>6. Beside'
    BY <1>0, <2>1, <2>3, <2>4 DEF Notebook, Beside, Accompanied, Carrying, Pending, Exists
  <2>7. Halfway' /\ Apart'
    BY <1>0, <2>1, <2>2 DEF Notebook, Halfway, Apart, CardOK
  <2>8. QED
    BY <2>5, <2>6, <2>7 DEF Notebook
<1>11. CASE MarkBackedUp
  <2>1. /\ UNCHANGED <<card, written, late, external>> /\ pc = "markBackedUp" /\ pc' = "cache"
        /\ journal' = [journal EXCEPT !.backedUp = TRUE]
    BY <1>11 DEF MarkBackedUp, hist
  <2>2. /\ journal'.from = journal.from /\ journal'.to = journal.to /\ Pending' /\ Pending
        /\ journal.recovery /\ ~journal.backedUp
    BY <2>1 DEF JournalOK, MigratingOK, BackupLabels, Migrating, Pending
  <2>3. marks[journal.to] = {} /\ clips[journal.to] = {}
    BY <1>0, <2>1 DEF Notebook, Halfway
  <2>4. Safe' \subseteq Safe /\ \A n \in Safe, x \in Paths : NoteAt(n, x)' <=> NoteAt(n, x)
    BY <1>0, <2>1 DEF Safe, NoteAt
  <2>5. NotesHome'
    BY <1>0, <2>1, <2>2, <2>4 DEF Notebook, NotesHome, AtHome
  <2>6. \A n \in Safe, x \in Paths : NoteAt(n, x) => cache[x] # NoBook
    BY <1>0, <2>1, <2>2, <2>3 DEF Notebook, Beside, Accompanied, Carrying, NoteAt
  <2>7. Beside'
    BY <2>1, <2>4, <2>6 DEF Beside, Accompanied
  <2>8. Halfway' /\ Apart'
    BY <2>1, <2>2, <2>3 DEF Halfway, Apart
  <2>9. QED
    BY <2>5, <2>7, <2>8 DEF Notebook
<1>12. CASE MigrateCache
  <2>1. /\ UNCHANGED <<file, marksTorn, marks, clips, clipsBak, aside, journal, written, late, external>>
        /\ pc = "cache" /\ pc' \in {"marks", "rollback", "preflight", "writeJournal", "idle"}
    BY <1>12, Returns DEF MigrateCache, hist
  <2>2. /\ Pending /\ journal.from \in Paths /\ journal.to \in Paths
        /\ journal.from # journal.to /\ Migrating
    BY <2>1, Between DEF Migrating, MoveLabels, AfterCache, AfterMarks
  <2>3. CASE cache' = cache
    BY <1>0, <2>1, <2>3, NotesStill
  <2>4. CASE cache' # cache
    <3>1. /\ cache[journal.from] # NoBook /\ cache[journal.to] = NoBook
          /\ cache' = [cache EXCEPT ![journal.to] = cache[journal.from], ![journal.from] = NoBook]
      BY <1>12, <2>4 DEF MigrateCache
    <3>2. Safe' \subseteq Safe /\ \A n \in Safe, x \in Paths : NoteAt(n, x)' <=> NoteAt(n, x)
      BY <1>0, <2>1 DEF Safe, NoteAt
    <3>3. NotesHome'
      BY <1>0, <2>1, <3>2 DEF Notebook, NotesHome, AtHome, Pending
    <3>4. Carrying /\ (journal.recovery => journal.backedUp)
      BY <2>1, <2>2 DEF MigratingOK, MoveLabels, Carrying
    <3>5. \A x \in Paths : Accompanied(x) => Accompanied(x)'
      BY <2>1, <2>2, <3>1, <3>4 DEF Accompanied, Carrying, Pending, Exists, CardOK
    <3>6. Beside'
      BY <1>0, <3>2, <3>5 DEF Notebook, Beside
    <3>7. Halfway' /\ Apart'
      BY <1>0, <2>1, <3>1, <3>2 DEF Notebook, Halfway, Apart, TwoCaches, Pending
    <3>8. QED
      BY <3>3, <3>6, <3>7 DEF Notebook
  <2>5. QED
    BY <2>3, <2>4
<1>13. CASE MigrateMarks
  <2>1. /\ UNCHANGED <<file, marksTorn, cache, clips, clipsBak, aside, journal, written, late, external>>
        /\ pc = "marks" /\ pc' \in {"marksDelete", "clips", "rollback", "idle"}
    BY <1>13, StepFails DEF MigrateMarks, hist
  <2>2. /\ Pending /\ journal.from \in Paths /\ journal.to \in Paths
        /\ journal.from # journal.to /\ Migrating
    BY <2>1, Between DEF Migrating, MoveLabels, AfterCache, AfterMarks
  <2>3. marks[journal.from] # {} => Safe \cap marks[journal.to] \subseteq marks[journal.from]
    BY <1>0, <2>1, ApartAhead DEF AfterCache, AfterMarks
  <2>4. CASE marks' = marks /\ pc' # "marksDelete"
    BY <1>0, <2>1, <2>4, NotesStill DEF MigrateMarks
  <2>5. CASE pc' = "marksDelete"
    <3>1. marks[journal.from] # {} \/ marks' = marks
      BY <1>13, StepFails, <2>5 DEF MigrateMarks
    <3>2. marks' = [marks EXCEPT ![journal.to] = @ \cup marks[journal.from]]
      BY <1>13, StepFails, <2>5 DEF MigrateMarks
    <3>3. Safe' \subseteq Safe
      BY <1>0, <2>1 DEF Safe
    <3>4. \A n \in Safe, x \in Paths :
            /\ NoteAt(n, x) => NoteAt(n, x)'
            /\ NoteAt(n, x)' => NoteAt(n, x) \/ (x = journal.to /\ NoteAt(n, journal.from))
      BY <2>1, <2>2, <2>5, <3>2 DEF NoteAt, CardOK
    <3>5. NotesHome'
      BY <1>0, <2>1, <3>3, <3>4 DEF Notebook, NotesHome, AtHome, Pending
    <3>6. \A n \in Safe : NoteAt(n, journal.from) => cache[journal.to] # NoBook
      BY <1>0, <2>1, BesideAhead DEF AfterCache
    <3>7. Beside'
      BY <1>0, <2>1, <3>3, <3>4, <3>6 DEF Notebook, Beside, Accompanied, Carrying, Pending,
         Exists
    <3>8. Safe \cap marks'[journal.to] \subseteq marks'[journal.from] \/ marks[journal.from] = {}
      BY <2>2, <2>3, <3>2 DEF CardOK
    <3>9. /\ marks'[journal.from] = marks[journal.from]
          /\ marks'[journal.from] \subseteq marks'[journal.to]
      BY <2>2, <3>2 DEF CardOK
    <3>10. Halfway' /\ Apart'
      BY <1>0, <2>1, <2>5, <3>3, <3>8, <3>9 DEF Notebook, Halfway, Apart, TwoCaches,
         Pending
    <3>11. QED
      BY <3>5, <3>7, <3>10 DEF Notebook
  <2>6. QED
    BY <1>13, StepFails, <2>4, <2>5 DEF MigrateMarks
<1>14. CASE MigrateMarksDelete
  <2>1. /\ UNCHANGED <<file, marksTorn, cache, clips, clipsBak, aside, journal, written, late, external>>
        /\ pc = "marksDelete" /\ pc' \in {"clips", "rollback", "idle"}
        /\ marks' = marks \/ marks' = [marks EXCEPT ![journal.from] = {}]
    BY <1>14, StepFails DEF MigrateMarksDelete, hist
  <2>2. /\ Pending /\ journal.from \in Paths /\ journal.to \in Paths
        /\ journal.from # journal.to /\ Migrating
    BY <2>1, Between DEF Migrating, MoveLabels, AfterCache, AfterMarks
  <2>3. CASE marks' = marks
    BY <1>0, <2>1, <2>3, NotesStill
  <2>4. CASE marks' = [marks EXCEPT ![journal.from] = {}]
    <3>1. Safe' \subseteq Safe
      BY <1>0, <2>1 DEF Safe
    <3>2. Safe \cap marks[journal.from] \subseteq marks[journal.to]
      BY <1>0, <2>1 DEF Notebook, Halfway
    <3>3. \A n \in Safe, x \in Paths :
            /\ NoteAt(n, x) => NoteAt(n, x)' \/ (x = journal.from /\ NoteAt(n, journal.to)')
            /\ NoteAt(n, x)' => NoteAt(n, x)
      BY <2>1, <2>2, <2>4, <3>2 DEF NoteAt, CardOK
    <3>4. \A n \in Safe : AtHome(Owner[n], journal.from) => AtHome(Owner[n], journal.to)
      BY <2>2, Between
    <3>5. NotesHome'
      BY <1>0, <2>1, <2>2, <3>1, <3>3, <3>4 DEF Notebook, NotesHome, AtHome, Pending
    <3>6. Beside'
      BY <1>0, <2>1, <3>1, <3>3 DEF Notebook, Beside, Accompanied, Carrying, Pending, Exists
    <3>7. Halfway' /\ Apart'
      BY <1>0, <2>1, <2>2, <2>4, <3>1 DEF Notebook, Halfway, Apart, TwoCaches, Pending,
         CardOK
    <3>8. QED
      BY <3>5, <3>6, <3>7 DEF Notebook
  <2>5. QED
    BY <2>1, <2>3, <2>4
<1>15. CASE MigrateClips
  <2>1. /\ UNCHANGED <<file, cache, marks, aside, journal, written, late, external>> /\ pc = "clips"
    BY <1>15 DEF MigrateClips, hist
  <2>2. /\ Pending /\ journal.from \in Paths /\ journal.to \in Paths
        /\ journal.from # journal.to /\ Migrating
    BY <2>1, Between DEF Migrating, MoveLabels, AfterCache, AfterMarks
  <2>3. clips[journal.from] # {} => Safe \cap clips[journal.to] = {}
    BY <1>0, <2>1, ApartAhead DEF AfterCache, AfterMarks
  <2>4. CASE clips[journal.from] = {}
    BY <1>0, <1>15, <2>1, <2>4, NotesStill DEF MigrateClips
  <2>5. CASE clips[journal.from] # {}
    <3>1. /\ clipsBak' = [clipsBak EXCEPT ![journal.from] = clips[journal.from]]
          /\ clips' = [clips EXCEPT ![journal.from] = {}] /\ pc' = "clipSwap"
      BY <1>15, <2>5 DEF MigrateClips
    <3>2. Safe' \subseteq Safe
      BY <1>0, <2>1 DEF Safe
    <3>3. \A n \in Safe, x \in Paths : NoteAt(n, x)' <=> NoteAt(n, x)
      BY <2>1, <2>2, <3>1 DEF NoteAt, CardOK
    <3>4. NotesHome' /\ Beside'
      BY <1>0, <2>1, <3>2, <3>3
         DEF Notebook, NotesHome, Beside, AtHome, Accompanied, Carrying, Pending, Exists
    <3>5. Safe \cap clips[journal.to] = {}
      BY <2>3, <2>5
    <3>6. Halfway' /\ Apart'
      BY <1>0, <2>1, <2>2, <3>1, <3>2, <3>5
         DEF Notebook, Halfway, Apart, TwoCaches, Pending, CardOK
    <3>7. QED
      BY <3>4, <3>6 DEF Notebook
  <2>6. QED
    BY <2>4, <2>5
<1>16. CASE ClipsSwap
  <2>1. /\ UNCHANGED <<file, cache, marks, clipsBak, aside, journal, written, late, external>>
        /\ pc = "clipSwap" /\ pc' \in {"clipUnbak", "clipUndo"}
        /\ clips' = IF pc' = "clipUndo" THEN clips
                    ELSE [clips EXCEPT ![journal.from] = clipsBak[journal.from]]
    BY <1>16 DEF ClipsSwap, hist
  <2>2. /\ Pending /\ journal.from \in Paths /\ journal.to \in Paths
        /\ journal.from # journal.to /\ Migrating
    BY <2>1, Between DEF Migrating, MoveLabels, AfterCache, AfterMarks
  <2>3. Safe' \subseteq Safe
    BY <1>0, <2>1 DEF Safe
  <2>4. clips[journal.from] = {} /\ Safe \cap clips[journal.to] = {}
    BY <1>0, <2>1 DEF Notebook, Halfway
  <2>5. \A n \in Safe, x \in Paths : NoteAt(n, x)' <=> NoteAt(n, x)
    BY <2>1, <2>2, <2>4 DEF NoteAt, CardOK
  <2>6. NotesHome' /\ Beside'
    BY <1>0, <2>1, <2>3, <2>5
       DEF Notebook, NotesHome, Beside, AtHome, Accompanied, Carrying, Pending, Exists
  <2>7. clips'[journal.to] = clips[journal.to]
    BY <2>1, <2>2 DEF CardOK
  <2>8. Halfway' /\ Apart'
    BY <1>0, <2>1, <2>3, <2>4, <2>7 DEF Notebook, Halfway, Apart, TwoCaches, Pending
  <2>9. QED
    BY <2>6, <2>8 DEF Notebook
<1>16a. CASE ClipsUndo
  <2>1. /\ UNCHANGED <<file, cache, marks, aside, journal, written, late, external>>
        /\ pc \in {"clipUndo", "clipRestore"} /\ pc' \in {"recents", "rollback", "idle"}
    BY <1>16a, StepFails DEF ClipsUndo, hist
  <2>2. /\ Pending /\ journal.from \in Paths /\ journal.to \in Paths
        /\ journal.from # journal.to /\ Migrating
    BY <2>1, Between DEF Migrating, MoveLabels, AfterCache, AfterMarks
  <2>3. CASE UNCHANGED <<clips, clipsBak>> /\ Fault(InBak)
    <3>1. UNCHANGED <<card, journal, written, late, external>> /\ pc' \notin Midway
      BY <1>16a, <2>1, <2>3 DEF ClipsUndo
    <3>2. QED
      BY <1>0, <2>3, <3>1, NotesStill DEF Fault
  <2>4. CASE pc = "clipUndo" /\ clips' = [clips EXCEPT ![journal.from] = clipsBak[journal.from]]
             /\ clipsBak' = [clipsBak EXCEPT ![journal.from] = {}]
    <3>1. Safe' \subseteq Safe /\ clips[journal.from] = {} /\ Safe \cap clips[journal.to] = {}
      BY <1>0, <2>1, <2>4 DEF Safe, Notebook, Halfway
    <3>2. clips'[journal.to] = clips[journal.to]
      BY <2>2, <2>4 DEF CardOK
    <3>3. \A n \in Safe, x \in Paths : NoteAt(n, x)' <=> NoteAt(n, x)
      BY <2>1, <2>2, <2>4, <3>1 DEF NoteAt, CardOK
    <3>4. NotesHome' /\ Beside'
      BY <1>0, <2>1, <3>1, <3>3
         DEF Notebook, NotesHome, Beside, AtHome, Accompanied, Carrying, Pending, Exists
    <3>5. Halfway' /\ Apart'
      BY <1>0, <2>1, <3>1, <3>2 DEF Notebook, Halfway, Apart, TwoCaches, Pending
    <3>6. QED
      BY <3>4, <3>5 DEF Notebook
  <2>5. CASE pc = "clipRestore" /\ clips' = [clips EXCEPT ![journal.to] = clipsBak[journal.to]]
             /\ clipsBak' = [clipsBak EXCEPT ![journal.to] = {}]
    <3>1. /\ Safe' \subseteq Safe
          /\ Safe \cap clips[journal.to] = {} /\ Safe \cap clipsBak[journal.to] = {}
      BY <1>0, <2>1, <2>5 DEF Safe, Notebook, Halfway
    <3>2. Safe \cap clips'[journal.to] = {} /\ clips'[journal.from] = clips[journal.from]
      BY <2>2, <2>5, <3>1 DEF CardOK
    <3>3. \A n \in Safe, x \in Paths : NoteAt(n, x)' <=> NoteAt(n, x)
      BY <2>1, <2>2, <2>5, <3>1, <3>2 DEF NoteAt, CardOK
    <3>4. NotesHome' /\ Beside'
      BY <1>0, <2>1, <3>1, <3>3
         DEF Notebook, NotesHome, Beside, AtHome, Accompanied, Carrying, Pending, Exists
    <3>5. Halfway' /\ Apart'
      BY <1>0, <2>1, <3>1, <3>2 DEF Notebook, Halfway, Apart, TwoCaches, Pending
    <3>6. QED
      BY <3>4, <3>5 DEF Notebook
  <2>6. QED
    BY <1>16a, <2>3, <2>4, <2>5 DEF ClipsUndo
<1>17. CASE ClipsUnbak
  <2>1. /\ UNCHANGED <<file, cache, marks, clips, aside, journal, written, late, external>>
        /\ pc = "clipUnbak" /\ pc' = "clipAside"
    BY <1>17 DEF ClipsUnbak, hist
  <2>2. Safe' \subseteq Safe /\ \A n \in Safe, x \in Paths : NoteAt(n, x)' <=> NoteAt(n, x)
    BY <1>0, <2>1 DEF Safe, NoteAt
  <2>3. NotesHome' /\ Beside'
    BY <1>0, <2>1, <2>2
       DEF Notebook, NotesHome, Beside, AtHome, Accompanied, Carrying, Pending, Exists
  <2>4. Halfway' /\ Apart'
    BY <1>0, <2>1, <2>2 DEF Notebook, Halfway, Apart, TwoCaches, Pending
  <2>5. QED
    BY <2>3, <2>4 DEF Notebook
<1>18. CASE ClipsAside
  <2>1. /\ UNCHANGED <<file, cache, marks, aside, journal, written, late, external>>
        /\ pc = "clipAside" /\ pc' \in {"clipMove", "clipReplace"}
        /\ pc' = "clipMove" => clips' = clips
        /\ pc' = "clipReplace" =>
             /\ clipsBak' = [clipsBak EXCEPT ![journal.to] = clips[journal.to]]
             /\ clips' = [clips EXCEPT ![journal.to] = {}]
    BY <1>18 DEF ClipsAside, hist
  <2>2. /\ Pending /\ journal.from \in Paths /\ journal.to \in Paths
        /\ journal.from # journal.to /\ Migrating
    BY <2>1, Between DEF Migrating, MoveLabels, AfterCache, AfterMarks
  <2>3. Safe' \subseteq Safe /\ Safe \cap clips[journal.to] = {}
    BY <1>0, <2>1 DEF Safe, Notebook, Halfway
  <2>4. \A n \in Safe, x \in Paths : NoteAt(n, x)' <=> NoteAt(n, x)
    BY <2>1, <2>2 DEF NoteAt, CardOK
  <2>5. NotesHome' /\ Beside'
    BY <1>0, <2>1, <2>3, <2>4
       DEF Notebook, NotesHome, Beside, AtHome, Accompanied, Carrying, Pending, Exists
  <2>6. /\ Safe \cap clips'[journal.to] = {}
        /\ pc' = "clipReplace" => Safe \cap clipsBak'[journal.to] = {}
    BY <2>1, <2>2, <2>3 DEF CardOK
  <2>7. Halfway' /\ Apart'
    BY <1>0, <2>1, <2>3, <2>6 DEF Notebook, Halfway, Apart, TwoCaches, Pending
  <2>8. QED
    BY <2>5, <2>7 DEF Notebook
<1>19. CASE ClipsMove
  <2>1. /\ UNCHANGED <<file, cache, marks, aside, journal, written, late, external>>
        /\ pc \in {"clipMove", "clipReplace"} /\ pc' = "recents"
        /\ clips' = [clips EXCEPT ![journal.to] = clips[journal.from], ![journal.from] = {}]
    BY <1>19 DEF ClipsMove, hist
  <2>2. /\ Pending /\ journal.from \in Paths /\ journal.to \in Paths
        /\ journal.from # journal.to /\ Migrating
    BY <2>1, Between DEF Migrating, MoveLabels, AfterCache, AfterMarks
  <2>3. Safe' \subseteq Safe
    BY <1>0, <2>1 DEF Safe
  <2>4. /\ Safe \cap clips[journal.to] = {}
        /\ pc = "clipReplace" => Safe \cap clipsBak[journal.to] = {}
    BY <1>0, <2>1 DEF Notebook, Halfway
  <2>5. \A n \in Safe, x \in Paths :
          /\ NoteAt(n, x) => NoteAt(n, x)' \/ (x = journal.from /\ NoteAt(n, journal.to)')
          /\ NoteAt(n, x)' => NoteAt(n, x) \/ (x = journal.to /\ NoteAt(n, journal.from))
    BY <2>1, <2>2, <2>4 DEF NoteAt, CardOK
  <2>6. \A n \in Safe : AtHome(Owner[n], journal.from) => AtHome(Owner[n], journal.to)
    BY <2>2, Between
  <2>7. NotesHome'
    BY <1>0, <2>1, <2>2, <2>3, <2>5, <2>6 DEF Notebook, NotesHome, AtHome, Pending
  <2>8. \A n \in Safe : NoteAt(n, journal.from) => cache[journal.to] # NoBook
    BY <1>0, <2>1, BesideAhead DEF AfterCache, AfterMarks
  <2>9. Beside'
    BY <1>0, <2>1, <2>3, <2>5, <2>8 DEF Notebook, Beside, Accompanied, Carrying, Pending,
       Exists
  <2>10. clips'[journal.from] = {}
    BY <2>1, <2>2 DEF CardOK
  <2>11. Halfway' /\ Apart'
    BY <1>0, <2>1, <2>3, <2>10 DEF Notebook, Halfway, Apart, TwoCaches, Pending
  <2>12. QED
    BY <2>7, <2>9, <2>11 DEF Notebook
<1>20. CASE MigrateRecents
  <2>1. /\ UNCHANGED <<card, journal, written, late, external>>
        /\ pc \notin Swapping /\ pc' \notin Midway
    BY <1>20, <1>0 DEF MigrateRecents, hist
  <2>2. QED
    BY <1>0, <2>1, NotesStill
<1>21. CASE MigrateResume
  <2>1. /\ UNCHANGED <<card, journal, written, late, external>>
        /\ pc \notin Swapping /\ pc' \notin Midway
    BY <1>21, <1>0, Returns DEF MigrateResume, hist
  <2>2. QED
    BY <1>0, <2>1, NotesStill
<1>22. CASE MoveHint
  <2>1. /\ UNCHANGED <<card, journal, written, late, external>>
        /\ pc \notin Swapping /\ pc' \notin Midway
    BY <1>22, <1>0, Returns DEF MoveHint, hist
  <2>2. QED
    BY <1>0, <2>1, NotesStill
<1>23. CASE FinishMove
  <2>1. /\ UNCHANGED <<card, written, late, external>>
        /\ pc \notin Swapping \cup Replacing /\ pc' \notin Midway
        /\ journal' = journal \/ ~Pending'
    BY <1>23, Journals, Returns DEF FinishMove, hist, Pending
  <2>2. Delivered
    BY <1>23 DEF FinishMove, Delivered, MovedOut, MigratingOK, MoveLabels, AfterCache,
       AfterMarks, AfterClips
  <2>3. QED
    BY <1>0, <2>1, <2>2, NotesStill, NotesDropped
<1>24. CASE PowerLoss
  <2>1. /\ UNCHANGED <<card, journal, written, late, external>>
        /\ InBak \subseteq harm' /\ pc' \notin Midway
    BY <1>24, <1>0 DEF PowerLoss, LoseRam, Fault, hist
  <2>2. QED
    BY <1>0, <2>1, NotesStill
<1>25. CASE PowerLossInWrite
  <2>1. UNCHANGED <<file, cache, clips, clipsBak, aside, written, late, external>> /\ pc' = "boot"
    BY <1>25 DEF PowerLossInWrite, LoseRam, hist
  <2>2. CASE pc = "writeJournal" /\ journal' = TornJournal /\ UNCHANGED card
    <3>1. Delivered
      BY <2>2 DEF Delivered, Settled, Emptied, Pending
    <3>2. QED
      BY <1>0, <2>1, <2>2, <3>1, Journals, NotesDropped DEF Pending
  <2>3. CASE pc \in {"recents", "resume"} /\ UNCHANGED <<card, journal>>
    BY <1>0, <2>1, <2>3, NotesStill
  <2>4. CASE /\ pc = "marks" /\ marks[journal.from] # {} /\ UNCHANGED journal
             /\ marks' = [marks EXCEPT ![journal.to] = {}]
    <3>1. /\ Pending /\ journal.from \in Paths /\ journal.to \in Paths
          /\ journal.from # journal.to /\ Migrating
      BY <2>4, Between DEF Migrating, MoveLabels, AfterCache
    <3>2. Safe' \subseteq Safe
      BY <1>0, <2>1 DEF Safe
    <3>3. Safe \cap marks[journal.to] \subseteq marks[journal.from]
      BY <1>0, <2>4, ApartAhead DEF AfterCache
    <3>4. \A n \in Safe, x \in Paths :
            /\ NoteAt(n, x) => NoteAt(n, x)' \/ (x = journal.to /\ NoteAt(n, journal.from)')
            /\ NoteAt(n, x)' => NoteAt(n, x)
      BY <2>1, <2>4, <3>1, <3>3 DEF NoteAt, CardOK
    <3>5. \A n \in Safe : AtHome(Owner[n], journal.to) => AtHome(Owner[n], journal.from)
      BY <3>1, Between
    <3>6. NotesHome'
      BY <1>0, <2>1, <2>4, <3>1, <3>2, <3>4, <3>5 DEF Notebook, NotesHome, AtHome, Pending
    <3>7. Beside'
      BY <1>0, <2>1, <2>4, <3>2, <3>4 DEF Notebook, Beside, Accompanied, Carrying, Pending,
         Exists
    <3>8. marks'[journal.to] = {}
      BY <2>4, <3>1 DEF CardOK
    <3>9. Halfway' /\ Apart'
      BY <1>0, <2>1, <2>4, <3>2, <3>8 DEF Notebook, Halfway, Apart, TwoCaches, Pending
    <3>10. QED
      BY <3>6, <3>7, <3>9 DEF Notebook
  <2>5. QED
    BY <1>25, <2>2, <2>3, <2>4 DEF PowerLossInWrite
<1>26. CASE WriteJournalFails
  <2>1. /\ UNCHANGED <<card, written, late, external>>
        /\ pc \notin Swapping \cup Replacing /\ pc' \notin Midway
        /\ journal' = journal \/ ~Pending'
    BY <1>26, Journals DEF WriteJournalFails, hist, Pending
  <2>2. Delivered
    BY <1>26 DEF WriteJournalFails, Delivered, Settled, Emptied, Pending
  <2>3. QED
    BY <1>0, <2>1, <2>2, NotesStill, NotesDropped
<1>27. CASE RenameFileFails
  <2>1. /\ UNCHANGED <<card, journal, written, late, external>>
        /\ pc \notin Swapping /\ pc' \notin Midway
    BY <1>27, <1>0 DEF RenameFileFails, hist
  <2>2. QED
    BY <1>0, <2>1, NotesStill
<1>28. CASE RecoverFails
  <2>1. /\ UNCHANGED <<card, journal, written, late, external>>
        /\ pc \notin Swapping /\ pc' \notin Midway
    BY <1>28, <1>0, Returns DEF RecoverFails, hist
  <2>2. QED
    BY <1>0, <2>1, NotesStill
<1>29. CASE BackupFails
  <2>1. /\ UNCHANGED <<card, journal, written, late, external>>
        /\ pc \notin Swapping /\ pc' \notin Midway
    BY <1>29, <1>0, Returns DEF BackupFails, hist
  <2>2. QED
    BY <1>0, <2>1, NotesStill
<1>30. CASE MigrateCacheFails
  <2>1. /\ UNCHANGED <<card, journal, written, late, external>>
        /\ pc \notin Swapping /\ pc' \notin Midway
    BY <1>30, <1>0, StepFails DEF MigrateCacheFails, hist
  <2>2. QED
    BY <1>0, <2>1, NotesStill
<1>31. CASE MigrateMarksFails
  <2>1. /\ UNCHANGED <<card, journal, written, late, external>>
        /\ pc \notin Swapping /\ pc' \notin Midway
    BY <1>31, <1>0, StepFails DEF MigrateMarksFails, hist
  <2>2. QED
    BY <1>0, <2>1, NotesStill
<1>32. CASE MigrateMarksShort
  <2>1. /\ UNCHANGED <<file, cache, clips, clipsBak, aside, journal, written, late, external>>
        /\ pc = "marks" /\ pc' = "marksDelete" /\ marks' = [marks EXCEPT ![journal.to] = {}]
        /\ marks[journal.from] \cup marks[journal.to] \subseteq harm'
    BY <1>32 DEF MigrateMarksShort, Fault, hist
  <2>2. /\ Pending /\ journal.from \in Paths /\ journal.to \in Paths
        /\ journal.from # journal.to /\ Migrating
    BY <2>1, Between DEF Migrating, MoveLabels, AfterCache
  <2>3. Safe' \subseteq Safe \ (marks[journal.from] \cup marks[journal.to])
    BY <1>0, <2>1 DEF Safe
  <2>4. \A n \in Safe', x \in Paths : NoteAt(n, x)' <=> NoteAt(n, x)
    BY <2>1, <2>2, <2>3 DEF NoteAt, CardOK
  <2>5. NotesHome' /\ Beside'
    BY <1>0, <2>1, <2>3, <2>4
       DEF Notebook, NotesHome, Beside, AtHome, Accompanied, Carrying, Pending, Exists
  <2>6. marks'[journal.to] = {} /\ marks'[journal.from] = marks[journal.from]
    BY <2>1, <2>2 DEF CardOK
  <2>7. Halfway' /\ Apart'
    BY <1>0, <2>1, <2>3, <2>6 DEF Notebook, Halfway, Apart, TwoCaches, Pending
  <2>8. QED
    BY <2>5, <2>7 DEF Notebook
<1>33. CASE ClipsMoveFails
  <2>1. UNCHANGED <<card, journal, written, late, external>> /\ pc \notin Swapping
    BY <1>33 DEF ClipsMoveFails, hist
  <2>2. CASE pc = "clipReplace" /\ pc' = "clipRestore"
    <3>1. Safe' \subseteq Safe /\ \A n \in Safe, x \in Paths : NoteAt(n, x)' <=> NoteAt(n, x)
      BY <1>0, <2>1, <2>2 DEF Safe, NoteAt
    <3>2. NotesHome' /\ Beside'
      BY <1>0, <2>1, <3>1
         DEF Notebook, NotesHome, Beside, AtHome, Accompanied, Carrying, Pending, Exists
    <3>3. Halfway' /\ Apart'
      BY <1>0, <2>1, <2>2, <3>1 DEF Notebook, Halfway, Apart, TwoCaches, Pending
    <3>4. QED
      BY <3>2, <3>3 DEF Notebook
  <2>3. CASE pc' \in {"recents", "rollback", "idle"}
    BY <1>0, <2>1, <2>3, NotesStill
  <2>4. QED
    BY <1>33, <2>2, <2>3, StepFails DEF ClipsMoveFails
<1>34. CASE Sleep
  <2>1. /\ UNCHANGED <<card, journal, written, late, external>>
        /\ pc \notin Swapping /\ pc' \notin Midway
    BY <1>34, <1>0 DEF Sleep, LoseRam, hist
  <2>2. QED
    BY <1>0, <2>1, NotesStill
<1>35. ASSUME NEW p \in Paths, OpenBook(p)
      PROVE  Notebook'
  <2>1. /\ UNCHANGED <<file, marks, clips, clipsBak, aside, journal, written, late, external>>
        /\ pc = "idle" /\ pc' = "idle"
        /\ \A x \in Paths : cache[x] # NoBook => cache'[x] # NoBook
    BY <1>35 DEF OpenBook, hist, CardOK
  <2>2. Safe' \subseteq Safe /\ \A n \in Safe, x \in Paths : NoteAt(n, x)' <=> NoteAt(n, x)
    BY <1>0, <2>1 DEF Safe, NoteAt
  <2>3. NotesHome'
    BY <1>0, <2>1, <2>2 DEF Notebook, NotesHome, AtHome, Pending
  <2>4. Beside'
    BY <1>0, <2>1, <2>2 DEF Notebook, Beside, Accompanied, Carrying, Pending, Exists,
       JournalOK
  <2>5. Halfway' /\ Apart'
    BY <1>0, <2>1, <2>2 DEF Notebook, Halfway, Apart, TwoCaches, Pending, JournalOK
  <2>6. QED
    BY <2>3, <2>4, <2>5 DEF Notebook
<1>36. ASSUME NEW p \in Paths, NEW n \in Notes, AddBookmark(p, n)
      PROVE  Notebook'
  BY <1>0, <1>36, NotesMade
<1>37. ASSUME NEW p \in Paths, NEW n \in Notes, AddClipping(p, n)
      PROVE  Notebook'
  BY <1>0, <1>37, NotesMade
<1>38. ASSUME NEW p \in Paths, NEW q \in Paths, ExternalMove(p, q)
      PROVE  Notebook'
  <2>1. /\ UNCHANGED <<cache, marks, clips, clipsBak, aside, journal, written, late>>
        /\ pc = "idle" /\ pc' = "boot" /\ RecordOwners(q) = {} /\ Exists(p) /\ ~Exists(q)
        /\ file' = [file EXCEPT ![q] = file[p], ![p] = NoBook]
        /\ external' = external \cup {file[p]}
    BY <1>38 DEF ExternalMove
  <2>2. Safe' \subseteq Safe /\ \A n \in Safe' : Owner[n] # file[p]
    BY <1>0, <2>1 DEF Safe
  <2>3. \A n \in Safe, x \in Paths : NoteAt(n, x)' <=> NoteAt(n, x)
    BY <2>1 DEF NoteAt
  <2>4. \A n \in Safe', x \in Paths : file[x] = Owner[n] => file'[x] = Owner[n]
    BY <2>1, <2>2, SafeOwners DEF CardOK, Exists
  <2>5. NotesHome'
    <3>1. \A n \in Safe', x \in Paths : AtHome(Owner[n], x) => AtHome(Owner[n], x)'
      BY <2>1, <2>4 DEF AtHome, Pending, JournalOK
    <3>2. QED
      BY <1>0, <2>2, <2>3, <3>1 DEF Notebook, NotesHome
  <2>6. \A n \in Safe : ~NoteAt(n, q)
    BY <2>1, SafeOwners, BearsOwners DEF Bears
  <2>7. \A x \in Paths : x # q => file'[x] \in {file[x], NoBook}
    BY <2>1 DEF CardOK
  <2>8. Beside'
    <3>1. \A x \in Paths : x # q /\ Accompanied(x) => Accompanied(x)'
      BY <2>1, <2>7 DEF Accompanied, Carrying, Pending, Exists, JournalOK
    <3>2. QED
      BY <1>0, <2>2, <2>3, <2>6, <3>1 DEF Notebook, Beside
  <2>9. Halfway' /\ Apart'
    BY <1>0, <2>1, <2>2 DEF Notebook, Halfway, Apart, TwoCaches, Pending
  <2>10. QED
    BY <2>5, <2>8, <2>9 DEF Notebook
<1>39. ASSUME NEW p \in Paths, NEW q \in Paths, StartRestore(p, q)
      PROVE  Notebook'
  <2>1. /\ UNCHANGED <<card, journal, written, late, external>>
        /\ pc \notin Swapping /\ pc' \notin Midway
    BY <1>39, <1>0 DEF StartRestore, hist
  <2>2. QED
    BY <1>0, <2>1, NotesStill
<1>40. ASSUME NEW p \in Paths, NEW q \in Paths, NEW keep \in BOOLEAN, StartMove(p, q, keep)
      PROVE  Notebook'
  <2>1. /\ UNCHANGED <<card, journal, written, late, external>>
        /\ pc \notin Swapping /\ pc' \notin Midway
    BY <1>40, <1>0 DEF StartMove, hist
  <2>2. QED
    BY <1>0, <2>1, NotesStill
<1>41. CASE UNCHANGED vars
  <2>1. UNCHANGED <<card, journal, written, late, external, pc>>
    BY <1>41 DEF vars, hist, ctl
  <2>2. QED
    BY <1>0, <2>1, UnchangedNotes
<1>42. QED
  BY ONLY [Next]_vars, <1>1, <1>2, <1>3, <1>4, <1>5, <1>6, <1>7, <1>8, <1>9, <1>10,
     <1>11, <1>12, <1>13, <1>14, <1>15, <1>16, <1>16a, <1>17, <1>18, <1>19, <1>20, <1>21,
     <1>22, <1>23, <1>24, <1>25, <1>26, <1>27, <1>28, <1>29, <1>30, <1>31, <1>32,
     <1>33, <1>34, <1>35, <1>36, <1>37, <1>38, <1>39, <1>40, <1>41
     DEF Next, Progress, Migrate, Failures, User

-----------------------------------------------------------------------------
(* The theorems.                                                           *)

LEMMA InitIInv ==
  ASSUME Init
  PROVE  IInv
<1> USE DEF Init
<1>1. TypeOK
  <2>1. file \in [Paths -> Books \cup {NoBook}]
    OBVIOUS
  <2>2. CardOK /\ ListsOK
    BY <2>1, ConstantsAssumption DEF CardOK, ListsOK
  <2>3. JournalOK /\ ControlOK
    BY Journals, Calling DEF JournalOK, ControlOK, Pending, Labels
  <2>4. HistoryOK
    <3>1. FaultsOK
      BY ONLY Init, ConstantsAssumption DEF Init, FaultsOK
    <3>2. QED
      BY <3>1 DEF HistoryOK
  <2>5. QED
    BY <2>2, <2>3, <2>4 DEF TypeOK
<1>2. CallOK /\ FilesOK
  BY Calling, Journals DEF CallOK, FilesOK, Pending
<1>2a. OnePlace
  <2>1. SUFFICES ASSUME NEW p \in Paths, NEW q \in Paths, Exists(p), file[p] = file[q]
                 PROVE  p = q
    BY DEF OnePlace
  <2>2. file[p] \in Books
    BY <1>1, <2>1 DEF TypeOK, CardOK, Exists
  <2>3. PICK x \in Paths : {y \in Paths : file[y] = file[p]} = {x}
    BY <2>2
  <2>4. QED
    BY <2>1, <2>3
<1>3. MigratingOK /\ MovedOut /\ Settled /\ Fresh
  BY Journals, Calling DEF MigratingOK, MovedOut, Settled, Fresh, Migrating, BackupLabels,
     MoveLabels, AfterCache, AfterMarks, AfterClips, ClipLabels, Pending
<1>4. \A p \in Paths, n \in Notes : cache[p] = NoBook /\ ~NoteAt(n, p)
  BY DEF NoteAt
<1>5. \A b \in Books, p \in Paths : ~Bears(b, p)
  BY <1>4, ConstantsAssumption DEF Bears
<1>6. Behind /\ Foreign /\ Recorded
  BY <1>4, <1>5, Calling, Journals DEF Behind, Foreign, Recorded, Pending
<1>7. Notebook
  BY Journals DEF Notebook, NotesHome, Beside, Halfway, Apart, Safe, Pending,
     ClipLabels
<1>8. Lists
  BY ConstantsAssumption, Calling DEF Lists, Listed
<1>9. QED
  BY <1>1, <1>2, <1>2a, <1>3, <1>6, <1>7, <1>8 DEF IInv

LEMMA IInvStep ==
  ASSUME IInv, [Next]_vars
  PROVE  IInv'
<1> USE DEF IInv, TypeOK
<1>1. CardOK' /\ ListsOK' /\ JournalOK' /\ ControlOK' /\ HistoryOK'
  BY CardStep, ListsTypeStep, JournalStep, ControlStep, HistoryStep
<1>2. CallOK' /\ FilesOK' /\ OnePlace' /\ MigratingOK'
  BY CallStep, FilesStep, OnePlaceStep, MigratingStep
<1>3. MovedOut' /\ Settled' /\ Fresh'
  BY MovedOutStep, SettledStep, FreshStep
<1>4. Behind' /\ Foreign' /\ Recorded' /\ Notebook' /\ Lists'
  BY BehindStep, ForeignStep, RecordedStep, NotebookStep, ListsStep
<1>5. QED
  BY <1>1, <1>2, <1>3, <1>4

LEMMA Invariance == Spec => []IInv
BY InitIInv, IInvStep, PTL DEF Spec

(* Every variable keeps its type. *)
THEOREM TypeCorrect == Spec => []TypeOK
<1>1. IInv => TypeOK
  BY DEF IInv
<1>2. QED
  BY <1>1, Invariance, PTL

(* No part of a book's record stays under a path its file has left, unless a *)
(* journal is there to take it along.                                        *)
THEOREM RecordsFollow == Spec => []NothingLeftBehind
<1>1. ASSUME IInv PROVE NothingLeftBehind
  <2>1. SUFFICES ASSUME NEW b \in Books \ (external \cup harm),
                        NEW p \in Paths, b \in RecordOwners(p)
                 PROVE  p \in Homes(b)
    BY DEF NothingLeftBehind, Strays
  <2>2. marks[p] \cup clips[p] \subseteq Notes
    BY <1>1 DEF IInv, TypeOK, CardOK
  <2>3. Bears(b, p)
    BY <2>1, <2>2 DEF RecordOwners, Bears, NoteAt
  <2>4. AtHome(b, p)
    BY <1>1, <2>1, <2>3 DEF IInv, Behind
  <2>5. QED
    BY <2>4 DEF AtHome, Homes
<1>2. QED
  BY <1>1, Invariance, PTL

(* A book never gets the record of another one, as long as no computer moves *)
(* a book while a journal is pending.                                        *)
THEOREM RecordsStayApart == Spec => []NoForeignRecord
<1>1. ASSUME IInv PROVE NoForeignRecord
  <2>1. SUFFICES ASSUME ~clash, NEW p \in Paths, Exists(p), NEW b \in RecordOwners(p)
                 PROVE  file[p] = b
    BY DEF NoForeignRecord
  <2>2. marks[p] \cup clips[p] \subseteq Notes /\ cache[p] \in Books \cup {NoBook}
    BY <1>1 DEF IInv, TypeOK, CardOK
  <2>3. b \in Books /\ Bears(b, p)
    BY <2>1, <2>2, ConstantsAssumption DEF RecordOwners, Bears, NoteAt
  <2>4. QED
    BY <1>1, <2>1, <2>3 DEF IInv, Foreign
<1>2. QED
  BY <1>1, Invariance, PTL

(* No bookmark or clipping made before a move is lost by it, wherever power   *)
(* goes and whatever fails, but for those in the file a fault has hit.        *)
THEOREM NotesSurvive == Spec => []NoNoteLost
<1>1. ASSUME IInv PROVE NoNoteLost
  <2>1. SUFFICES ASSUME NEW n \in Safe PROVE n \in Kept(Owner[n])
    BY DEF NoNoteLost
  <2>2. PICK q \in Paths : NoteAt(n, q) /\ AtHome(Owner[n], q)
    BY <1>1 DEF IInv, Notebook, NotesHome
  <2>3. q \in Homes(Owner[n])
    BY <2>2 DEF AtHome, Homes
  <2>4. n \in marks[q] \cup clips[q] \/ n \in InBak
    BY <2>2 DEF NoteAt, InBak
  <2> DEFINE Found == UNION {marks[p] \cup clips[p] : p \in Homes(Owner[n])}
  <2>5. n \in marks[q] \cup clips[q] => n \in Found
    BY <2>3
  <2>6. Kept(Owner[n]) = Found \cup InBak
    BY Zenon DEF Kept, Found
  <2> HIDE DEF Found
  <2>7. QED
    BY <2>4, <2>5, <2>6
<1>2. QED
  BY <1>1, Invariance, PTL

(* The recents list and the path to resume name no path a move has emptied,  *)
(* unless the very save that would have dropped it failed.                   *)
THEOREM ListsKeepUp == Spec => []ListsFollow
<1>1. ASSUME IInv PROVE ListsFollow
  <2>1. SUFFICES ASSUME external = {}, NEW p \in (recentsDisk \cup {resumeDisk}) \ {NoPath},
                        p \notin harm
                 PROVE  Exists(p) \/ (Pending /\ p = journal.from)
    BY DEF ListsFollow
  <2>2. p \in Paths /\ Listed(p)
    BY <1>1, <2>1 DEF IInv, TypeOK, ListsOK, Lists, Listed
  <2>3. QED
    BY <1>1, <2>1, <2>2 DEF IInv, Lists
<1>2. QED
  BY <1>1, Invariance, PTL

LEMMA Succeeds ==
  ASSUME CardOK, JournalOK, ControlOK, CallOK, FilesOK, MigratingOK, [Next]_vars,
         op.call \in {"movePost", "restorePost"}, pc' = "idle", result' = "success"
  PROVE  FinishMove
<1> USE ConstantsAssumption DEF ControlOK, CallOK, FilesOK, Exists, Pending, Goto, Finish,
   Calls
<1>1. CASE Boot
  BY <1>1, Calling DEF Boot
<1>2. CASE Preflight
  BY <1>2, Calling DEF Preflight
<1>3. CASE WriteJournal
  BY <1>3 DEF WriteJournal
<1>4. CASE RenameFile
  BY <1>4 DEF RenameFile
<1>5. CASE Rollback
  BY <1>5, Calling DEF Rollback
<1>6. CASE DropJournal
  BY <1>6, Calling DEF DropJournal
<1>7. CASE RecoverPendingMove
  BY <1>7, Returns, Calling DEF RecoverPendingMove, NothingPending, NotRenamed, Refuse,
     BeginMigration, Ambiguous
<1>8. CASE BackupCache
  BY <1>8 DEF BackupCache
<1>9. CASE BackupMarks
  BY <1>9 DEF BackupMarks
<1>10. CASE BackupClips
  BY <1>10 DEF BackupClips
<1>11. CASE MarkBackedUp
  BY <1>11 DEF MarkBackedUp
<1>12. CASE MigrateCache
  BY <1>12, Returns, Calling DEF MigrateCache
<1>13. CASE MigrateMarks
  BY <1>13, StepFails, Calling DEF MigrateMarks
<1>14. CASE MigrateMarksDelete
  BY <1>14, StepFails, Calling DEF MigrateMarksDelete
<1>15. CASE MigrateClips
  BY <1>15 DEF MigrateClips
<1>16. CASE ClipsSwap
  BY <1>16, StepFails, Calling DEF ClipsSwap
<1>16a. CASE ClipsUndo
  BY <1>16a, StepFails, Calling DEF ClipsUndo
<1>17. CASE ClipsUnbak
  BY <1>17 DEF ClipsUnbak
<1>18. CASE ClipsAside
  BY <1>18 DEF ClipsAside
<1>19. CASE ClipsMove
  BY <1>19 DEF ClipsMove
<1>20. CASE MigrateRecents
  BY <1>20 DEF MigrateRecents
<1>21. CASE MigrateResume
  BY <1>21, Returns, Calling DEF MigrateResume
<1>22. CASE MoveHint
  BY <1>22, Returns, Calling DEF MoveHint
<1>23. CASE FinishMove
  BY <1>23, Returns, Calling DEF FinishMove
<1>24. CASE PowerLoss
  BY <1>24, Calling DEF PowerLoss, LoseRam
<1>25. CASE PowerLossInWrite
  BY <1>25, Calling DEF PowerLossInWrite, LoseRam
<1>26. CASE WriteJournalFails
  BY <1>26, Calling DEF WriteJournalFails
<1>27. CASE RenameFileFails
  BY <1>27 DEF RenameFileFails
<1>28. CASE RecoverFails
  BY <1>28, Returns, Calling DEF RecoverFails
<1>29. CASE BackupFails
  BY <1>29, Returns, Calling DEF BackupFails
<1>30. CASE MigrateCacheFails
  BY <1>30, StepFails, Calling DEF MigrateCacheFails
<1>31. CASE MigrateMarksFails
  BY <1>31, StepFails, Calling DEF MigrateMarksFails
<1>32. CASE MigrateMarksShort
  BY <1>32 DEF MigrateMarksShort
<1>33. CASE ClipsMoveFails
  BY <1>33, StepFails, Calling DEF ClipsMoveFails
<1>34. CASE Sleep
  BY <1>34, Calling DEF Sleep, LoseRam
<1>35. ASSUME NEW p \in Paths, OpenBook(p)
      PROVE  FinishMove
  BY <1>35, Calling DEF OpenBook
<1>36. ASSUME NEW p \in Paths, NEW n \in Notes, AddBookmark(p, n)
      PROVE  FinishMove
  BY <1>36, Calling DEF AddBookmark, NewNote
<1>37. ASSUME NEW p \in Paths, NEW n \in Notes, AddClipping(p, n)
      PROVE  FinishMove
  BY <1>37, Calling DEF AddClipping, NewNote
<1>38. ASSUME NEW p \in Paths, NEW q \in Paths, ExternalMove(p, q)
      PROVE  FinishMove
  BY <1>38, Calling DEF ExternalMove
<1>39. ASSUME NEW p \in Paths, NEW q \in Paths, StartRestore(p, q)
      PROVE  FinishMove
  BY <1>39 DEF StartRestore
<1>40. ASSUME NEW p \in Paths, NEW q \in Paths, NEW keep \in BOOLEAN, StartMove(p, q, keep)
      PROVE  FinishMove
  BY <1>40 DEF StartMove
<1>41. CASE UNCHANGED vars
  <2>1. pc = "idle"
    BY <1>41 DEF vars, ctl
  <2>2. QED
    BY <2>1, Calling
<1>42. QED
  BY ONLY [Next]_vars, <1>1, <1>2, <1>3, <1>4, <1>5, <1>6, <1>7, <1>8, <1>9, <1>10,
     <1>11, <1>12, <1>13, <1>14, <1>15, <1>16, <1>16a, <1>17, <1>18, <1>19, <1>20, <1>21,
     <1>22, <1>23, <1>24, <1>25, <1>26, <1>27, <1>28, <1>29, <1>30, <1>31, <1>32,
     <1>33, <1>34, <1>35, <1>36, <1>37, <1>38, <1>39, <1>40, <1>41
     DEF Next, Progress, Migrate, Failures, User

(* A move or a restore that reports success has taken the whole record along: *)
(* the old path is bare, and every note the code answers for is under the new *)
(* one.                                                                       *)
THEOREM SuccessIsTrue == Spec => SuccessMeansMigrated
<1> DEFINE Success == op.call \in {"movePost", "restorePost"} /\ pc' = "idle" /\ result' = "success"
<1>1. ASSUME IInv, [Next]_vars, Success
      PROVE  /\ file[op.from] = NoBook /\ file[op.to] # NoBook
             /\ RecordOwners(op.from) = {} /\ op.from \notin marksTorn
             /\ op.from \notin recents /\ resume # op.from
             /\ \A n \in Safe : Owner[n] = file[op.to] => n \in marks[op.to] \cup clips[op.to]
  <2>1. pc = "done"
    BY <1>1, Succeeds DEF IInv, TypeOK, FinishMove
  <2>2. /\ file[op.from] = NoBook /\ file[op.to] # NoBook /\ journal.from = op.from
        /\ op.to \in Paths
    BY <1>1, <2>1 DEF IInv, CallOK, FilesOK, Exists
  <2>3. /\ marks[op.from] = {} /\ clips[op.from] = {}
        /\ op.from \notin marksTorn /\ op.from \notin recents /\ resume # op.from
        /\ cache[op.from] = NoBook
    BY <1>1, <2>1, <2>2
       DEF IInv, MovedOut, MigratingOK, AfterCache, AfterMarks, AfterClips
  <2>4. ASSUME NEW n \in Safe, Owner[n] = file[op.to]
        PROVE  n \in marks[op.to] \cup clips[op.to]
    <3>1. PICK p \in Paths : NoteAt(n, p) /\ AtHome(Owner[n], p)
      BY <1>1 DEF IInv, Notebook, NotesHome
    <3>2. n \in marks[p] \cup clips[p]
      BY <2>1, <3>1 DEF NoteAt
    <3>3. p # op.from
      BY <2>3, <3>2
    <3>4. file[p] = file[op.to]
      BY <2>2, <2>4, <3>1, <3>3 DEF AtHome
    <3>5. QED
      BY <1>1, <2>2, <3>2, <3>4 DEF IInv, OnePlace, Exists
  <2>5. QED
    BY <2>2, <2>3, <2>4 DEF RecordOwners
<1>2. QED
  BY <1>1, Invariance, PTL DEF Spec, SuccessMeansMigrated
=============================================================================
