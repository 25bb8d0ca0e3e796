---------------------------- MODULE EpubSection ----------------------------
(***************************************************************************)
(* One chapter of an EPUB: its page cache on the card                      *)
(* (lib/Epub/Epub/Section.cpp) and the reader that opens, extends and      *)
(* draws it (activities/reader/EpubReaderActivity.cpp).                    *)
(*                                                                         *)
(* The render task holds the RenderLock from the beginning of render() to  *)
(* its end and builds in steps; the main task turns pages and presses Back *)
(* meanwhile without the lock, and builds ahead when it is free.  A build  *)
(* is put on the card as a whole chapter when it ends and as a partial one *)
(* when it is suspended.                                                   *)
(***************************************************************************)
EXTENDS Naturals, FiniteSetsExt

CONSTANTS
  Specs,        \* the layouts the reader settings ask for
  Total,        \* pages of the chapter
  StartMargin,  \* PARTIAL_REBUILD_START_MARGIN
  WindowAhead,  \* BUILD_WINDOW_AHEAD
  MaxRetries,   \* MAX_PAGE_LOAD_RETRIES
  MaxFaults,    \* bound on the card operations that fail
  NoFile, NoSection

ASSUME ConstantsAssumption ==
  /\ Total \in Nat \ {0} /\ StartMargin \in Nat /\ WindowAhead \in Nat \ {0}
  /\ MaxRetries \in Nat /\ MaxFaults \in Nat

PastEnd  == Total + 1  \* stands for the UINT16_MAX of "last page"
Pages    == 0..PastEnd
LastTurn == Total      \* bound on page turns: the page behind the last one

Cache(sp, n, w) == [spec |-> sp, pages |-> n, whole |-> w]
Caches == {f \in [spec : Specs, pages : 1..Total, whole : BOOLEAN] : f.whole => f.pages = Total}

VARIABLES
  card,      \* [bin, bak]: the cache file and the backup of its replacement
  sec,       \* the reader's Section object
  spec,      \* the layout the settings ask for
  full,      \* SETTINGS.indexingMethod is INDEXING_FULL_SECTION
  relayout,  \* the menu is closed, its result not yet handled
  nextPage,  \* nextPageNumber
  lastPage,  \* pendingPageJump holds the "last page" sentinel
  moves,     \* pendingRelayoutReposition: the place is to be found in the new layout
  pc,        \* who holds the RenderLock and where render() is
  pending,   \* an update is requested; stands for backgroundBuildYieldForInput too,
             \* which input sets with it and the render it asked for clears
  shown,     \* what the panel shows: a message, or a page by its layout
  cancel,    \* sectionBuildCancelRequested and goHomeAfterBuildCancel
  startFailed, lowStop, \* partialRebuildStartFailed, ...AbortedForLowMemory
  restarted, \* lowMemoryPartialRestartAttempted
  retries,   \* pageLoadRetryCount
  faults     \* failed card operations so far

settings == <<spec, full, relayout>>
aim      == <<nextPage, lastPage, moves>>
stops    == <<startFailed, lowStop>>
vars     == <<card, sec, settings, aim, pc, pending, shown, cancel, stops,
              restarted, retries, faults>>

Busy == {"open", "build", "fit", "catch", "show", "read"}

-----------------------------------------------------------------------------
(* The card.  An outcome counts the operations that failed on the way.     *)

Outcome(c, ok, n) == [card |-> c, ok |-> ok, cost |-> n]

\* recoverSectionCacheBackup.
Recovers(c) ==
  CASE c.bak = NoFile -> {Outcome(c, TRUE, 0)}
    [] c.bak # NoFile /\ c.bin # NoFile -> {Outcome([c EXCEPT !.bak = NoFile], TRUE, 0)}
    [] OTHER -> {Outcome([bin |-> c.bak, bak |-> NoFile], TRUE, 0), Outcome(c, FALSE, 1)}

\* promoteSectionCache behind the recovery: the old file aside, the new one in,
\* and if that fails the old one back.
Swaps(c, new) ==
  IF c.bin = NoFile
  THEN {Outcome([c EXCEPT !.bin = new], TRUE, 0), Outcome(c, FALSE, 1)}
  ELSE {Outcome([bin |-> new, bak |-> NoFile], TRUE, 0), Outcome(c, FALSE, 1),
        Outcome([bin |-> NoFile, bak |-> c.bin], FALSE, 2)}

\* commitBuildFile, and the end of createSectionFile.
Commits(c, new) ==
  {Outcome(c, FALSE, 1)} \cup
  UNION {{[s EXCEPT !.cost = @ + r.cost] : s \in Swaps(r.card, new)} : r \in Recovers(c)}

HalfwayWithoutBackup(c, new) ==
  {c, [bin |-> NoFile, bak |-> NoFile], [bin |-> new, bak |-> NoFile]}

\* What is on the card if power goes within a commit.
Halfway(c, new) ==
  UNION {IF r.card.bin = NoFile THEN {r.card, [r.card EXCEPT !.bin = new]}
         ELSE {r.card, [bin |-> NoFile, bak |-> r.card.bin],
               [bin |-> new, bak |-> r.card.bin], [bin |-> new, bak |-> NoFile]}
         : r \in Recovers(c)}

\* clearCache.
Cleared == [bin |-> NoFile, bak |-> NoFile]

-----------------------------------------------------------------------------
(* The Section object.  partial is partialPageCount_, 0 without partial_;  *)
(* avail is pageCount, the pages it offers; built is builtPageCount_.      *)

Fresh(sp, b) ==
  [spec |-> sp, partial |-> 0, avail |-> 0, building |-> FALSE, built |-> 0,
   low |-> FALSE, page |-> 0, blind |-> b]

\* loadSectionFile of a file with the right layout.
Loaded(c) == [Fresh(c.spec, FALSE) EXCEPT
                !.avail = c.pages, !.partial = IF c.whole THEN 0 ELSE c.pages]

Step(c, s, ok, n) == [card |-> c, sec |-> s, ok |-> ok, cost |-> n]

StillCounting(s, p) == [s EXCEPT !.building = FALSE, !.built = 0, !.partial = p]

NotBuilding(s, p) ==
  [s EXCEPT !.building = FALSE, !.built = 0, !.partial = p, !.avail = p]

SuspendsNothing(c, s) ==
  {Step(c, IF s.building THEN NotBuilding(s, s.partial) ELSE s, TRUE, 0)}

\* suspendBuild: what the build reached replaces what the partial covers.
Suspends(c, s) ==
  IF ~s.building THEN {Step(c, s, TRUE, 0)}
  ELSE IF s.built > s.partial
  THEN {Step(o.card, NotBuilding(s, IF o.ok THEN s.built ELSE s.partial), o.ok, o.cost)
        : o \in Commits(c, Cache(s.spec, s.built, FALSE))}
  ELSE {Step(c, NotBuilding(s, s.partial), TRUE, 0)}

\* abandonBuild: the file goes too.
Abandoned(c, s) == Step([c EXCEPT !.bin = NoFile], NotBuilding(s, 0), FALSE, 0)

\* startBuild, under the layout of the settings.
Starts(c, s) ==
  LET idle == [NotBuilding(s, s.partial) EXCEPT !.spec = spec] IN
  {Step(c, [idle EXCEPT !.building = TRUE, !.low = FALSE], TRUE, 0)}
  \cup {Step(c, [idle EXCEPT !.low = l], FALSE, 0) : l \in BOOLEAN}
  \cup {Abandoned(c, [idle EXCEPT !.low = l]) : l \in {l \in BOOLEAN : l => s.partial = 0}}

\* finalizeBuild, when the parser is done.
Finishes(c, s) ==
  {Step(o.card,
        IF o.ok THEN [s EXCEPT !.building = FALSE, !.built = 0, !.partial = 0, !.avail = Total]
        ELSE NotBuilding(s, s.partial),
        o.ok, o.cost) : o \in Commits(c, Cache(s.spec, Total, TRUE))}
  \cup {Abandoned(c, [s EXCEPT !.low = l]) : l \in BOOLEAN}

\* buildSomeMore(1): a page, the end, an error, or memory runs low.
Advances(c, s) ==
  LET Laid(n) == [s EXCEPT !.built = n, !.avail = Max({@, n})]
      Low(n)  == [Laid(n) EXCEPT !.low = TRUE]
      Nexts   == {n \in {s.built, s.built + 1} : n <= Total} IN
  {Step(c, Laid(n), TRUE, 0) : n \in Nexts \ {s.built}}
  \cup (IF s.built + 1 >= Total THEN Finishes(c, s) ELSE {})
  \cup {Abandoned(c, s)}
  \cup UNION {IF n > 0 \/ s.partial > 0
              THEN {[o EXCEPT !.ok = FALSE] : o \in Suspends(c, Low(n))}
              ELSE {Abandoned(c, Low(n))} : n \in Nexts}

\* What a build may just be committing.
Committing(s) ==
  (IF s.built + 1 >= Total THEN {Cache(s.spec, Total, TRUE)} ELSE {})
  \cup (IF s.built > s.partial THEN {Cache(s.spec, s.built, FALSE)} ELSE {})

\* loadPage: the layout of the page it reads, none if it cannot.
Reads(s, p) ==
  {sp \in Specs :
     IF s.building /\ p < s.built THEN sp = s.spec
     ELSE /\ p < (IF s.building THEN s.partial ELSE s.avail)
          /\ card.bin # NoFile /\ p < card.bin.pages /\ sp = card.bin.spec}

-----------------------------------------------------------------------------
(* Ends of a render.                                                       *)

Message(k)  == [kind |-> k]
Page(sp)   == [kind |-> "page", spec |-> sp]

Fault(n) == faults' = faults + n /\ faults' <= MaxFaults
Target   == IF lastPage THEN PastEnd ELSE nextPage

Init ==
  /\ card = Cleared /\ sec = NoSection
  /\ spec \in Specs /\ full \in BOOLEAN /\ relayout = FALSE
  /\ nextPage = 0 /\ lastPage = FALSE /\ moves = FALSE
  /\ pc = "off" /\ pending = FALSE /\ shown = Message("none") /\ cancel = FALSE
  /\ startFailed = FALSE /\ lowStop = FALSE /\ restarted = FALSE
  /\ retries = 0 /\ faults = 0

\* The reader is gone; a restart of its own leaves it the page to go to.
Down(again, target) ==
  /\ sec' = NoSection /\ pc' = "off" /\ shown' = Message("none")
  /\ pending' = FALSE /\ cancel' = FALSE /\ relayout' = FALSE
  /\ startFailed' = FALSE /\ lowStop' = FALSE /\ retries' = 0
  /\ restarted' = again /\ nextPage' = target /\ lastPage' = FALSE /\ moves' = FALSE
  /\ UNCHANGED <<spec, full>>

\* restartForLowMemoryLayout, or nothing if the progress cannot be saved.
MayRestart(s) == s.low /\ ~restarted
Restarts(target, cost) == Fault(cost) /\ Down(TRUE, target)

\* section.reset() and a message.
Fails ==
  /\ sec' = NoSection /\ shown' = Message("error") /\ pc' = "free"
  /\ UNCHANGED <<settings, aim, pending, cancel, stops, restarted, retries>>

\* The page asked for is in the section, or as near as it gets.
Opens(s) ==
  /\ sec' = [s EXCEPT !.page = Target] /\ lastPage' = FALSE /\ pc' = "fit"
  /\ UNCHANGED <<settings, nextPage, moves, pending, shown, cancel, startFailed, restarted, retries>>

\* Whether the build has got far enough: to the page asked for, or, if the place is still to be
\* found, to wherever it turns out to be (isRelayoutCatchUpComplete).
Reached(s) == IF moves THEN s.avail > 0 ELSE Target < s.avail
FallsShort(s) == moves \/ s.avail <= Target

\* The first build failed with the outcome o; inLoop says it had begun.
BuildFails(o, inLoop) ==
  /\ card' = o.card
  /\ \/ /\ inLoop /\ o.sec.low /\ Reached(o.sec)
        /\ Fault(o.cost) /\ Opens(o.sec) /\ UNCHANGED lowStop
     \/ /\ ~inLoop \/ ~o.sec.low \/ FallsShort(o.sec)
        /\ LET restart == MayRestart(o.sec) /\ ~lastPage IN
           \/ restart /\ Restarts(Target, o.cost)
           \/ /\ Fault(IF restart THEN o.cost + 1 ELSE o.cost)
              /\ IF o.sec.low /\ o.sec.partial > 0 /\ ~moves
                 THEN Opens(o.sec) /\ lowStop' = TRUE
                 ELSE Fails

-----------------------------------------------------------------------------
(* render(): take the lock and, without a section, load the cache or       *)
(* build it.                                                               *)

RenderBegins ==
  /\ pc = "free" /\ pending
  /\ pending' = FALSE
  /\ IF sec = NoSection
     THEN pc' = "open" /\ startFailed' = FALSE /\ lowStop' = FALSE
     ELSE pc' = "fit" /\ UNCHANGED stops
  /\ UNCHANGED <<card, sec, settings, aim, shown, cancel, restarted, retries, faults>>

Found(c, f, b, n) == [card |-> c, file |-> f, blind |-> b, cost |-> n]

LoadsAnyLayout(c) ==
  UNION {{Found(r.card, r.card.bin, FALSE, r.cost)} : r \in Recovers(c)}

\* The constructor and loadSectionFile of what is not stale; a cache that cannot
\* be opened is taken for missing.
Loads(c) ==
  UNION {
    IF r.card.bin = NoFile THEN {Found(r.card, NoFile, ~r.ok, r.cost)}
    ELSE {Found(r.card, NoFile, TRUE, r.cost + 1)}
         \cup (IF r.card.bin.spec = spec THEN {Found(r.card, r.card.bin, FALSE, r.cost)} ELSE {})
    : r \in Recovers(c)}

\* A cache of another layout is cleared, and then missing; so is one of which the header or the
\* trailer cannot be read.
LoadClears ==
  /\ pc = "open" \/ (pc = "away" /\ full)
  /\ \E r \in Recovers(card) :
       r.card.bin # NoFile /\ Fault(IF r.card.bin.spec = spec THEN r.cost + 1 ELSE r.cost)
  /\ card' = Cleared
  /\ UNCHANGED <<sec, settings, aim, pc, pending, shown, cancel, stops, restarted, retries>>

\* The page asked for is close to the end of a partial, or behind it.
Near(page, n) == page + StartMargin >= n

\* A cache that is enough for the page asked for.
OpenCached ==
  /\ pc = "open"
  /\ \E l \in Loads(card) :
       /\ l.file # NoFile
       /\ l.file.whole \/ (~full /\ ~Near(Target, l.file.pages))
       /\ card' = l.card /\ Fault(l.cost)
       /\ Opens(Loaded(l.file)) /\ UNCHANGED lowStop

\* The build that lays out as much as the page needs.
OpenBuilds ==
  /\ pc = "open" /\ ~full
  /\ \E l \in Loads(card) : \E r \in (IF l.file = NoFile THEN Recovers(l.card)
                                      ELSE {Outcome(l.card, TRUE, 0)}) :
       /\ l.file # NoFile => ~l.file.whole /\ Near(Target, l.file.pages)
       /\ \E o \in Starts(r.card, IF l.file = NoFile THEN Fresh(spec, l.blind)
                                  ELSE Loaded(l.file)) :
            LET all == [o EXCEPT !.cost = @ + l.cost + r.cost] IN
            \/ /\ o.ok
               /\ card' = o.card /\ sec' = o.sec /\ Fault(all.cost) /\ pc' = "build"
               /\ UNCHANGED <<settings, aim, pending, shown, cancel, stops, restarted, retries>>
            \/ ~o.ok /\ BuildFails(all, FALSE)

\* createSectionFile lays out the whole chapter; a partial that has the page
\* asked for stays if it fails.
OpenIndexes ==
  /\ pc = "open" /\ full
  /\ \E l \in Loads(card) : \E r \in Recovers(l.card) :
       LET FallsBack ==
             IF l.file # NoFile /\ Target < l.file.pages /\ ~moves
             THEN Opens(Loaded(l.file)) /\ UNCHANGED lowStop
             ELSE Fails
           cost == l.cost + r.cost
       IN
       /\ l.file # NoFile => ~l.file.whole
       /\ \/ \E o \in Commits(r.card, Cache(spec, Total, TRUE)) :
               /\ card' = o.card /\ Fault(cost + o.cost)
               /\ IF o.ok
                  THEN Opens([Fresh(spec, FALSE) EXCEPT !.avail = Total]) /\ UNCHANGED lowStop
                  ELSE FallsBack
          \/ \E low \in BOOLEAN :
               LET restart == low /\ ~restarted /\ ~lastPage IN
               /\ card' = r.card
               /\ \/ restart /\ Restarts(Target, cost)
                  \/ Fault(IF restart THEN cost + 1 ELSE cost) /\ FallsBack

\* The loop of the first build.
BuildStep ==
  /\ pc = "build" /\ sec.building /\ FallsShort(sec) /\ ~cancel
  /\ \E o \in Advances(card, sec) :
       \/ /\ o.ok
          /\ card' = o.card /\ sec' = o.sec /\ Fault(o.cost)
          /\ UNCHANGED <<settings, aim, pc, pending, shown, cancel, stops, restarted, retries>>
       \/ ~o.ok /\ BuildFails(o, TRUE)

\* cancelBuildForBack: nothing is drawn.
Cancelled ==
  /\ \E o \in Suspends(card, sec) : card' = o.card /\ sec' = o.sec /\ Fault(o.cost)
  /\ pc' = "free"
  /\ UNCHANGED <<settings, aim, pending, shown, cancel, stops, restarted, retries>>

BuildCancelled == pc = "build" /\ sec.building /\ FallsShort(sec) /\ cancel /\ Cancelled

BuildReached ==
  /\ pc = "build" /\ (sec.building => Reached(sec))
  /\ Opens(sec) /\ UNCHANGED <<card, lowStop, faults>>

-----------------------------------------------------------------------------
(* render(), with a section: extend it to its page, and draw.              *)

\* Past the end of what there is, unless it is still growing.
Clamped(s) ==
  IF ~s.building /\ s.avail > 0 /\ s.page >= s.avail THEN [s EXCEPT !.page = s.avail - 1] ELSE s

\* applyDeferredReposition: the place is found, or its chapter is another; or neither yet.
Repositions(s) ==
  \/ sec' = s /\ moves' \in {s.building /\ moves, FALSE}
  \/ /\ moves /\ moves' = FALSE
     /\ \E p \in 0..s.avail : (p < s.avail \/ p = 0) /\ sec' = [s EXCEPT !.page = p]

ToShow(s) ==
  /\ Repositions(Clamped(s)) /\ pc' = "show"
  /\ UNCHANGED <<settings, nextPage, lastPage, pending, shown, cancel, startFailed, restarted, retries>>

\* Memory has stopped this chapter before: a restart, or its last page.
Stopped ==
  /\ pc = "fit" /\ lowStop /\ sec.avail > 0 /\ sec.page >= sec.avail /\ UNCHANGED card
  /\ LET restart == MayRestart(sec) /\ sec.page = sec.avail IN
     \/ restart /\ Restarts(sec.avail, 0)
     \/ /\ Fault(IF restart THEN 1 ELSE 0) /\ UNCHANGED lowStop
        /\ ToShow([sec EXCEPT !.page = sec.avail - 1])

Fits ==
  /\ pc = "fit" /\ ~(lowStop /\ sec.avail > 0 /\ sec.page >= sec.avail)
  /\ IF sec.page >= sec.avail /\ (sec.partial > 0 \/ sec.building)
     THEN pc' = "catch" /\ UNCHANGED <<sec, settings, aim, pending, shown, cancel,
                                       startFailed, restarted, retries>>
     ELSE ToShow(sec)
  /\ UNCHANGED <<card, lowStop, faults>>

CatchRetries(o) ==
  /\ card' = o.card /\ sec' = o.sec /\ Fault(o.cost)
  /\ UNCHANGED <<settings, aim, pc, pending, shown, cancel, stops, restarted, retries>>

\* The catch-up failed.  The page the render began with is taken for the current one.
CatchFails(o) ==
  LET restart == MayRestart(o.sec) /\ o.sec.page = o.sec.avail IN
  /\ card' = o.card
  /\ IF o.sec.low /\ o.sec.avail > 0
     THEN \/ restart /\ Restarts(o.sec.avail, o.cost)
          \/ /\ Fault(IF restart THEN o.cost + 1 ELSE o.cost) /\ lowStop' = TRUE
             /\ ToShow(Clamped(o.sec))
     ELSE Fault(o.cost) /\ Fails

CatchingUp == pc = "catch" /\ sec.page >= sec.avail /\ (sec.partial > 0 \/ sec.building)

CatchStep ==
  /\ CatchingUp /\ (sec.building => ~cancel)
  /\ \E o \in (IF sec.building THEN Advances(card, sec) ELSE Starts(card, sec)) :
       \/ /\ o.ok
          /\ card' = o.card /\ sec' = o.sec /\ Fault(o.cost)
          /\ UNCHANGED <<settings, aim, pc, pending, shown, cancel, stops, restarted, retries>>
       \/ ~o.ok /\ CatchFails(o)

CatchCancelled == CatchingUp /\ sec.building /\ cancel /\ Cancelled

CatchDone == pc = "catch" /\ ~CatchingUp /\ ToShow(sec) /\ UNCHANGED <<card, lowStop, faults>>

Drawn(what) ==
  /\ shown' = what /\ pc' = "free"
  /\ UNCHANGED <<card, sec, settings, aim, pending, cancel, stops, restarted>>

\* The page may have been turned since the catch-up.
ShowNothing ==
  /\ pc = "show" /\ sec.page >= sec.avail
  /\ Drawn(Message(IF sec.avail = 0 THEN "empty" ELSE "bounds"))
  /\ UNCHANGED <<retries, faults>>

ShowChecks ==
  /\ pc = "show" /\ sec.page < sec.avail /\ pc' = "read"
  /\ UNCHANGED <<card, sec, settings, aim, pending, shown, cancel, stops, restarted, retries, faults>>

\* Which page is read now: another turn since the check takes effect.
ShowPage ==
  /\ pc = "read"
  /\ \E sp \in Reads(sec, sec.page) : Drawn(Page(sp))
  /\ retries' = 0 /\ UNCHANGED faults

ShowFailsAgain ==
  /\ pc = "read"
  /\ Fault(IF Reads(sec, sec.page) = {} THEN 0 ELSE 1)
  /\ retries' = retries + 1
  /\ card' = Cleared /\ sec' = NoSection /\ pending' = TRUE /\ pc' = "free"
  /\ UNCHANGED <<settings, aim, shown, cancel, stops, restarted>>

\* The page cannot be read: throw the cache away and build it again, a few times.
ShowFails ==
  /\ pc = "read"
  /\ Fault(IF Reads(sec, sec.page) = {} THEN 0 ELSE 1)
  /\ \/ /\ retries = MaxRetries /\ retries' = 0
        /\ Drawn(Message("unreadable"))
     \/ /\ retries < MaxRetries /\ retries' = retries + 1
        /\ card' = Cleared /\ sec' = NoSection /\ pending' = TRUE /\ pc' = "free"
        /\ UNCHANGED <<settings, aim, shown, cancel, stops, restarted>>

RenderStep ==
  \/ LoadClears \/ OpenCached \/ OpenBuilds \/ OpenIndexes
  \/ BuildStep \/ BuildCancelled \/ BuildReached
  \/ Stopped \/ Fits \/ CatchStep \/ CatchCancelled \/ CatchDone
  \/ ShowNothing \/ ShowChecks \/ ShowPage \/ ShowFails

-----------------------------------------------------------------------------
(* The main task.  It runs its own loop unless it handles the menu's       *)
(* result or is to go home.                                                *)

Loop  == ~relayout /\ pc # "off" /\ (pc \in {"free", "away"} => ~cancel)
Locks == Loop /\ pc = "free"

TurnsUnseen ==
  /\ Loop /\ pc # "away" /\ sec # NoSection /\ sec.page < LastTurn
  /\ sec' = [sec EXCEPT !.page = @ + 1] /\ retries' = 0
  /\ UNCHANGED <<card, settings, aim, pc, pending, shown, cancel, stops, restarted, faults>>

\* pageTurn within the chapter, with or without a render under way.
TurnPage ==
  /\ Loop /\ pc # "away" /\ pending' = TRUE /\ retries' = 0
  /\ \/ /\ sec # NoSection /\ sec.page < LastTurn
        /\ sec.page + 1 < sec.avail \/ sec.building \/ sec.partial > 0
        /\ sec' = [sec EXCEPT !.page = @ + 1]
     \/ sec # NoSection /\ sec.page > 0 /\ sec' = [sec EXCEPT !.page = @ - 1]
     \/ sec = NoSection /\ UNCHANGED sec
  /\ UNCHANGED <<card, settings, aim, pc, shown, cancel, stops, restarted, faults>>

\* section.reset(): the destructor suspends a build.
Resets == /\ sec' = NoSection
          /\ \E o \in (IF sec = NoSection THEN {Step(card, sec, TRUE, 0)} ELSE Suspends(card, sec)) :
               card' = o.card /\ Fault(o.cost)

\* pageTurn out of the chapter, by either end.
LeaveChapter ==
  /\ Locks /\ sec # NoSection /\ Resets
  /\ \/ sec.page + 1 >= sec.avail /\ ~sec.building /\ sec.partial = 0
     \/ sec.page = 0
  /\ pc' = "away" /\ pending' = FALSE /\ shown' = Message("none") /\ retries' = 0
  /\ startFailed' = FALSE /\ lowStop' = FALSE
  /\ UNCHANGED <<settings, aim, cancel, restarted>>

\* Back in this chapter, from the one before or the one behind it.
ReturnToChapter ==
  /\ Loop /\ pc = "away"
  /\ pc' = "free" /\ pending' = TRUE /\ nextPage' = 0 /\ lastPage' \in BOOLEAN
  /\ UNCHANGED <<moves, card, sec, settings, shown, cancel, stops, restarted, retries, faults>>

\* silentIndexNextChapterIfNeeded, in the chapter before.
Prefetch ==
  /\ pc = "away" /\ full
  /\ \E l \in Loads(card) :
       \/ l.file # NoFile /\ l.file.whole /\ card' = l.card /\ Fault(l.cost)
       \/ /\ l.file # NoFile => ~l.file.whole
          /\ \/ \E r \in Recovers(l.card) : card' = r.card /\ Fault(l.cost + r.cost)
             \/ \E o \in Commits(l.card, Cache(spec, Total, TRUE)) :
                  card' = o.card /\ Fault(l.cost + o.cost)
  /\ UNCHANGED <<sec, settings, aim, pc, pending, shown, cancel, stops, restarted, retries>>

\* By the contents or back from a footnote; a jump that is still pending stays.
Jump ==
  /\ Locks /\ Resets /\ nextPage' \in 0..(Total - 1) /\ pending' = TRUE /\ retries' = 0
  /\ UNCHANGED <<settings, lastPage, moves, pc, shown, cancel, stops, restarted>>

\* By a bookmark, within the section.
JumpWithin ==
  /\ Locks /\ sec # NoSection
  /\ \E p \in 0..(Total - 1) : sec' = [sec EXCEPT !.page = p] /\ nextPage' = p
  /\ pending' = TRUE
  /\ UNCHANGED <<card, settings, lastPage, moves, pc, shown, cancel, stops, restarted, retries, faults>>

\* Back while the lock is taken, and what follows when it is free.
BackWhileBusy ==
  /\ Loop /\ pc \in Busy /\ ~cancel
  /\ cancel' = TRUE
  /\ UNCHANGED <<card, sec, settings, aim, pc, pending, shown, stops, restarted, retries, faults>>

GoHome ==
  /\ pc \in {"free", "away"} /\ ~relayout /\ Resets
  /\ pc' = "off" /\ shown' = Message("none") /\ pending' = FALSE /\ cancel' = FALSE
  /\ startFailed' = FALSE /\ lowStop' = FALSE /\ retries' = 0 /\ restarted' = FALSE
  /\ nextPage' = 0 /\ lastPage' = FALSE /\ moves' = FALSE
  /\ UNCHANGED settings

\* onEnter, at the page that was saved last or that a restart has in mind.  A place saved by its
\* text is yet to be found.
Enter ==
  /\ pc = "off"
  /\ IF restarted THEN UNCHANGED <<nextPage, spec, full>>
     ELSE nextPage' \in 0..(Total - 1) /\ spec' \in Specs /\ full' \in BOOLEAN
  /\ pc' = "free" /\ pending' = TRUE /\ moves' \in BOOLEAN
  /\ UNCHANGED <<card, sec, relayout, lastPage, shown, cancel, stops, restarted, retries, faults>>

\* The menu closes and has changed settings; a draw it asked for may be left.
MenuCloses ==
  /\ Locks
  /\ spec' \in Specs /\ full' \in BOOLEAN /\ <<spec', full'>> # <<spec, full>>
  /\ relayout' = TRUE /\ pending' \in {pending, TRUE}
  /\ UNCHANGED <<card, sec, aim, pc, shown, cancel, stops, restarted, retries, faults>>

\* The handler of its result: cacheCurrentSectionPosition and section.reset().
Relayout ==
  /\ relayout /\ pc = "free" /\ Resets
  /\ relayout' = FALSE /\ pending' = TRUE
  /\ IF sec = NoSection THEN UNCHANGED <<nextPage, moves>> ELSE nextPage' = sec.page /\ moves' = TRUE
  /\ UNCHANGED <<spec, full, lastPage, pc, shown, cancel, stops, restarted, retries>>

\* loop() extends a partial the reader gets to the end of.
LazyStart ==
  /\ Locks /\ ~pending /\ sec # NoSection /\ ~sec.building /\ sec.partial > 0
  /\ ~startFailed /\ ~lowStop /\ Near(sec.page, sec.avail)
  /\ \E o \in Starts(card, sec) :
       card' = o.card /\ sec' = o.sec /\ Fault(o.cost) /\ startFailed' = ~o.ok
  /\ UNCHANGED <<settings, aim, pc, pending, shown, cancel, lowStop, restarted, retries>>

\* loop() lays out a page more, up to WindowAhead of the reader.
WantsTick == sec.building /\ (sec.built < sec.avail \/ sec.avail < sec.page + WindowAhead)

Tick ==
  /\ Locks /\ ~pending /\ sec # NoSection /\ WantsTick
  /\ sec.partial > 0 \/ sec.built >= sec.avail
  /\ \E o \in Advances(card, sec) :
       /\ card' = o.card /\ Fault(o.cost)
       /\ IF o.ok \/ (o.sec.low /\ o.sec.avail > 0)
          THEN /\ lowStop' = (lowStop \/ ~o.ok)
               /\ IF o.ok /\ ~o.sec.building /\ moves THEN Repositions(o.sec) /\ pending' = TRUE
                  ELSE sec' = o.sec /\ UNCHANGED <<moves, pending>>
          ELSE sec' = NoSection /\ pending' = TRUE /\ UNCHANGED <<moves, lowStop>>
  /\ UNCHANGED <<settings, nextPage, lastPage, pc, shown, cancel, startFailed, restarted, retries>>

\* Power fails, within a commit or anywhere else.
Crash ==
  /\ pc # "off" /\ faults < MaxFaults /\ faults' = faults + 1
  /\ card' \in
       {card}
       \cup (IF sec # NoSection /\ sec.building
             THEN UNION {Halfway(card, new) : new \in Committing(sec)} ELSE {})
       \cup (IF full /\ pc \in {"open", "away"}
             THEN UNION {Halfway(l.card, Cache(spec, Total, TRUE))
                         : l \in {l \in Loads(card) : l.file = NoFile \/ ~l.file.whole}} ELSE {})
  /\ Down(FALSE, 0)

Main ==
  \/ TurnPage \/ LeaveChapter \/ ReturnToChapter \/ Prefetch \/ Jump \/ JumpWithin \/ BackWhileBusy
  \/ GoHome \/ Enter \/ MenuCloses \/ Relayout \/ LazyStart \/ Tick

Next == RenderBegins \/ RenderStep \/ Main \/ Crash

\* The render task runs on while it holds the lock.
Spec == Init /\ [][Next]_vars /\ WF_vars(RenderStep)

-----------------------------------------------------------------------------
CardOK(c) == c \in [bin : Caches \cup {NoFile}, bak : Caches \cup {NoFile}]

Sections == [spec : Specs, partial : 0..Total, avail : 0..Total, building : BOOLEAN,
             built : 0..Total, low : BOOLEAN, page : Pages, blind : BOOLEAN]
SectionOK(s) ==
  /\ s \in Sections /\ s.partial <= s.avail
  /\ s.building \/ s.built = 0
  /\ s.building => s.avail = Max({s.built, s.partial})

ASSUME NoFileIsNone == NoFile \notin Caches /\ NoSection \notin Sections

ControlOK ==
  /\ spec \in Specs /\ full \in BOOLEAN /\ relayout \in BOOLEAN
  /\ nextPage \in Pages /\ lastPage \in BOOLEAN /\ moves \in BOOLEAN
  /\ pc \in Busy \cup {"off", "away", "free"} /\ pending \in BOOLEAN /\ cancel \in BOOLEAN
  /\ pc \in {"build", "fit", "catch", "show", "read"} => sec # NoSection
  /\ startFailed \in BOOLEAN /\ lowStop \in BOOLEAN /\ restarted \in BOOLEAN
  /\ retries \in 0..MaxRetries /\ faults \in 0..MaxFaults

TypeOK == CardOK(card) /\ (sec # NoSection => SectionOK(sec)) /\ ControlOK

\* Every page the section offers can be read, from the build or from the file,
\* unless a failing card has left the file under its backup's name.
PagesReadable ==
  sec # NoSection =>
    \A p \in 0..(sec.avail - 1) :
      Reads(sec, p) # {} \/ (card.bin = NoFile /\ card.bak # NoFile /\ p < card.bak.pages)

\* A page is drawn in the layout of the settings, except for the draw a closing
\* menu leaves behind.
RightLayout ==
  [][pc = "read" /\ pc' = "free" /\ sec' # NoSection /\ shown'.kind = "page" /\ ~relayout
     => shown'.spec = spec]_vars

\* The bounds message, which a page turned during the draw brings up, is never
\* the last word.
NoDeadMessage ==
  shown.kind = "bounds" => pending \/ pc \in Busy \/ relayout \/ cancel

Stored(c) == IF c.bin # NoFile THEN c.bin ELSE c.bak

\* Whoever leaves a chapter leaves what was laid out of it on the card.
Leaves == LeaveChapter \/ Jump \/ GoHome \/ Relayout \/ BuildCancelled \/ CatchCancelled
WorkIsKept ==
  [][sec # NoSection /\ Leaves /\ faults' = faults /\ sec.avail > 0
     => Stored(card') # NoFile /\ Stored(card').pages >= sec.avail]_vars

\* Every render ends: again and again the lock is free.
DrawEnds == []<>(pc \notin Busy)

\* The cache keeps the promise of SectionStore.
Store == INSTANCE SectionStore WITH
  stored <- Stored(card),
  spare  <- IF card.bin # NoFile THEN card.bak ELSE NoFile,
  up     <- pc # "off" \/ restarted,
  blind  <- sec # NoSection /\ sec.blind
StoreRefined == Store!Spec
=============================================================================
