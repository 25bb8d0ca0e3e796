----------------------------- MODULE DictLookup -----------------------------
(***************************************************************************)
(* Looking a word up while reading: src/util/DictionaryLookupWorker.cpp,   *)
(* DictionaryLookupController.cpp, LookupChain.h, LookupHistory.cpp, and   *)
(* the screens that own a controller.                                      *)
(*                                                                         *)
(* One static worker task serves every controller.  A controller belongs   *)
(* to a screen: "select" is the word selection (or the list of looked up   *)
(* words), "define" the definition above it, from which further words are  *)
(* looked up.  The definition keeps a stack of the definitions it came     *)
(* from, each as a distance from the newest entry of the book's history.   *)
(* What the dictionary answers is left open, and so is the page shown; a   *)
(* definition is named by the word it was looked up under.                 *)
(***************************************************************************)
EXTENDS Integers, Sequences

CONSTANTS
  Words,
  Visible,     \* MAX_VISIBLE_ENTRIES: how much of the history is read
  MaxHistory,  \* bound on the length of the history
  NoWord,
  NoOwner      \* the null pointer

Controllers == {"select", "define"}

ASSUME ConstantsAssumption ==
  /\ Visible \in Nat \ {0} /\ MaxHistory \in Nat
  /\ NoWord \notin Words /\ NoOwner \notin Controllers

VARIABLES
  live,       \* the screens that exist; the definition lies on the selection
  child,      \* what covers them: "none", "suggestions" or "picker"
  main,       \* the main task: "loop", or in waitForOwner to close one or all
  ctl,        \* ctl[c]: state, lookupWord, recordHistory_ and the atomics
  owner,      \* owner_ of the worker
  notified,   \* the notification count of the worker is not zero
  wpc,        \* where the worker is
  history,    \* dictionary_history.txt, the newest word last
  chain,      \* entries_, the newest last; word is history: what was left
  current,    \* currentHistIndex_
  shown,      \* the word of the definition on the screen
  backing,    \* chainBackNavInProgress
  switching,  \* dictionarySwitchLookupInProgress
  drift       \* history: how the history and the chain have come apart

screens  == <<live, child, main>>
worker   == <<owner, notified, wpc>>
trail    == <<history, chain, current, shown, backing, switching, drift>>
vars     == <<screens, ctl, worker, trail>>

Top == IF "define" \in live THEN "define" ELSE "select"

\* A controller in state s; record tells whether a hit is to be recorded.
At(s, w, record) ==
  [state |-> s, word |-> w, record |-> record, result |-> "none",
   done |-> FALSE, cancelled |-> FALSE, cancelReq |-> FALSE]

Fresh == At("Idle", NoWord, TRUE)
\* What startLookup sets up before it asks for the worker.
Lookup(w, record) == At("LookingUp", w, record)

\* The screen on top runs its loop(), in state s.
Running(s) == main = "loop" /\ live # {} /\ child = "none" /\ ctl[Top].state = s

\* The lookup moves on to state s, or ends.  The model forgets what is not read
\* again before startLookup sets it anew.
Becomes(s) ==
  ctl' = [ctl EXCEPT ![Top] = At(s, ctl[Top].word, ctl[Top].record)]
Forgets == ctl' = [ctl EXCEPT ![Top] = Fresh]

Room == Len(history) < MaxHistory

-----------------------------------------------------------------------------
Init ==
  /\ live = {} /\ child = "none" /\ main = "loop"
  /\ ctl = [c \in Controllers |-> Fresh]
  /\ owner = NoOwner /\ notified = FALSE /\ wpc = "take"
  /\ history = <<>> /\ chain = <<>> /\ current = -1 /\ shown = NoWord
  /\ backing = FALSE /\ switching = FALSE /\ drift = {}

-----------------------------------------------------------------------------
(* The worker task.                                                        *)

FreeAlways == TRUE
Free == owner = NoOwner

\* startLookup: it sets the lookup up, and only then asks for the worker.  A
\* worker that is busy is reported as a lack of memory.
StartLookup(c, w, record) ==
  IF Free
  THEN /\ owner' = c /\ notified' = TRUE /\ UNCHANGED wpc
       /\ ctl' = [ctl EXCEPT ![c] = Lookup(w, record)]
  ELSE /\ ctl' = [ctl EXCEPT ![c] = Fresh]
       /\ UNCHANGED worker

Take ==
  /\ wpc = "take" /\ notified
  /\ notified' = FALSE
  /\ wpc' = IF owner = NoOwner THEN "take" ELSE "index"
  /\ UNCHANGED <<screens, ctl, owner, trail>>

\* prepareQuickIndex, and the first look at the cancel flag.
Index ==
  /\ wpc = "index"
  /\ \/ /\ ~ctl[owner].cancelReq
        /\ wpc' = "locate" /\ UNCHANGED ctl
     \/ /\ ctl[owner].cancelReq
        /\ ctl' = [ctl EXCEPT ![owner].cancelled = TRUE, ![owner].done = TRUE]
        /\ wpc' = "clear"
  /\ UNCHANGED <<screens, owner, notified, trail>>

\* The location and the flags are written before lookupDone is.
Locate ==
  /\ wpc = "locate"
  /\ \E r \in {"none", "found", "error"} :
       ctl' = [ctl EXCEPT ![owner].result = r,
                          ![owner].cancelled = ctl[owner].cancelReq]
  /\ wpc' = "done"
  /\ UNCHANGED <<screens, owner, notified, trail>>

Done ==
  /\ wpc = "done"
  /\ ctl' = [ctl EXCEPT ![owner].done = TRUE]
  /\ wpc' = "clear"
  /\ UNCHANGED <<screens, owner, notified, trail>>

Clear ==
  /\ wpc = "clear"
  /\ owner' = NoOwner /\ wpc' = "take"
  /\ UNCHANGED <<screens, ctl, notified, trail>>

Worker == Take \/ Index \/ Locate \/ Done \/ Clear

-----------------------------------------------------------------------------
(* The history and the way back.                                           *)

\* addWordIf: the card may refuse the word, and nobody looks at the result.
Records(w, enabled, apart) ==
  \/ /\ enabled
     /\ history' = Append(history, w) /\ drift' = apart
  \/ /\ enabled
     /\ history' = history /\ drift' = apart \cup {"refused"}
  \/ /\ ~enabled
     /\ history' = history /\ drift' = apart

LeavesUnaged(logged) ==
  chain' = Append(chain, [idx |-> IF logged THEN current + 1 ELSE current, word |-> shown])

\* LookupChain::onForward when the new word is recorded or not: the word left
\* is pushed, and what lies outside the visible part drops off the bottom.
Leaves(logged) ==
  LET s == Append(chain, [idx |-> current, word |-> shown])
      aged == [i \in DOMAIN s |-> [s[i] EXCEPT !.idx = IF logged THEN @ + 1 ELSE @]]
  IN \E n \in 0..Len(s) :
       /\ \A i \in 1..n : aged[i].idx >= Visible
       /\ n < Len(s) => aged[n + 1].idx < Visible
       /\ chain' = SubSeq(aged, n + 1, Len(s))

OnForward(logged) ==
  /\ IF current >= 0 THEN Leaves(logged) ELSE UNCHANGED chain
  /\ current' = IF logged THEN 0 ELSE -1

\* The word of a history entry by its distance from the newest.
Recent(i) == history[Len(history) - i]

-----------------------------------------------------------------------------
(* What a lookup leads to.                                                 *)

\* A hit in the selection opens a definition, unless memory is short.  Its
\* onEnter records the word and starts a new chain.
OpensDefinition ==
  \/ /\ Forgets
     /\ UNCHANGED <<screens, worker, trail>>
  \/ LET c == ctl["select"]
     IN /\ live' = live \cup {"define"} /\ UNCHANGED <<child, main, worker>>
        /\ ctl' = [k \in Controllers |-> Fresh]
        /\ Records(c.word, c.record, {})
        /\ chain' = <<>> /\ current' = IF c.record THEN 0 ELSE -1
        /\ shown' = c.word /\ backing' = FALSE /\ switching' = FALSE

\* A hit in the definition replaces what it shows.  pendingBack_ is the entry
\* Back took off the chain, whose index is current ever since.
ReplacesDefinition ==
  LET c == ctl["define"]
      logged == c.record /\ ~backing
  IN /\ IF backing \/ switching THEN UNCHANGED <<chain, current>> ELSE OnForward(logged)
     /\ Records(c.word, logged,
                drift \cup (IF switching /\ logged THEN {"switched"} ELSE {}))
     /\ shown' = c.word /\ backing' = FALSE /\ switching' = FALSE
     /\ Forgets
     /\ UNCHANGED <<screens, worker>>

FoundDefinition == IF Top = "select" THEN OpensDefinition ELSE ReplacesDefinition

\* The lookup of the word to go back to comes to nothing: the chain has gone
\* back, the screen has not, and chainBackNavInProgress stays set.
Astray == IF Top = "define" /\ backing THEN drift \cup {"astray"} ELSE drift

\* Cancelled: the definition forgets a switch of the dictionary.
Cancelled ==
  /\ Forgets
  /\ switching' = (switching /\ Top # "define") /\ drift' = Astray
  /\ UNCHANGED <<screens, worker, history, chain, current, shown, backing>>

\* handleLookupFailed: similar words are offered in a screen of their own, if
\* there is memory for it; or the miss is recorded.
LookupFailed ==
  \/ /\ \/ Forgets /\ child' = "none"
        \/ Becomes("Idle") /\ child' = "suggestions"
     /\ drift' = Astray
     /\ UNCHANGED <<live, main, worker, history, chain, current, shown, backing, switching>>
  \/ LET c == ctl[Top]
     IN /\ Becomes("NotFound")
        /\ Records(c.word, c.record,
                   Astray \cup (IF Top = "define" /\ c.record THEN {"missed"} ELSE {}))
        /\ UNCHANGED <<screens, worker, chain, current, shown, backing, switching>>

\* handleInput, once the worker is done.
Poll ==
  /\ Running("LookingUp") /\ ctl[Top].done
  /\ LET c == ctl[Top]
     IN \/ c.cancelled /\ Cancelled
        \/ ~c.cancelled /\ c.result = "found" /\ FoundDefinition
        \/ /\ ~c.cancelled /\ c.result = "error"
           /\ Becomes("ReadError") /\ drift' = Astray
           /\ UNCHANGED <<screens, worker, history, chain, current, shown, backing, switching>>
        \/ /\ ~c.cancelled /\ c.result = "none"
           /\ \/ /\ Becomes("AltFormPrompt")
                 /\ UNCHANGED <<screens, worker, trail>>
              \/ LookupFailed

\* Back while the worker runs only asks it to stop.
CancelNow ==
  /\ Running("LookingUp") /\ ~ctl[Top].done /\ ~ctl[Top].cancelReq
  /\ ctl' = [ctl EXCEPT ![Top].cancelReq = TRUE, ![Top].state = "Idle"]
  /\ UNCHANGED <<screens, worker, trail>>
Cancel ==
  /\ Running("LookingUp") /\ ~ctl[Top].done /\ ~ctl[Top].cancelReq
  /\ ctl' = [ctl EXCEPT ![Top].cancelReq = TRUE]
  /\ UNCHANGED <<screens, worker, trail>>

\* The main task itself looks the alternate form up.
AnswerAltForm ==
  /\ Running("AltFormPrompt")
  /\ FoundDefinition \/ LookupFailed \/ Cancelled

SuggestionsReturn ==
  /\ child = "suggestions" /\ main = "loop"
  /\ child' = "none" /\ UNCHANGED <<live, main, trail>>
  /\ \/ Becomes("NotFound") /\ UNCHANGED worker
     \/ Room /\ \E w \in Words : StartLookup(Top, w, TRUE)

-----------------------------------------------------------------------------
(* The screens.                                                            *)

OpenSelection ==
  /\ main = "loop" /\ live = {}
  /\ live' = {"select"} /\ ctl' = [ctl EXCEPT !["select"] = Fresh]
  /\ UNCHANGED <<child, main, worker, trail>>

LookUp ==
  /\ Running("Idle") /\ Room
  /\ \E w \in Words : StartLookup(Top, w, TRUE)
  /\ UNCHANGED <<screens, trail>>

\* onExit of the screen on top: it asks the lookup to stop and waits.  The
\* ones below follow when how is "all".
Closes(how) ==
  /\ main' = how
  /\ ctl' = [ctl EXCEPT ![Top].cancelReq = TRUE]
  /\ UNCHANGED <<live, worker>>

\* Back in the definition goes to the one before, if the history still has it.
GoBack ==
  /\ Running("Idle") /\ Top = "define" /\ chain # <<>>
  /\ LET e == chain[Len(chain)]
         resolved == e.idx < Len(history)
     IN /\ chain' = SubSeq(chain, 1, Len(chain) - 1) /\ current' = e.idx
        /\ UNCHANGED <<child, history, shown, switching>>
        /\ \/ /\ resolved /\ backing' = TRUE
              /\ StartLookup("define", Recent(e.idx), FALSE)
              /\ drift' = IF Free THEN drift ELSE drift \cup {"astray"}
              /\ UNCHANGED <<live, main>>
           \/ /\ ~resolved
              /\ Closes("one") /\ UNCHANGED <<backing, drift>>

\* Back otherwise, and Done on a word that was not found.
Leave ==
  /\ \/ /\ Running("Idle") /\ ~(Top = "define" /\ chain # <<>>)
        /\ Closes("one") /\ UNCHANGED switching
     \/ /\ Running("NotFound") \/ Running("ReadError")
        /\ Closes("all") /\ switching' = (switching /\ Top # "define")
  /\ UNCHANGED <<child, history, chain, current, shown, backing, drift>>

LeaveAllCovered ==
  /\ main = "loop" /\ live # {}
  /\ Closes("all") /\ UNCHANGED <<child, trail>>

\* A long Back in the definition, even while a word is looked up; the device
\* goes to sleep, or another screen replaces all of these.
LeaveAll ==
  /\ main = "loop" /\ live # {}
  /\ Closes("all") /\ child' = "none" /\ UNCHANGED trail

\* The definition takes its way back with it.
NewTrail ==
  /\ chain' = <<>> /\ current' = -1 /\ shown' = NoWord
  /\ backing' = FALSE /\ switching' = FALSE /\ drift' = {}

WaitedNot == TRUE
Waited == owner # Top

\* waitForOwner has returned and the screen is deleted.
Closed ==
  /\ main # "loop" /\ Waited
  /\ live' = live \ {Top}
  /\ main' = IF main = "all" /\ live' # {} THEN "all" ELSE "loop"
  /\ ctl' = [c \in Controllers |->
               IF c = Top THEN Fresh
               ELSE IF main' = "all" THEN [ctl[c] EXCEPT !.cancelReq = TRUE] ELSE ctl[c]]
  /\ IF Top = "define" THEN NewTrail ELSE UNCHANGED <<chain, current, shown, backing, switching, drift>>
  /\ UNCHANGED <<child, worker, history>>

\* A word that was not found, or could not be read, is put away.
Dismiss ==
  /\ Running("NotFound") \/ Running("ReadError")
  /\ \/ Becomes("Idle") /\ child' = "picker" /\ UNCHANGED switching
     \/ Forgets /\ child' = child /\ switching' = (switching /\ Top # "define")
  /\ UNCHANGED <<live, main, worker, history, chain, current, shown, backing, drift>>

OpenPicker ==
  /\ Running("Idle") /\ Top = "define"
  /\ child' = "picker"
  /\ UNCHANGED <<live, main, ctl, worker, trail>>

\* With another dictionary the word is looked up again.
PickerReturns ==
  /\ child = "picker" /\ main = "loop"
  /\ child' = "none" /\ UNCHANGED <<live, main, history, chain, current, shown, backing, drift>>
  /\ \/ UNCHANGED <<ctl, worker, switching>>
     \/ /\ StartLookup(Top, IF Top = "define" THEN shown ELSE ctl[Top].word, FALSE)
        /\ switching' = (Top = "define")

Main ==
  \/ Poll \/ Cancel \/ AnswerAltForm \/ SuggestionsReturn
  \/ OpenSelection \/ LookUp \/ GoBack \/ Leave \/ LeaveAll \/ Closed
  \/ Dismiss \/ OpenPicker \/ PickerReturns

Next == Main \/ Worker

\* Both tasks run: loop() polls the lookup without a pause, and the worker has
\* the processor whenever the main task waits.
Spec ==
  /\ Init /\ [][Next]_vars
  /\ WF_vars(Worker) /\ WF_vars(Poll) /\ WF_vars(Closed)

-----------------------------------------------------------------------------
States == {"Idle", "LookingUp", "AltFormPrompt", "NotFound", "ReadError"}
Lookups ==
  [state : States, word : Words \cup {NoWord}, record : BOOLEAN,
   result : {"none", "found", "error"},
   done : BOOLEAN, cancelled : BOOLEAN, cancelReq : BOOLEAN]

\* A covered screen or one that closes exists, and a worker that runs has an
\* owner; the word on the screen is one that was looked up.
TypeOK ==
  /\ live \in {{}, {"select"}, Controllers}
  /\ child \in {"none", "suggestions", "picker"} /\ main \in {"loop", "one", "all"}
  /\ (child # "none" \/ main # "loop") => live # {}
  /\ ctl \in [Controllers -> Lookups]
  /\ owner \in Controllers \cup {NoOwner} /\ notified \in BOOLEAN
  /\ wpc \in {"take", "index", "locate", "done", "clear"}
  /\ (wpc # "take" \/ notified) <=> owner # NoOwner
  /\ history \in Seq(Words)
  /\ chain \in Seq([idx : Nat, word : Words])
  /\ current \in Nat \cup {-1}
  /\ shown \in Words \cup {NoWord} /\ ("define" \in live => shown # NoWord)
  /\ backing \in BOOLEAN /\ switching \in BOOLEAN
  /\ drift \subseteq {"refused", "switched", "astray", "missed"}

\* The worker only ever works for a controller that exists: whoever deletes
\* one waits for the worker first ("must wait for the worker before they are
\* destroyed").
OwnerAlive == owner # NoOwner => owner \in live

\* Until it is done the worker has the controller's fields to itself: the main
\* task waits for lookupDone, even after a cancel, before it reads the location
\* or sets up the next lookup.
WorkerAlone ==
  (owner # NoOwner /\ wpc # "clear") => ctl[owner].state = "LookingUp" /\ ~ctl[owner].done

Resolves(i, w) == i < Len(history) /\ Recent(i) = w

\* Each definition on the way back is found under the word it was left with,
\* through recordings, evictions, gaps and switches of the dictionary, unless
\* the history has drifted in one of the named ways.
BackLeadsToTheWord ==
  drift = {} => \A i \in DOMAIN chain : Resolves(chain[i].idx, chain[i].word)

\* A lookup comes to an end, found, cancelled or refused, and a screen that
\* waits for the worker closes.
LookupEnds ==
  /\ \A c \in Controllers : ctl[c].state = "LookingUp" ~> ctl[c].state # "LookingUp"
  /\ main # "loop" ~> main = "loop"

-----------------------------------------------------------------------------
(* A claim of the documentation that does not hold.                        *)

\* docs/dictionary.md: "each press returns to the previous definition".  Here
\* after nothing worse than a word that was looked up and not found.
EachPressReturns ==
  drift \subseteq {"missed"} =>
    \A i \in DOMAIN chain : Resolves(chain[i].idx, chain[i].word)
=============================================================================
