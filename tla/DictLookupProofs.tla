-------------------------- MODULE DictLookupProofs --------------------------
(***************************************************************************)
(* Proofs about DictLookup for any set of words and any length of the      *)
(* visible history.                                                        *)
(***************************************************************************)
EXTENDS DictLookup, TLAPS

Asked == {"LookingUp", "AltFormPrompt"}

\* What the screens owe each other: a cover lies on an idle screen that does
\* not close, and what is looked up or offered again is a word.
CoverOK ==
  /\ child # "none" => main = "loop" /\ ctl[Top].state = "Idle"
  /\ \A c \in Controllers : ctl[c].state # "Idle" => ctl[c].word \in Words
  /\ (child = "suggestions" \/ (child = "picker" /\ Top = "select")) => ctl[Top].word \in Words

\* A notification is for a worker that waits.
NoticeOK == wpc # "take" => ~notified

\* The way back belongs to the definition.
TrailOwned ==
  "define" \notin live =>
    /\ chain = <<>> /\ current = -1 /\ shown = NoWord
    /\ ~backing /\ ~switching

\* A definition the history does not know has nothing below it, and a lookup
\* that is not recorded is one back or one in another dictionary.
RecordOK ==
  /\ current = -1 => chain = <<>>
  /\ (ctl["define"].state \in Asked /\ ~ctl["define"].record) => backing \/ switching

\* As long as nothing has drifted, the current index names the definition on
\* the screen or, on the way back, the word that is being looked up again.
CurrentOK ==
  drift = {} =>
    /\ ("define" \in live /\ current >= 0 /\ ~backing) => Resolves(current, shown)
    /\ backing =>
         /\ ctl["define"].state \in Asked /\ current >= 0
         /\ Resolves(current, ctl["define"].word)
    /\ (switching /\ ~backing /\ ctl["define"].state \in Asked /\ ~ctl["define"].record) =>
         ctl["define"].word = shown

\* The two halves of TypeOK.
WorkerType ==
  /\ live \in {{}, {"select"}, Controllers}
  /\ child \in {"none", "suggestions", "picker"} /\ main \in {"loop", "one", "all"}
  /\ (child # "none" \/ main # "loop") => live # {}
  /\ ctl \in [Controllers -> Lookups]
  /\ owner \in Controllers \cup {NoOwner} /\ notified \in BOOLEAN
  /\ wpc \in {"take", "index", "locate", "done", "clear"}
  /\ (wpc # "take" \/ notified) <=> owner # NoOwner
TrailType ==
  /\ history \in Seq(Words)
  /\ chain \in Seq([idx : Nat, word : Words])
  /\ current \in Nat \cup {-1}
  /\ shown \in Words \cup {NoWord} /\ ("define" \in live => shown # NoWord)
  /\ backing \in BOOLEAN /\ switching \in BOOLEAN
  /\ drift \subseteq {"refused", "switched", "astray", "missed"}

WorkerInv == WorkerType /\ CoverOK /\ NoticeOK /\ OwnerAlive /\ WorkerAlone
TrailInv  == TrailType /\ TrailOwned /\ RecordOK /\ CurrentOK /\ BackLeadsToTheWord
IInv == WorkerInv /\ TrailInv

-----------------------------------------------------------------------------
(* The worker and the screens.                                             *)

\* The screen on top is one of the two, and exists while any does.
LEMMA TopExists ==
  /\ Top \in Controllers
  /\ WorkerType /\ live # {} => Top \in live
  BY DEF Top, Controllers, WorkerType

\* What At builds is a controller, in the given state and with a fresh lookup.
LEMMA AtType ==
  ASSUME NEW s \in States, NEW w \in Words \cup {NoWord}, NEW r \in BOOLEAN
  PROVE  /\ At(s, w, r) \in Lookups
         /\ At(s, w, r).state = s /\ At(s, w, r).word = w /\ At(s, w, r).record = r
         /\ ~At(s, w, r).done
  BY DEF At, Lookups

\* Fresh controllers are idle ones.
LEMMA FreshType == Fresh \in Lookups /\ Fresh.state = "Idle" /\ Fresh.record
  BY DEF Fresh, At, Lookups, States

\* The controller on top is put into a state that needs no worker, when the
\* worker has nothing more to do for it.
LEMMA Settles ==
  ASSUME WorkerInv, live # {}, ctl[Top].state # "LookingUp" \/ ctl[Top].done,
         NEW s \in States \ {"LookingUp"}, NEW w \in Words \cup {NoWord}, NEW r \in BOOLEAN,
         s # "Idle" => w \in Words,
         ctl' = [ctl EXCEPT ![Top] = At(s, w, r)],
         UNCHANGED <<live, main, worker>>,
         child' \in {"none", "suggestions", "picker"},
         child' # "none" => main = "loop" /\ s = "Idle",
         (child' = "suggestions" \/ (child' = "picker" /\ Top = "select")) => w \in Words
  PROVE  WorkerInv'
  <1>1. Top \in Controllers /\ Top \in live /\ Top' = Top
    BY TopExists DEF WorkerInv, Top
  <1>2. ctl'[Top] = At(s, w, r) /\ \A c \in Controllers \ {Top} : ctl'[c] = ctl[c]
    BY <1>1 DEF WorkerInv, WorkerType
  <1>3. At(s, w, r) \in Lookups /\ At(s, w, r).state = s /\ At(s, w, r).word = w
    BY AtType
  <1>4. ctl' \in [Controllers -> Lookups]
    BY <1>1, <1>3 DEF WorkerInv, WorkerType
  <1>5. WorkerType'
    BY <1>4 DEF WorkerInv, WorkerType, worker
  <1>6. CoverOK'
    BY <1>1, <1>2, <1>3 DEF WorkerInv, CoverOK
  <1>7. NoticeOK' /\ OwnerAlive'
    BY DEF WorkerInv, NoticeOK, OwnerAlive, worker
  <1>8. WorkerAlone'
    BY <1>1, <1>2, <1>3 DEF WorkerInv, WorkerType, WorkerAlone, worker
  <1> QED
    BY <1>5, <1>6, <1>7, <1>8 DEF WorkerInv

\* A new lookup gets the worker only when nobody has it, and before that the
\* controller was idle.
LEMMA Starts ==
  ASSUME WorkerInv, live # {}, main = "loop", ctl[Top].state = "Idle",
         NEW w \in Words, NEW r \in BOOLEAN, StartLookup(Top, w, r),
         UNCHANGED <<live, main>>, child' = "none"
  PROVE  /\ WorkerInv'
         /\ ctl' = [ctl EXCEPT ![Top] = IF Free THEN Lookup(w, r) ELSE Fresh]
  <1>1. Top \in Controllers /\ Top \in live /\ Top' = Top
    BY TopExists DEF WorkerInv, Top
  <1>2. CASE Free
    <2>1. owner' = Top /\ notified' = TRUE /\ wpc' = wpc /\ ctl' = [ctl EXCEPT ![Top] = Lookup(w, r)]
      BY <1>2 DEF StartLookup
    <2>2. /\ ctl'[Top] = Lookup(w, r) /\ \A c \in Controllers \ {Top} : ctl'[c] = ctl[c]
          /\ Lookup(w, r) \in Lookups /\ ~Lookup(w, r).done
          /\ Lookup(w, r).state = "LookingUp" /\ Lookup(w, r).word = w
          /\ ctl' \in [Controllers -> Lookups]
      BY <1>1, <2>1, AtType DEF WorkerInv, WorkerType, Lookup, States
    <2>3. wpc = "take" /\ owner' \notin {NoOwner}
      BY <1>1, <1>2, <2>1, ConstantsAssumption DEF WorkerInv, WorkerType, Free
    <2>4. WorkerType' /\ NoticeOK' /\ OwnerAlive'
      BY <1>1, <2>1, <2>2, <2>3 DEF WorkerInv, WorkerType, NoticeOK, OwnerAlive
    <2>5. CoverOK' /\ WorkerAlone'
      BY <1>1, <2>1, <2>2 DEF WorkerInv, CoverOK, WorkerAlone
    <2> QED
      BY <1>2, <2>1, <2>4, <2>5 DEF WorkerInv
  <1>3. CASE ~Free
    <2>1. ctl' = [ctl EXCEPT ![Top] = At("Idle", NoWord, TRUE)] /\ UNCHANGED worker
      BY <1>3 DEF StartLookup, Fresh
    <2>2. WorkerInv'
      BY <2>1, Settles DEF States, worker
    <2> QED
      BY <1>3, <2>1, <2>2 DEF Fresh
  <1> QED
    BY <1>2, <1>3

\* Asking a lookup to stop disturbs nothing.
LEMMA Asks ==
  ASSUME WorkerInv, live # {}, ctl' = [ctl EXCEPT ![Top].cancelReq = TRUE],
         UNCHANGED <<live, worker>>, main' \in {"loop", "one", "all"},
         child' \in {child, "none"}, child' # "none" => main' = "loop"
  PROVE  /\ WorkerInv'
         /\ \A c \in Controllers : /\ ctl'[c].state = ctl[c].state /\ ctl'[c].word = ctl[c].word
                                   /\ ctl'[c].record = ctl[c].record
  <1>1. Top \in Controllers /\ Top' = Top
    BY TopExists DEF Top
  <1>0. ctl \in [Controllers -> Lookups]
    BY DEF WorkerInv, WorkerType
  <1>2. ctl' \in [Controllers -> Lookups]
    BY <1>0, <1>1 DEF Lookups
  <1>3. \A c \in Controllers : /\ ctl'[c].state = ctl[c].state /\ ctl'[c].word = ctl[c].word
                               /\ ctl'[c].record = ctl[c].record /\ ctl'[c].done = ctl[c].done
    BY <1>0, <1>1 DEF Lookups
  <1>4. WorkerType'
    BY <1>2 DEF WorkerInv, WorkerType, worker
  <1>5. CoverOK' /\ NoticeOK'
    BY <1>1, <1>3 DEF WorkerInv, CoverOK, NoticeOK, worker
  <1>6. OwnerAlive' /\ WorkerAlone'
    BY <1>3 DEF WorkerInv, WorkerType, OwnerAlive, WorkerAlone, worker
  <1> QED
    BY <1>3, <1>4, <1>5, <1>6 DEF WorkerInv

\* A hit opens a definition or replaces the one on the screen.
LEMMA FoundKeeps ==
  ASSUME WorkerInv, live # {}, main = "loop", child = "none",
         ctl[Top].state # "LookingUp" \/ ctl[Top].done, FoundDefinition
  PROVE  WorkerInv'
  <1>1. CASE Forgets /\ UNCHANGED <<screens, worker>>
    BY <1>1, Settles DEF Forgets, Fresh, States, screens
  <1>2. CASE Top = "select" /\ OpensDefinition /\ ~(Forgets /\ UNCHANGED <<screens, worker>>)
    <2>1. /\ live' = live \cup {"define"} /\ UNCHANGED <<child, main, worker>>
          /\ ctl' = [k \in Controllers |-> Fresh]
      BY <1>2 DEF OpensDefinition
    <2>2. live' = Controllers
      BY <1>2, <2>1, TopExists DEF WorkerInv, WorkerType, Controllers, Top
    <2>3. Top \in Controllers /\ Top' \in Controllers
      BY <1>2, <2>2 DEF Top, Controllers
    <2>4. owner # NoOwner => owner = Top
      BY <1>2, TopExists DEF WorkerInv, OwnerAlive, WorkerType, Top, Controllers
    <2>5. WorkerType' /\ CoverOK' /\ NoticeOK' /\ OwnerAlive'
      BY <2>1, <2>2, <2>3, FreshType DEF WorkerInv, WorkerType, CoverOK, NoticeOK, OwnerAlive, worker
    <2>6. WorkerAlone'
      BY <2>1, <2>4 DEF WorkerInv, WorkerAlone, worker
    <2> QED
      BY <2>5, <2>6 DEF WorkerInv
  <1> QED
    BY <1>1, <1>2 DEF FoundDefinition, ReplacesDefinition, OpensDefinition

\* A miss leaves an idle controller, suggestions over one, or its message.
LEMMA FailedKeeps ==
  ASSUME WorkerInv, live # {}, main = "loop", child = "none", ctl[Top].state # "Idle",
         ctl[Top].state # "LookingUp" \/ ctl[Top].done, LookupFailed
  PROVE  WorkerInv'
  <1>1. /\ ctl[Top].word \in Words /\ ctl[Top].record \in BOOLEAN
        /\ UNCHANGED <<live, main, worker>>
    BY TopExists DEF WorkerInv, WorkerType, CoverOK, Lookups, LookupFailed, screens
  <1>2. CASE Forgets /\ child' = "none"
    BY <1>1, <1>2, Settles DEF Forgets, Fresh, States
  <1>3. CASE Becomes("Idle") /\ child' = "suggestions"
    BY <1>1, <1>3, Settles DEF Becomes, States
  <1>4. CASE Becomes("NotFound") /\ UNCHANGED screens
    BY <1>1, <1>4, Settles DEF Becomes, States, screens
  <1> QED
    BY <1>2, <1>3, <1>4 DEF LookupFailed

\* The last element of a sequence is an element.
LEMMA LastOf ==
  ASSUME NEW S, NEW s \in Seq(S), s # <<>>
  PROVE  Len(s) \in 1..Len(s) /\ s[Len(s)] \in S /\ SubSeq(s, 1, Len(s) - 1) \in Seq(S)
  OBVIOUS

\* So is any other.
LEMMA ElementOf ==
  ASSUME NEW S, NEW s \in Seq(S), NEW i \in DOMAIN s
  PROVE  s[i] \in S
  OBVIOUS

\* While it looks a word up the worker changes neither state nor word.
LEMMA WorkerWrites ==
  ASSUME WorkerInv, Index \/ Locate \/ Done
  PROVE  /\ ctl' \in [Controllers -> Lookups] /\ owner \in Controllers
         /\ \A c \in Controllers : /\ ctl'[c].state = ctl[c].state /\ ctl'[c].word = ctl[c].word
                                   /\ ctl'[c].record = ctl[c].record
         /\ \A c \in Controllers : ctl'[c].done # ctl[c].done => wpc' = "clear"
  <1> USE DEF WorkerInv
  <1>1. owner \in Controllers /\ ctl \in [Controllers -> Lookups] /\ ctl[owner] \in Lookups
    BY DEF WorkerType, Index, Locate, Done
  <1>2. CASE Index
    <2>1. CASE UNCHANGED ctl
      BY <1>1, <2>1
    <2>2. CASE ctl' = [ctl EXCEPT ![owner].cancelled = TRUE, ![owner].done = TRUE] /\ wpc' = "clear"
      <3> DEFINE r == [ctl[owner] EXCEPT !.cancelled = TRUE, !.done = TRUE]
      <3>1. ctl' = [ctl EXCEPT ![owner] = r]
        BY <1>1, <2>2
      <3>2. r \in Lookups /\ r.state = ctl[owner].state /\ r.word = ctl[owner].word
            /\ r.record = ctl[owner].record
        BY <1>1 DEF Lookups
      <3> HIDE DEF r
      <3> QED
        BY <1>1, <2>2, <3>1, <3>2
    <2> QED
      BY <1>2, <2>1, <2>2 DEF Index
  <1>3. CASE Locate
    <2>1. PICK a \in {"none", "found", "error"} :
            ctl' = [ctl EXCEPT ![owner].result = a, ![owner].cancelled = ctl[owner].cancelReq]
      BY <1>3 DEF Locate
    <2> DEFINE r == [ctl[owner] EXCEPT !.result = a, !.cancelled = ctl[owner].cancelReq]
    <2>2. ctl' = [ctl EXCEPT ![owner] = r]
      BY <1>1, <2>1
    <2>3. r \in Lookups /\ r.state = ctl[owner].state /\ r.word = ctl[owner].word
          /\ r.record = ctl[owner].record /\ r.done = ctl[owner].done
      BY <1>1 DEF Lookups
    <2> HIDE DEF r
    <2> QED
      BY <1>1, <2>2, <2>3
  <1>4. CASE Done
    BY <1>1, <1>4 DEF Done, Lookups
  <1> QED
    BY <1>2, <1>3, <1>4

\* The worker writes the fields of its owner, and gives it up last.
LEMMA WorkerKeeps == ASSUME WorkerInv, Worker PROVE WorkerInv'
  <1> USE DEF WorkerInv
  <1>1. Top' = Top
    BY DEF Worker, Take, Index, Locate, Done, Clear, screens, Top
  <1>2. ASSUME Take \/ Clear
        PROVE  WorkerInv'
    <2>1. UNCHANGED <<live, child, main, ctl>> /\ (owner' = NoOwner \/ owner' = owner)
      BY <1>2 DEF Take, Clear, screens
    <2>2. CoverOK'
      BY <1>1, <2>1 DEF CoverOK
    <2>3. ASSUME Take PROVE WorkerType' /\ NoticeOK'
      BY <2>1, <2>3 DEF Take, WorkerType, NoticeOK
    <2>5. ASSUME Clear PROVE WorkerType' /\ NoticeOK'
      <3>1. ~notified /\ ~notified'
        BY <2>5 DEF Clear, NoticeOK
      <3> QED
        BY <2>1, <2>5, <3>1 DEF Clear, WorkerType, NoticeOK
    <2>4. OwnerAlive' /\ WorkerAlone'
      BY <1>2, <2>1 DEF Take, Clear, OwnerAlive, WorkerAlone
    <2> QED
      BY <1>2, <2>2, <2>3, <2>4, <2>5
  <1>3. ASSUME Index \/ Locate \/ Done
        PROVE  /\ ctl' \in [Controllers -> Lookups] /\ owner \in Controllers
               /\ \A c \in Controllers : /\ ctl'[c].state = ctl[c].state /\ ctl'[c].word = ctl[c].word
                                         /\ ctl'[c].record = ctl[c].record
               /\ \A c \in Controllers : ctl'[c].done # ctl[c].done => wpc' = "clear"
    BY <1>3, WorkerWrites
  <1>4. ASSUME Index \/ Locate \/ Done
        PROVE  WorkerInv'
    <2>1. /\ UNCHANGED <<live, child, main, owner, notified>>
          /\ wpc # "take" /\ wpc' \in {"locate", "done", "clear"}
      BY <1>4 DEF Index, Locate, Done, screens
    <2>2. WorkerType' /\ NoticeOK' /\ OwnerAlive'
      BY <1>3, <1>4, <2>1 DEF WorkerType, NoticeOK, OwnerAlive
    <2>3. CoverOK'
      BY <1>1, <1>3, <1>4, <2>1, TopExists DEF CoverOK
    <2>4. WorkerAlone'
      <3>1. wpc # "clear"
        BY <1>4 DEF Index, Locate, Done
      <3> QED
        BY <1>3, <1>4, <2>1, <3>1 DEF WorkerAlone, WorkerType
    <2> QED
      BY <2>2, <2>3, <2>4
  <1> QED
    BY <1>2, <1>4 DEF Worker

\* The screen on top is deleted only when the worker has let go of it.
LEMMA ClosedKeeps == ASSUME WorkerInv, Closed PROVE WorkerInv'
  <1>1. live # {} /\ child = "none" /\ child' = "none" /\ owner # Top /\ UNCHANGED worker
    BY DEF WorkerInv, WorkerType, CoverOK, Closed, Waited
  <1>2. Top \in Controllers /\ Top \in live
    BY <1>1, TopExists DEF WorkerInv
  <1>3. /\ live' \in {{}, {"select"}} /\ main' \in {"loop", "all"}
        /\ main' # "loop" => live' # {}
    BY <1>1 DEF WorkerInv, WorkerType, Closed, Top, Controllers
  <1>4. /\ ctl' \in [Controllers -> Lookups]
        /\ \A c \in Controllers \ {Top} : /\ ctl'[c].state = ctl[c].state
                                          /\ ctl'[c].word = ctl[c].word
                                          /\ ctl'[c].done = ctl[c].done
        /\ ctl'[Top].state = "Idle"
    BY <1>2, FreshType DEF WorkerInv, WorkerType, Closed, Lookups
  <1>5. WorkerType' /\ NoticeOK'
    BY <1>1, <1>3, <1>4 DEF WorkerInv, WorkerType, NoticeOK, worker
  <1>6. CoverOK'
    <2>1. \A c \in Controllers : ctl'[c].state # "Idle" =>
                                 ctl'[c].state = ctl[c].state /\ ctl'[c].word = ctl[c].word
      <3> SUFFICES ASSUME NEW c \in Controllers, ctl'[c].state # "Idle"
                   PROVE  ctl'[c].state = ctl[c].state /\ ctl'[c].word = ctl[c].word
        OBVIOUS
      <3>1. c # Top
        BY <1>4
      <3> QED
        BY <1>4, <3>1
    <2> QED
      BY <1>1, <2>1 DEF WorkerInv, CoverOK
  <1>7. OwnerAlive' /\ WorkerAlone'
    BY <1>1, <1>4 DEF WorkerInv, WorkerType, OwnerAlive, WorkerAlone, Closed, worker
  <1> QED
    BY <1>5, <1>6, <1>7 DEF WorkerInv

LEMMA WorkerStep == WorkerInv /\ TrailType /\ [Next]_vars => WorkerInv'
  <1> SUFFICES ASSUME WorkerInv, TrailType, [Next]_vars
               PROVE  WorkerInv'
    OBVIOUS
  <1>t. Top \in Controllers
    BY TopExists
  <1>w. /\ ctl[Top].word \in Words \cup {NoWord} /\ ctl[Top].record \in BOOLEAN
        /\ ctl[Top].state # "Idle" => ctl[Top].word \in Words
    BY <1>t DEF WorkerInv, WorkerType, CoverOK, Lookups
  <1>1. CASE Poll
    <2>1. CASE Cancelled
      BY <1>1, <2>1, Settles DEF Poll, Running, Cancelled, Forgets, Fresh, States, screens
    <2>2. CASE FoundDefinition
      BY <1>1, <2>2, FoundKeeps DEF Poll, Running
    <2>3. CASE Becomes("ReadError") /\ UNCHANGED <<screens, worker>>
      BY <1>1, <1>w, <2>3, Settles DEF Poll, Running, Becomes, States, screens
    <2>4. CASE Becomes("AltFormPrompt") /\ UNCHANGED <<screens, worker>>
      BY <1>1, <1>w, <2>4, Settles DEF Poll, Running, Becomes, States, screens
    <2>5. CASE LookupFailed
      BY <1>1, <2>5, FailedKeeps DEF Poll, Running
    <2> QED
      BY <1>1, <2>1, <2>2, <2>3, <2>4, <2>5 DEF Poll
  <1>2. CASE Cancel
    BY <1>2, Asks DEF Cancel, Running, screens, WorkerInv, WorkerType
  <1>3. CASE AnswerAltForm
    <2>1. CASE Cancelled
      BY <1>3, <2>1, Settles DEF AnswerAltForm, Running, Cancelled, Forgets, Fresh, States, screens
    <2>2. CASE FoundDefinition
      BY <1>3, <2>2, FoundKeeps DEF AnswerAltForm, Running
    <2>3. CASE LookupFailed
      BY <1>3, <2>3, FailedKeeps DEF AnswerAltForm, Running
    <2> QED
      BY <1>3, <2>1, <2>2, <2>3 DEF AnswerAltForm
  <1>4. CASE SuggestionsReturn
    <2>1. /\ live # {} /\ main = "loop" /\ ctl[Top].state = "Idle" /\ ctl[Top].word \in Words
          /\ child' = "none" /\ UNCHANGED <<live, main>>
      BY <1>4 DEF SuggestionsReturn, WorkerInv, WorkerType, CoverOK
    <2>2. CASE Becomes("NotFound") /\ UNCHANGED worker
      BY <1>w, <2>1, <2>2, Settles DEF Becomes, States
    <2>3. CASE \E w \in Words : StartLookup(Top, w, TRUE)
      BY <2>1, <2>3, Starts
    <2> QED
      BY <1>4, <2>2, <2>3 DEF SuggestionsReturn
  <1>5. CASE OpenSelection
    <2>1. owner = NoOwner /\ child = "none"
      BY <1>5 DEF OpenSelection, WorkerInv, WorkerType, OwnerAlive
    <2>2. Top = "select" /\ Top' = "select"
      BY <1>5 DEF OpenSelection, Top
    <2> QED
      BY <1>5, <2>1, <2>2, FreshType
      DEF OpenSelection, WorkerInv, WorkerType, CoverOK, NoticeOK, OwnerAlive, WorkerAlone,
          worker, Controllers
  <1>6. CASE LookUp
    BY <1>6, Starts DEF LookUp, Running, screens
  <1>7. CASE GoBack
    <2>1. /\ live # {} /\ main = "loop" /\ child = "none" /\ child' = "none"
          /\ ctl[Top].state = "Idle" /\ Top = "define"
      BY <1>7 DEF GoBack, Running
    <2>2. CASE Closes("one")
      BY <2>1, <2>2, Asks DEF Closes
    <2>3. ASSUME chain[Len(chain)].idx < Len(history)
          PROVE  Recent(chain[Len(chain)].idx) \in Words
      <3>1. chain[Len(chain)] \in [idx : Nat, word : Words]
        BY <1>7, LastOf DEF GoBack, TrailType
      <3>2. Len(history) - chain[Len(chain)].idx \in 1..Len(history)
        BY <2>3, <3>1 DEF TrailType
      <3> QED
        BY <3>2 DEF TrailType, Recent
    <2> QED
      BY <1>7, <2>1, <2>2, <2>3, Starts DEF GoBack
  <1>8. CASE Leave
    BY <1>8, Asks DEF Leave, Running, Closes
  <1>9. CASE LeaveAll
    BY <1>9, Asks DEF LeaveAll, Closes
  <1>10. CASE Closed
    BY <1>10, ClosedKeeps
  <1>11. CASE Dismiss
    BY <1>11, <1>w, Settles DEF Dismiss, Running, Becomes, Forgets, Fresh, States
  <1>12. CASE OpenPicker
    <2>1. Top' = Top /\ Top = "define"
      BY <1>12 DEF OpenPicker, Top
    <2> QED
      BY <1>12, <2>1
      DEF OpenPicker, Running, WorkerInv, WorkerType, CoverOK, NoticeOK, OwnerAlive, WorkerAlone, worker
  <1>13. CASE PickerReturns
    <2>1. /\ live # {} /\ main = "loop" /\ ctl[Top].state = "Idle"
          /\ child = "picker" /\ child' = "none" /\ UNCHANGED <<live, main>>
      BY <1>13 DEF PickerReturns, WorkerInv, WorkerType, CoverOK
    <2>2. (IF Top = "define" THEN shown ELSE ctl[Top].word) \in Words
      BY <1>t, <2>1, TopExists DEF WorkerInv, CoverOK, TrailType, Controllers
    <2>3. CASE UNCHANGED <<ctl, worker>>
      <3>1. Top' = Top
        BY <2>1 DEF Top
      <3> QED
        BY <2>1, <2>3, <3>1
        DEF WorkerInv, WorkerType, CoverOK, NoticeOK, OwnerAlive, WorkerAlone, worker
    <2> QED
      BY <1>13, <2>1, <2>2, <2>3, Starts DEF PickerReturns
  <1>14. CASE Worker
    BY <1>14, WorkerKeeps
  <1>15. CASE UNCHANGED vars
    <2>1. Top' = Top
      BY <1>15 DEF vars, screens, Top
    <2> QED
      BY <1>15, <2>1
      DEF vars, screens, worker, WorkerInv, WorkerType, CoverOK, NoticeOK, OwnerAlive, WorkerAlone
  <1> QED
    BY <1>1, <1>2, <1>3, <1>4, <1>5, <1>6, <1>7, <1>8, <1>9, <1>10, <1>11, <1>12, <1>13,
       <1>14, <1>15 DEF Next, Main

-----------------------------------------------------------------------------
(* The way back.                                                           *)

Kinds == {"refused", "switched", "astray", "missed"}

\* A word that is recorded is the newest, and every other one word older.
LEMMA Aging ==
  ASSUME history \in Seq(Words), NEW x \in Words, history' = Append(history, x)
  PROVE  /\ history' \in Seq(Words)
         /\ Resolves(0, x)'
         /\ \A i \in Nat, w \in Words : Resolves(i, w) => Resolves(i + 1, w)'
  <1>1. history' \in Seq(Words) /\ Len(history') = Len(history) + 1 /\ Len(history) \in Nat
    OBVIOUS
  <1>2. history'[Len(history')] = x /\ \A k \in 1..Len(history) : history'[k] = history[k]
    OBVIOUS
  <1>3. Resolves(0, x)'
    BY <1>1, <1>2 DEF Resolves, Recent
  <1>4. ASSUME NEW i \in Nat, NEW w \in Words, Resolves(i, w)
        PROVE  Resolves(i + 1, w)'
    <2>1. Len(history) - i \in 1..Len(history) /\ Len(history') - (i + 1) = Len(history) - i
      BY <1>1, <1>4 DEF Resolves
    <2> QED
      BY <1>1, <1>2, <1>4, <2>1 DEF Resolves, Recent
  <1> QED
    BY <1>1, <1>3, <1>4

\* onForward pushes the word that is left, ages the ones below it and drops
\* some of those.
LEMMA LeavesType ==
  ASSUME TrailType, current >= 0, shown \in Words, Leaves(TRUE)
  PROVE  /\ chain' \in Seq([idx : Nat, word : Words])
         /\ \A i \in DOMAIN chain' :
              \/ chain'[i].idx = current + 1 /\ chain'[i].word = shown
              \/ \E j \in DOMAIN chain : chain'[i].idx = chain[j].idx + 1 /\ chain'[i].word = chain[j].word
  <1> DEFINE E == [idx : Nat, word : Words]
             e == [idx |-> current, word |-> shown]
             s == Append(chain, e)
             aged == [i \in DOMAIN s |-> [s[i] EXCEPT !.idx = IF TRUE THEN @ + 1 ELSE @]]
  <1>1. chain \in Seq(E) /\ e \in E /\ current \in Nat
    BY DEF TrailType
  <1>2. s \in Seq(E) /\ Len(s) = Len(chain) + 1 /\ Len(chain) \in Nat /\ DOMAIN s = 1..Len(s)
        /\ s[Len(s)] = e /\ \A j \in 1..Len(chain) : s[j] = chain[j]
    BY <1>1
  <1>3. \A j \in 1..Len(s) : s[j] \in E
    <2> HIDE DEF s, E
    <2> QED
      BY <1>2
  <1>4. \A j \in 1..Len(s) : aged[j] \in E /\ aged[j].idx = s[j].idx + 1 /\ aged[j].word = s[j].word
    BY <1>2, <1>3
  <1>5. aged \in Seq(E) /\ Len(aged) = Len(s)
    <2> HIDE DEF s
    <2>1. DOMAIN aged = 1..Len(s) /\ Len(s) \in Nat
      BY <1>2
    <2>2. aged \in [1..Len(s) -> E]
      BY <1>4, <2>1
    <2> HIDE DEF aged, E
    <2> QED
      BY <2>1, <2>2
  <1>6. PICK n \in 0..Len(s) : chain' = SubSeq(aged, n + 1, Len(s))
    BY DEF Leaves
  <1> HIDE DEF aged, s, E
  <1>7. /\ chain' \in Seq(E) /\ Len(chain') = Len(s) - n
        /\ \A i \in 1..(Len(s) - n) : chain'[i] = aged[n + i]
    BY <1>2, <1>5, <1>6
  <1>8. ASSUME NEW i \in DOMAIN chain'
        PROVE  \/ chain'[i].idx = current + 1 /\ chain'[i].word = shown
               \/ \E j \in DOMAIN chain : chain'[i].idx = chain[j].idx + 1 /\ chain'[i].word = chain[j].word
    <2>1. n + i \in 1..Len(s) /\ chain'[i] = aged[n + i]
      BY <1>2, <1>7
    <2>2. CASE n + i = Len(s)
      BY <1>2, <1>4, <2>1, <2>2
    <2>3. CASE n + i # Len(s)
      <3>1. n + i \in DOMAIN chain /\ s[n + i] = chain[n + i]
        BY <1>1, <1>2, <2>1, <2>3
      <3> QED
        BY <1>4, <2>1, <3>1
    <2> QED
      BY <2>2, <2>3
  <1> QED
    BY <1>7, <1>8 DEF E

\* What leaves the chain and the screen alone leaves the way back alone: the
\* history may only grow under a definition when that is a drift.
LEMMA TrailKeeps ==
  ASSUME TrailInv, UNCHANGED <<chain, current, shown, backing>>,
         "define" \in live' <=> "define" \in live,
         history' \in Seq(Words), drift' \subseteq Kinds, drift' = {} => drift = {},
         history' = history \/ drift' # {} \/ "define" \notin live,
         switching' \in BOOLEAN, "define" \notin live => ~switching',
         (ctl'["define"].state \in Asked /\ ~ctl'["define"].record) => backing \/ switching',
         (drift' = {} /\ backing) =>
           ctl'["define"].state \in Asked /\ ctl'["define"].word = ctl["define"].word,
         (drift' = {} /\ switching' /\ ~backing /\ ctl'["define"].state \in Asked
            /\ ~ctl'["define"].record) => ctl'["define"].word = shown
  PROVE  TrailInv'
  <1>1. TrailType' /\ TrailOwned' /\ RecordOK'
    BY DEF TrailInv, TrailType, TrailOwned, RecordOK, Kinds
  <1>2. ASSUME drift' = {}
        PROVE  /\ \A i \in DOMAIN chain : Resolves(chain[i].idx, chain[i].word)'
               /\ ("define" \in live /\ current >= 0 /\ ~backing) => Resolves(current, shown)'
               /\ backing => current >= 0 /\ Resolves(current, ctl["define"].word)'
    <2>1. CASE history' = history
      BY <1>2, <2>1 DEF TrailInv, CurrentOK, BackLeadsToTheWord, Resolves, Recent
    <2>2. CASE "define" \notin live
      BY <1>2, <2>2 DEF TrailInv, TrailOwned
    <2> QED
      BY <1>2, <2>1, <2>2
  <1>3. CurrentOK'
    BY <1>2 DEF CurrentOK, Resolves, Recent
  <1>4. BackLeadsToTheWord'
    BY <1>2 DEF BackLeadsToTheWord, Resolves, Recent
  <1> QED
    BY <1>1, <1>3, <1>4 DEF TrailInv

\* A step of the controller on top, with what the definition's then holds.
LEMMA DefineAfter ==
  ASSUME WorkerInv, NEW r, ctl' = [ctl EXCEPT ![Top] = r]
  PROVE  /\ Top = "define" => ctl'["define"] = r
         /\ Top # "define" => ctl'["define"] = ctl["define"]
         /\ live # {} => (Top = "define" <=> "define" \in live)
  BY DEF WorkerInv, WorkerType, Controllers, Top

\* The way back does not see a state of the controller on top that is not Asked.
LEMMA QuietKeeps ==
  ASSUME WorkerInv, TrailInv, live # {},
         NEW s \in States \ Asked, NEW w, NEW r, ctl' = [ctl EXCEPT ![Top] = At(s, w, r)],
         UNCHANGED <<live, chain, current, shown, backing>>,
         history' \in Seq(Words), drift' \subseteq Kinds, drift' = {} => drift = {},
         history' = history \/ drift' # {} \/ Top # "define",
         switching' \in BOOLEAN, switching' = switching \/ (Top = "define" /\ ~switching'),
         (Top = "define" /\ backing) => drift' # {}
  PROVE  TrailInv'
  <1>1. At(s, w, r).state = s
    BY DEF At
  <1>2. Top = "define" <=> "define" \in live
    BY DefineAfter
  <1>3. "define" \notin live => ~switching /\ ~backing
    BY DEF TrailInv, TrailOwned
  <1>4. CASE Top = "define"
    <2>1. ctl'["define"].state \notin Asked
      BY <1>1, <1>4, DefineAfter
    <2> QED
      BY <1>2, <1>3, <1>4, <2>1, TrailKeeps
  <1>5. CASE Top # "define"
    <2>1. ctl'["define"] = ctl["define"] /\ switching' = switching
      BY <1>5, DefineAfter
    <2> QED
      BY <1>2, <1>3, <1>5, <2>1, TrailKeeps DEF TrailInv, RecordOK
  <1> QED
    BY <1>4, <1>5

\* Whatever addWordIf does, the history is one of words, and it has only
\* changed without a drift when the word was recorded.
LEMMA RecordsType ==
  ASSUME TrailInv, NEW w \in Words, NEW on, NEW apart \in SUBSET Kinds, Records(w, on, apart)
  PROVE  /\ history' \in Seq(Words) /\ drift' \subseteq Kinds
         /\ drift' = {} => apart = {}
         /\ ~on => history' = history /\ drift' = apart
         /\ drift' = {} /\ on => history' = Append(history, w)
  <1>1. history \in Seq(Words) /\ Append(history, w) \in Seq(Words)
    BY DEF TrailInv, TrailType
  <1>2. CASE on /\ history' = Append(history, w) /\ drift' = apart
    BY <1>1, <1>2
  <1>3. CASE on /\ history' = history /\ drift' = apart \cup {"refused"}
    BY <1>1, <1>3 DEF Kinds
  <1>4. CASE ~on /\ history' = history /\ drift' = apart
    BY <1>1, <1>4
  <1> QED
    BY <1>2, <1>3, <1>4 DEF Records

\* A hit in the definition: forward, back, or in another dictionary.
LEMMA ReplacesKeeps ==
  ASSUME WorkerInv, TrailInv, "define" \in live, Top = "define",
         ctl["define"].state \in Asked, ReplacesDefinition
  PROVE  TrailInv'
  <1> DEFINE c == ctl["define"]
             logged == c.record /\ ~backing
             apart == drift \cup (IF switching /\ logged THEN {"switched"} ELSE {})
  <1>1. /\ c.word \in Words /\ c.record \in BOOLEAN /\ live' = live
        /\ ctl'["define"] = Fresh /\ Fresh.state = "Idle"
    BY FreshType, DefineAfter
    DEF WorkerInv, WorkerType, CoverOK, Lookups, Controllers, Asked, ReplacesDefinition, Forgets, screens
  <1>2. Records(c.word, logged, apart) /\ shown' = c.word /\ backing' = FALSE /\ switching' = FALSE
    BY DEF ReplacesDefinition
  <1>3. shown \in Words /\ apart \in SUBSET Kinds /\ logged \in BOOLEAN
    BY <1>1 DEF TrailInv, TrailType, Kinds
  <1>4. /\ history' \in Seq(Words) /\ drift' \subseteq Kinds
        /\ drift' = {} => apart = {}
    BY <1>1, <1>2, <1>3, RecordsType
  <1>5. /\ ~logged => history' = history /\ drift' = apart
        /\ drift' = {} /\ logged => history' = Append(history, c.word)
    BY <1>1, <1>2, <1>3, RecordsType
  <1>6. TrailOwned' /\ (ctl'["define"].state \notin Asked)
    BY <1>1 DEF TrailOwned, Asked
  <1>7. CASE backing \/ switching
    <2>1. UNCHANGED <<chain, current>>
      BY <1>7 DEF ReplacesDefinition
    <2>2. TrailType' /\ RecordOK'
      <3>1. shown' # NoWord /\ "define" \in live'
        BY <1>1, <1>2, ConstantsAssumption
      <3> QED
        BY <1>1, <1>2, <1>4, <1>6, <2>1, <3>1 DEF TrailInv, TrailType, RecordOK, Kinds
    <2>3. ASSUME drift' = {}
          PROVE  drift = {} /\ ~logged /\ history' = history /\ (current >= 0 => Resolves(current, c.word))
      <3>1. drift = {} /\ ~(switching /\ logged)
        BY <1>4, <2>3
      <3>2. ~logged
        BY <1>7, <3>1
      <3> QED
        BY <1>5, <1>7, <3>1, <3>2 DEF TrailInv, CurrentOK
    <2>4. CurrentOK'
      BY <1>2, <1>6, <2>1, <2>3 DEF CurrentOK, Resolves, Recent
    <2>5. BackLeadsToTheWord'
      BY <2>1, <2>3 DEF TrailInv, BackLeadsToTheWord, Resolves, Recent
    <2> QED
      BY <1>6, <2>2, <2>4, <2>5 DEF TrailInv
  <1>8. CASE ~(backing \/ switching)
    <2>1. logged = TRUE
      BY <1>8, <1>1 DEF TrailInv, RecordOK
    <2>2. current' = 0 /\ (IF current >= 0 THEN Leaves(TRUE) ELSE UNCHANGED chain)
      BY <1>8, <2>1 DEF ReplacesDefinition, OnForward
    <2>3. chain' \in Seq([idx : Nat, word : Words])
      BY <1>3, <2>2, LeavesType DEF TrailInv, TrailType
    <2>4. TrailType' /\ RecordOK'
      <3>1. shown' \in Words /\ shown' # NoWord /\ "define" \in live' /\ current' = 0
        BY <1>1, <1>2, <2>2, ConstantsAssumption
      <3>2. TrailType'
        BY <1>2, <1>4, <2>3, <3>1 DEF TrailType, Kinds
      <3> QED
        BY <1>6, <3>1, <3>2 DEF RecordOK
    <2>w. PICK x \in Words : x = c.word
      BY <1>1
    <2>5. ASSUME drift' = {}
          PROVE  /\ drift = {} /\ Resolves(0, x)'
                 /\ \A i \in Nat, w \in Words : Resolves(i, w) => Resolves(i + 1, w)'
      <3>1. drift = {} /\ history' = Append(history, x)
        BY <1>4, <1>5, <2>1, <2>5, <2>w
      <3> QED
        BY <3>1, Aging DEF TrailInv, TrailType
    <2>6. CurrentOK'
      <3>1. drift' = {} => Resolves(current, shown)'
        BY <1>2, <2>2, <2>5, <2>w DEF Resolves, Recent
      <3> QED
        BY <1>2, <1>6, <3>1 DEF CurrentOK
    <2>7. ASSUME drift' = {}, NEW i \in DOMAIN chain'
          PROVE  Resolves(chain[i].idx, chain[i].word)'
      <3>1. CASE current < 0
        <4>1. chain = <<>> /\ chain' = chain
          <5>1. current = -1
            BY <3>1 DEF TrailInv, TrailType
          <5> QED
            BY <2>2, <3>1, <5>1 DEF TrailInv, RecordOK
        <4> QED
          BY <2>7, <4>1
      <3>2. CASE current >= 0
        <4>1. \A j \in DOMAIN chain : /\ chain[j].idx \in Nat /\ chain[j].word \in Words
                                      /\ Resolves(chain[j].idx, chain[j].word)
          <5>1. \A j \in DOMAIN chain : chain[j] \in [idx : Nat, word : Words]
            BY ElementOf DEF TrailInv, TrailType
          <5> QED
            BY <2>5, <2>7, <5>1 DEF TrailInv, BackLeadsToTheWord
        <4>2. current \in Nat /\ Resolves(current, shown)
          BY <1>8, <2>5, <2>7, <3>2 DEF TrailInv, TrailType, CurrentOK
        <4>3. \/ chain'[i].idx = current + 1 /\ chain'[i].word = shown
              \/ \E j \in DOMAIN chain : chain'[i].idx = chain[j].idx + 1 /\ chain'[i].word = chain[j].word
          BY <1>3, <2>2, <2>7, <3>2, LeavesType DEF TrailInv
        <4>4. \E k \in Nat, w \in Words : chain'[i].idx = k + 1 /\ chain'[i].word = w /\ Resolves(k, w)
          BY <1>3, <4>1, <4>2, <4>3
        <4>5. PICK k \in Nat, w \in Words : chain'[i].idx = k + 1 /\ chain'[i].word = w /\ Resolves(k, w)
          BY <4>4
        <4>6. Resolves(k + 1, w)'
          BY <2>5, <2>7, <4>5
        <4> QED
          BY <4>5, <4>6 DEF Resolves, Recent
      <3> QED
        BY <3>1, <3>2 DEF TrailInv, TrailType
    <2>8. BackLeadsToTheWord'
      BY <2>7 DEF BackLeadsToTheWord
    <2> QED
      BY <1>6, <2>4, <2>6, <2>8 DEF TrailInv
  <1> QED
    BY <1>7, <1>8

\* A hit in the selection starts a new way back.
LEMMA OpensKeeps ==
  ASSUME WorkerInv, TrailInv, live # {}, Top = "select",
         ctl["select"].word \in Words, OpensDefinition
  PROVE  TrailInv'
  <1> DEFINE c == ctl["select"]
  <1>1. CASE Forgets /\ UNCHANGED <<screens, worker, trail>>
    BY <1>1, QuietKeeps DEF Forgets, Fresh, States, Asked, screens, trail, TrailInv, TrailType, Kinds
  <1>2. CASE ~(Forgets /\ UNCHANGED <<screens, worker, trail>>)
    <2>1. /\ live' = live \cup {"define"} /\ ctl' = [k \in Controllers |-> Fresh]
          /\ Records(c.word, c.record, {}) /\ chain' = <<>>
          /\ current' = IF c.record THEN 0 ELSE -1
          /\ shown' = c.word /\ backing' = FALSE /\ switching' = FALSE
      BY <1>2 DEF OpensDefinition
    <2>2. c.record \in BOOLEAN /\ ctl'["define"].state = "Idle" /\ "define" \in live'
      BY <2>1, FreshType DEF WorkerInv, WorkerType, Lookups, Controllers
    <2>3. /\ history' \in Seq(Words) /\ drift' \subseteq Kinds
          /\ (drift' = {} /\ c.record) => history' = Append(history, c.word)
      BY <2>1, <2>2, RecordsType
    <2>4. TrailType' /\ TrailOwned' /\ RecordOK' /\ BackLeadsToTheWord'
      <3>1. chain' \in Seq([idx : Nat, word : Words]) /\ current' \in Nat \cup {-1}
        BY <2>1, <2>2
      <3>2. shown' \in Words /\ shown' # NoWord
        BY <2>1, ConstantsAssumption
      <3>3. TrailType'
        BY <2>1, <2>3, <3>1, <3>2 DEF TrailType, Kinds
      <3>4. TrailOwned' /\ RecordOK'
        BY <2>1, <2>2 DEF TrailOwned, RecordOK, Asked
      <3>5. BackLeadsToTheWord'
        BY <2>1 DEF BackLeadsToTheWord
      <3> QED
        BY <3>3, <3>4, <3>5
    <2>w. PICK x \in Words : x = c.word
      OBVIOUS
    <2>5. ASSUME drift' = {}, c.record
          PROVE  Resolves(0, x)'
      <3>1. history' = Append(history, x)
        BY <2>3, <2>5, <2>w
      <3> QED
        BY <3>1, Aging DEF TrailInv, TrailType
    <2>6. CurrentOK'
      <3>1. (drift' = {} /\ current' >= 0) => Resolves(current, shown)'
        BY <2>1, <2>2, <2>5, <2>w DEF Resolves, Recent
      <3> QED
        BY <2>1, <2>2, <3>1 DEF CurrentOK, Asked
    <2> QED
      BY <2>4, <2>6 DEF TrailInv
  <1> QED
    BY <1>1, <1>2

\* A hit keeps the way back in either screen.
LEMMA FoundTrail ==
  ASSUME WorkerInv, TrailInv, live # {}, ctl[Top].state \in Asked, FoundDefinition
  PROVE  TrailInv'
  <1>1. ctl[Top].word \in Words
    BY TopExists DEF WorkerInv, CoverOK, Asked
  <1>2. Top = "define" <=> "define" \in live
    BY DEF Top
  <1> QED
    BY <1>1, <1>2, OpensKeeps, ReplacesKeeps, TopExists DEF FoundDefinition, Top

\* A way back that comes to nothing has gone astray.
LEMMA AstrayType ==
  ASSUME TrailInv
  PROVE  /\ Astray \subseteq Kinds /\ (Astray = {} => drift = {})
         /\ (Top = "define" /\ backing) => Astray # {}
  BY DEF Astray, TrailInv, TrailType, Kinds

\* A miss keeps the way back, or has drifted.
LEMMA FailedTrail ==
  ASSUME WorkerInv, TrailInv, live # {}, ctl[Top].state \in Asked, LookupFailed
  PROVE  TrailInv'
  <1>1. UNCHANGED <<live, chain, current, shown, backing, switching>>
    BY DEF LookupFailed, screens
  <1>2. switching \in BOOLEAN /\ history \in Seq(Words)
    BY DEF TrailInv, TrailType
  <1>3. CASE (Forgets \/ Becomes("Idle")) /\ drift' = Astray /\ history' = history
    BY <1>1, <1>2, <1>3, AstrayType, QuietKeeps DEF Forgets, Fresh, Becomes, States, Asked
  <1>4. CASE Becomes("NotFound") /\ Records(ctl[Top].word, ctl[Top].record,
               Astray \cup (IF Top = "define" /\ ctl[Top].record THEN {"missed"} ELSE {}))
    <2> DEFINE apart == Astray \cup (IF Top = "define" /\ ctl[Top].record THEN {"missed"} ELSE {})
    <2>1. ctl[Top].word \in Words /\ ctl[Top].record \in BOOLEAN
      BY TopExists DEF WorkerInv, WorkerType, CoverOK, Lookups, Asked
    <2>2. apart \in SUBSET Kinds
      BY AstrayType DEF Kinds
    <2>3. /\ history' \in Seq(Words) /\ drift' \subseteq Kinds
          /\ drift' = {} => apart = {}
          /\ ~ctl[Top].record => history' = history
      BY <1>4, <2>1, <2>2, RecordsType
    <2>4. history' = history \/ drift' # {} \/ Top # "define"
      BY <2>1, <2>3
    <2>5. (drift' = {} => drift = {}) /\ ((Top = "define" /\ backing) => drift' # {})
      BY <2>3, AstrayType
    <2> QED
      BY <1>1, <1>2, <1>4, <2>3, <2>4, <2>5, QuietKeeps DEF Becomes, States, Asked
  <1> QED
    BY <1>3, <1>4 DEF LookupFailed

\* What startLookup asks for is recorded, or is the word on the screen.
LEMMA StartTrail ==
  ASSUME WorkerInv, TrailInv, live # {}, ctl[Top].state = "Idle",
         NEW w \in Words, NEW r \in BOOLEAN,
         ctl' = [ctl EXCEPT ![Top] = IF Free THEN Lookup(w, r) ELSE Fresh],
         UNCHANGED <<live, history, chain, current, shown, backing, drift>>,
         switching' \in BOOLEAN, switching' = switching \/ Top = "define",
         "define" \notin live => ~switching',
         r \/ Top # "define" \/ (switching' /\ w = shown)
  PROVE  TrailInv'
  <1>1. Top = "define" <=> "define" \in live
    BY DEF Top
  <1>2. history \in Seq(Words) /\ drift \subseteq Kinds
    BY DEF TrailInv, TrailType, Kinds
  <1>3. CASE Top = "define"
    <2>1. drift # {} \/ ~backing
      BY <1>3 DEF TrailInv, CurrentOK, Asked
    <2>2. ctl'["define"] = IF Free THEN Lookup(w, r) ELSE Fresh
      BY <1>3, DefineAfter
    <2>3. /\ Free => ctl'["define"].record = r /\ ctl'["define"].word = w
          /\ ~Free => ctl'["define"].state \notin Asked
      BY <2>2, FreshType, AtType DEF Lookup, States, Asked
    <2> QED
      BY <1>1, <1>2, <1>3, <2>1, <2>3, TrailKeeps
  <1>4. CASE Top # "define"
    <2>1. ctl'["define"] = ctl["define"]
      BY <1>4, DefineAfter
    <2>2. ~backing /\ ~switching
      BY <1>1, <1>4 DEF TrailInv, TrailOwned
    <2> QED
      BY <1>1, <1>2, <1>4, <2>1, <2>2, TrailKeeps DEF TrailInv, RecordOK, CurrentOK
  <1> QED
    BY <1>3, <1>4

\* A step that touches neither the trail nor what the lookup is about.
LEMMA CalmKeeps ==
  ASSUME TrailInv, UNCHANGED <<live, history, chain, current, shown, backing, drift>>,
         ctl'["define"].state = ctl["define"].state,
         ctl'["define"].word = ctl["define"].word,
         ctl'["define"].record = ctl["define"].record,
         \/ switching' = switching
         \/ switching' = FALSE /\ ctl["define"].state \notin Asked
  PROVE  TrailInv'
  <1>1. history \in Seq(Words) /\ drift \subseteq Kinds /\ switching' \in BOOLEAN
    BY DEF TrailInv, TrailType, Kinds
  <1>2. "define" \notin live => ~switching'
    BY DEF TrailInv, TrailOwned
  <1>3. (ctl'["define"].state \in Asked /\ ~ctl'["define"].record) => backing \/ switching'
    BY DEF TrailInv, RecordOK
  <1>4. /\ (drift' = {} /\ backing) => ctl'["define"].state \in Asked
        /\ (drift' = {} /\ switching' /\ ~backing /\ ctl'["define"].state \in Asked
            /\ ~ctl'["define"].record) => ctl'["define"].word = shown
    BY DEF TrailInv, CurrentOK
  <1> QED
    BY <1>1, <1>2, <1>3, <1>4, TrailKeeps

\* The screen on top closes; a definition takes its way back with it.
LEMMA ClosedTrail == ASSUME WorkerInv, TrailInv, Closed PROVE TrailInv'
  <1>1. live # {} /\ live' = live \ {Top} /\ history' = history
    BY DEF WorkerInv, WorkerType, Closed
  <1>2. CASE Top = "define"
    <2>1. NewTrail /\ "define" \notin live'
      BY <1>1, <1>2 DEF Closed
    <2>2. ctl'["define"].state = "Idle"
      BY <1>2, FreshType DEF Closed, Controllers
    <2>3. TrailType' /\ TrailOwned' /\ RecordOK' /\ BackLeadsToTheWord'
      <3>1. history' \in Seq(Words) /\ chain' \in Seq([idx : Nat, word : Words])
        BY <1>1, <2>1 DEF NewTrail, TrailInv, TrailType
      <3>2. TrailType'
        BY <2>1, <3>1 DEF NewTrail, TrailType
      <3>3. TrailOwned' /\ RecordOK'
        BY <2>1, <2>2 DEF NewTrail, TrailOwned, RecordOK, Asked
      <3>4. BackLeadsToTheWord'
        BY <2>1 DEF NewTrail, BackLeadsToTheWord
      <3> QED
        BY <3>2, <3>3, <3>4
    <2>4. CurrentOK'
      BY <2>1, <2>2 DEF NewTrail, CurrentOK, Asked
    <2> QED
      BY <2>3, <2>4 DEF TrailInv
  <1>3. CASE Top # "define"
    <2>1. UNCHANGED <<history, chain, current, shown, backing, switching, drift>>
      BY <1>3 DEF Closed
    <2>2. "define" \notin live /\ "define" \notin live'
      BY <1>1, <1>3 DEF Top
    <2>3. /\ ctl'["define"].state = ctl["define"].state
          /\ ctl'["define"].record = ctl["define"].record
      BY <1>3 DEF WorkerInv, WorkerType, Closed, Controllers, Lookups
    <2>4. ~backing /\ ~switching /\ history \in Seq(Words) /\ drift \subseteq Kinds
      BY <2>2 DEF TrailInv, TrailOwned, TrailType, Kinds
    <2>5. ~backing' /\ ~switching' /\ switching' \in BOOLEAN
      BY <2>1, <2>4 DEF TrailInv, TrailType
    <2>6. (ctl'["define"].state \in Asked /\ ~ctl'["define"].record) => backing \/ switching'
      BY <2>1, <2>3 DEF TrailInv, RecordOK
    <2> QED
      BY <2>1, <2>2, <2>4, <2>5, <2>6, TrailKeeps
  <1> QED
    BY <1>2, <1>3

\* Back pops the chain: what it pops is current, and looked up again.
LEMMA BackTrail == ASSUME WorkerInv, TrailInv, GoBack PROVE TrailInv'
  <1> DEFINE e == chain[Len(chain)]
             E == [idx : Nat, word : Words]
  <1>1. /\ live # {} /\ Top = "define" /\ "define" \in live /\ ctl["define"].state = "Idle"
        /\ chain # <<>> /\ chain \in Seq(E) /\ history \in Seq(Words)
    BY DEF GoBack, Running, Top, TrailInv, TrailType
  <1>2. /\ chain' = SubSeq(chain, 1, Len(chain) - 1) /\ current' = e.idx
        /\ UNCHANGED <<live, history, shown, switching>>
    BY DEF GoBack, Closes
  <1>3. e \in E /\ chain' \in Seq(E) /\ e.idx \in Nat /\ e.word \in Words
    <2>1. e \in E /\ chain' \in Seq(E)
      <3> HIDE DEF E
      <3> QED
        BY <1>1, <1>2, LastOf
    <2> QED
      BY <2>1
  <1>4. \A i \in DOMAIN chain' : i \in DOMAIN chain /\ chain'[i] = chain[i]
    <2> HIDE DEF E
    <2> QED
      BY <1>1, <1>2
  <1>5. drift = {} => Resolves(e.idx, e.word)
    BY <1>1, LastOf DEF TrailInv, BackLeadsToTheWord
  <1>6. CASE ~(e.idx < Len(history)) /\ UNCHANGED <<backing, drift>> /\ Closes("one")
    <2>1. ctl'["define"].state = "Idle" /\ drift # {}
      <3>1. drift # {}
        BY <1>5, <1>6 DEF Resolves
      <3>2. ctl'["define"].state = "Idle"
        BY <1>1, <1>6 DEF Closes, WorkerInv, WorkerType, Controllers, Lookups
      <3> QED
        BY <3>1, <3>2
    <2>2. TrailType' /\ TrailOwned' /\ RecordOK'
      BY <1>1, <1>2, <1>3, <1>6, <2>1 DEF TrailInv, TrailType, TrailOwned, RecordOK, Asked
    <2> QED
      BY <1>6, <2>1, <2>2 DEF TrailInv, CurrentOK, BackLeadsToTheWord
  <1>7. CASE /\ e.idx < Len(history) /\ backing' = TRUE
             /\ StartLookup("define", Recent(e.idx), FALSE)
             /\ drift' = IF Free THEN drift ELSE drift \cup {"astray"}
    <2>1. Len(history) - e.idx \in 1..Len(history) /\ Recent(e.idx) \in Words
      <3>1. Len(history) - e.idx \in 1..Len(history)
        BY <1>1, <1>3, <1>7
      <3> QED
        BY <1>1, <3>1, ElementOf DEF Recent
    <2>2. /\ Free => ctl'["define"] = Lookup(Recent(e.idx), FALSE)
          /\ ~Free => ctl'["define"] = Fresh
      BY <1>7 DEF StartLookup, WorkerInv, WorkerType, Controllers
    <2>3. TrailType' /\ TrailOwned' /\ RecordOK'
      BY <1>1, <1>2, <1>3, <1>7
      DEF TrailInv, TrailType, TrailOwned, RecordOK
    <2>4. BackLeadsToTheWord'
      BY <1>2, <1>4, <1>7 DEF TrailInv, BackLeadsToTheWord, Resolves, Recent
    <2>5. CurrentOK'
      <3>1. ASSUME drift' = {}
            PROVE  /\ ctl'["define"].state = "LookingUp"
                   /\ ctl'["define"].word = Recent(e.idx) /\ drift = {}
        <4>1. Free /\ drift = {}
          BY <1>7, <3>1
        <4>2. PICK x \in Words : x = Recent(e.idx)
          BY <2>1
        <4>3. /\ At("LookingUp", x, FALSE).state = "LookingUp"
              /\ At("LookingUp", x, FALSE).word = x
          BY DEF At
        <4>4. ctl'["define"] = At("LookingUp", x, FALSE)
          BY <2>2, <4>1, <4>2 DEF Lookup
        <4> QED
          BY <4>1, <4>2, <4>3, <4>4
      <3>2. drift' = {} => Resolves(current, ctl["define"].word)'
        BY <1>2, <1>7, <3>1 DEF Resolves, Recent
      <3>3. current' >= 0 /\ backing' = TRUE
        BY <1>2, <1>3, <1>7
      <3> QED
        BY <3>1, <3>2, <3>3 DEF CurrentOK, Asked
    <2> QED
      BY <2>3, <2>4, <2>5 DEF TrailInv
  <1> QED
    BY <1>6, <1>7 DEF GoBack

LEMMA TrailStep == WorkerInv /\ TrailInv /\ [Next]_vars => TrailInv'
  <1> SUFFICES ASSUME WorkerInv, TrailInv, [Next]_vars
               PROVE  TrailInv'
    OBVIOUS
  <1>t. Top \in Controllers /\ "define" \in Controllers
    BY TopExists DEF Controllers
  <1>d. /\ switching \in BOOLEAN /\ history \in Seq(Words) /\ drift \subseteq Kinds
        /\ "define" \notin live => ~switching
        /\ Top = "define" <=> "define" \in live
    BY DEF TrailInv, TrailType, TrailOwned, Kinds, Top
  <1>c. ASSUME Running("LookingUp") \/ Running("AltFormPrompt"), Cancelled
        PROVE  TrailInv'
    <2>1. live # {} /\ UNCHANGED <<live, history, chain, current, shown, backing>>
      BY <1>c DEF Cancelled, Running, screens
    <2> QED
      BY <1>c, <1>d, <2>1, AstrayType, QuietKeeps DEF Cancelled, Forgets, Fresh, States, Asked
  <1>1. CASE Poll
    <2>1. Running("LookingUp") /\ live # {} /\ ctl[Top].state \in Asked
      BY <1>1 DEF Poll, Running, Asked
    <2>2. CASE Becomes("ReadError") /\ drift' = Astray
               /\ UNCHANGED <<screens, worker, history, chain, current, shown, backing, switching>>
      BY <1>d, <2>1, <2>2, AstrayType, QuietKeeps DEF Becomes, States, Asked, screens
    <2>3. CASE Becomes("AltFormPrompt") /\ UNCHANGED <<screens, worker, trail>>
      <3>1. UNCHANGED <<live, history, chain, current, shown, backing, switching, drift>>
        BY <2>3 DEF screens, trail
      <3>2. CASE Top = "define"
        <4>1. /\ ctl'["define"].state = "AltFormPrompt" /\ ctl["define"].state = "LookingUp"
              /\ ctl'["define"].word = ctl["define"].word
              /\ ctl'["define"].record = ctl["define"].record
          <5>1. ctl["define"].state = "LookingUp"
            BY <2>1, <3>2 DEF Running
          <5>2. ctl'["define"] = At("AltFormPrompt", ctl["define"].word, ctl["define"].record)
            BY <2>3, <3>2, DefineAfter DEF Becomes
          <5> QED
            BY <5>1, <5>2 DEF At
        <4>2. /\ (ctl'["define"].state \in Asked /\ ~ctl'["define"].record) => backing \/ switching'
              /\ (drift' = {} /\ backing) => ctl'["define"].state \in Asked
              /\ (drift' = {} /\ switching' /\ ~backing /\ ctl'["define"].state \in Asked
                  /\ ~ctl'["define"].record) => ctl'["define"].word = shown
          BY <3>1, <4>1 DEF TrailInv, RecordOK, CurrentOK, Asked
        <4> QED
          BY <1>d, <3>1, <4>1, <4>2, TrailKeeps
      <3>3. CASE Top # "define"
        BY <2>3, <3>1, <3>3, DefineAfter, CalmKeeps DEF Becomes
      <3> QED
        BY <3>2, <3>3
    <2> QED
      BY <1>1, <1>c, <2>1, <2>2, <2>3, FoundTrail, FailedTrail DEF Poll
  <1>2. CASE Cancel
    <2>1. /\ live # {} /\ child \in {"none"} /\ child' = child /\ main' = main
          /\ ctl' = [ctl EXCEPT ![Top].cancelReq = TRUE] /\ UNCHANGED <<live, worker>>
          /\ UNCHANGED <<history, chain, current, shown, backing, switching, drift>>
      BY <1>2 DEF Cancel, Running, screens, trail
    <2> QED
      BY <1>t, <2>1, Asks, CalmKeeps DEF WorkerInv, WorkerType
  <1>3. CASE AnswerAltForm
    <2>1. Running("AltFormPrompt") /\ live # {} /\ ctl[Top].state \in Asked
      BY <1>3 DEF AnswerAltForm, Running, Asked
    <2> QED
      BY <1>3, <1>c, <2>1, FoundTrail, FailedTrail DEF AnswerAltForm
  <1>4. CASE SuggestionsReturn
    <2>1. /\ live # {} /\ main = "loop" /\ ctl[Top].state = "Idle"
          /\ UNCHANGED <<live, main>> /\ child' = "none"
          /\ UNCHANGED <<history, chain, current, shown, backing, switching, drift>>
      BY <1>4 DEF SuggestionsReturn, WorkerInv, WorkerType, CoverOK, trail
    <2>2. CASE Becomes("NotFound")
      <3>1. ~(Top = "define" /\ backing) \/ drift # {}
        BY <2>1 DEF TrailInv, CurrentOK, Asked
      <3> QED
        BY <1>d, <2>1, <2>2, <3>1, QuietKeeps DEF Becomes, States, Asked
    <2>3. ASSUME NEW w \in Words, StartLookup(Top, w, TRUE)
          PROVE  TrailInv'
      <3>1. ctl' = [ctl EXCEPT ![Top] = IF Free THEN Lookup(w, TRUE) ELSE Fresh]
        BY <2>1, <2>3, Starts
      <3> QED
        BY <1>d, <2>1, <3>1, StartTrail
    <2> QED
      BY <1>4, <2>2, <2>3 DEF SuggestionsReturn
  <1>5. CASE OpenSelection
    <2>1. /\ live = {} /\ live' = {"select"} /\ ctl'["define"] = ctl["define"]
          /\ UNCHANGED <<history, chain, current, shown, backing, switching, drift>>
      BY <1>5 DEF OpenSelection, WorkerInv, WorkerType, Controllers, trail
    <2> QED
      BY <1>d, <2>1, TrailKeeps DEF TrailInv, TrailOwned, RecordOK, CurrentOK
  <1>6. CASE LookUp
    <2>1. /\ live # {} /\ main = "loop" /\ child = "none" /\ ctl[Top].state = "Idle"
          /\ UNCHANGED <<live, main>> /\ child' = "none"
          /\ UNCHANGED <<history, chain, current, shown, backing, switching, drift>>
      BY <1>6 DEF LookUp, Running, screens, trail
    <2>2. PICK w \in Words : StartLookup(Top, w, TRUE)
      BY <1>6 DEF LookUp
    <2>3. ctl' = [ctl EXCEPT ![Top] = IF Free THEN Lookup(w, TRUE) ELSE Fresh]
      BY <2>1, <2>2, Starts
    <2> QED
      BY <1>d, <2>1, <2>3, StartTrail
  <1>7. CASE GoBack
    BY <1>7, BackTrail
  <1>8. CASE Leave
    <2>1. /\ live # {} /\ child = "none" /\ child' = "none" /\ main' \in {"one", "all"}
          /\ ctl' = [ctl EXCEPT ![Top].cancelReq = TRUE] /\ UNCHANGED <<live, worker>>
          /\ UNCHANGED <<history, chain, current, shown, backing, drift>>
          /\ ctl[Top].state \notin Asked
          /\ switching' = switching \/ (Top = "define" /\ switching' = FALSE)
      BY <1>8, <1>d DEF Leave, Running, Closes, Asked
    <2> QED
      BY <1>t, <2>1, Asks, CalmKeeps
  <1>9. CASE LeaveAll
    <2>1. /\ live # {} /\ child' = "none" /\ main' = "all"
          /\ ctl' = [ctl EXCEPT ![Top].cancelReq = TRUE] /\ UNCHANGED <<live, worker>>
          /\ UNCHANGED <<history, chain, current, shown, backing, switching, drift>>
      BY <1>9 DEF LeaveAll, Closes, trail
    <2> QED
      BY <1>t, <2>1, Asks, CalmKeeps
  <1>10. CASE Closed
    BY <1>10, ClosedTrail
  <1>11. CASE Dismiss
    <2>1. /\ live # {} /\ ctl[Top].state \in {"NotFound", "ReadError"}
          /\ UNCHANGED <<live, history, chain, current, shown, backing, drift>>
          /\ switching' = switching \/ (Top = "define" /\ ~switching')
          /\ switching' \in BOOLEAN
      BY <1>11, <1>d DEF Dismiss, Running
    <2>2. ~(Top = "define" /\ backing) \/ drift # {}
      BY <2>1 DEF TrailInv, CurrentOK, Asked
    <2> QED
      BY <1>11, <1>d, <2>1, <2>2, QuietKeeps DEF Dismiss, Becomes, Forgets, Fresh, States, Asked
  <1>12. CASE OpenPicker
    BY <1>12, CalmKeeps DEF OpenPicker, trail
  <1>13. CASE PickerReturns
    <2>1. /\ live # {} /\ main = "loop" /\ ctl[Top].state = "Idle"
          /\ child = "picker" /\ child' = "none" /\ UNCHANGED <<live, main>>
          /\ UNCHANGED <<history, chain, current, shown, backing, drift>>
      BY <1>13 DEF PickerReturns, WorkerInv, WorkerType, CoverOK
    <2>2. CASE UNCHANGED <<ctl, worker, switching>>
      BY <2>1, <2>2, CalmKeeps
    <2> DEFINE word == IF Top = "define" THEN shown ELSE ctl[Top].word
    <2>3. CASE StartLookup(Top, word, FALSE) /\ switching' = (Top = "define")
      <3>1. PICK w \in Words : w = word
        BY <1>t, <2>1, TopExists DEF WorkerInv, CoverOK, TrailInv, TrailType, Controllers
      <3>2. ctl' = [ctl EXCEPT ![Top] = IF Free THEN Lookup(w, FALSE) ELSE Fresh]
        BY <2>1, <2>3, <3>1, Starts
      <3> QED
        BY <1>d, <2>1, <2>3, <3>1, <3>2, StartTrail
    <2> QED
      BY <1>13, <2>2, <2>3 DEF PickerReturns
  <1>14. CASE Worker
    <2>1. UNCHANGED <<live, history, chain, current, shown, backing, switching, drift>>
      BY <1>14 DEF Worker, Take, Index, Locate, Done, Clear, screens, trail
    <2>2. CASE UNCHANGED ctl
      BY <2>1, <2>2, CalmKeeps
    <2>3. CASE Index \/ Locate \/ Done
      BY <1>t, <2>1, <2>3, WorkerWrites, CalmKeeps
    <2> QED
      BY <1>14, <2>2, <2>3 DEF Worker, Take, Clear
  <1>15. CASE UNCHANGED vars
    BY <1>15, CalmKeeps DEF vars, screens, trail
  <1> QED
    BY <1>1, <1>2, <1>3, <1>4, <1>5, <1>6, <1>7, <1>8, <1>9, <1>10, <1>11, <1>12, <1>13,
       <1>14, <1>15 DEF Next, Main

-----------------------------------------------------------------------------
(* The theorems.                                                           *)

LEMMA InitInv == Init => IInv
  <1> SUFFICES ASSUME Init PROVE IInv
    OBVIOUS
  <1>1. WorkerInv
    BY FreshType
    DEF Init, WorkerInv, WorkerType, CoverOK, NoticeOK, OwnerAlive, WorkerAlone
  <1>2. history \in Seq(Words) /\ chain \in Seq([idx : Nat, word : Words])
    BY DEF Init
  <1>3. TrailType
    BY <1>2 DEF Init, TrailType
  <1>4. TrailOwned /\ RecordOK /\ CurrentOK
    BY FreshType DEF Init, TrailOwned, RecordOK, CurrentOK, Controllers, Asked
  <1>5. BackLeadsToTheWord
    BY DEF Init, BackLeadsToTheWord
  <1> QED
    BY <1>1, <1>3, <1>4, <1>5 DEF IInv, TrailInv

LEMMA StepInv == IInv /\ [Next]_vars => IInv'
  BY WorkerStep, TrailStep DEF IInv, TrailInv

LEMMA Inductive == Spec => []IInv
  BY InitInv, StepInv, PTL DEF Spec

\* The variables keep their types: in particular a worker that runs or is
\* notified always has an owner, and the definition on the screen always shows
\* a word.
THEOREM TypeCorrect == Spec => []TypeOK
  <1>1. IInv => TypeOK
    BY DEF IInv, WorkerInv, TrailInv, WorkerType, TrailType, TypeOK
  <1> QED
    BY <1>1, Inductive, PTL

\* waitForOwner is enough: no screen is deleted while the worker still holds a
\* pointer to its controller, whatever closes and in whatever order.
THEOREM OwnerStaysAlive == Spec => []OwnerAlive
  <1>1. IInv => OwnerAlive
    BY DEF IInv, WorkerInv
  <1> QED
    BY <1>1, Inductive, PTL

\* lookupDone separates the two tasks: as long as the worker may still write
\* the fields of a controller the main task leaves them alone.
THEOREM WorkerHasItsController == Spec => []WorkerAlone
  <1>1. IInv => WorkerAlone
    BY DEF IInv, WorkerInv
  <1> QED
    BY <1>1, Inductive, PTL

\* The ageing of the chain is right for every length of the history that is
\* visible: unless the history drifts in one of the four ways, each entry of
\* the chain is the distance of the word it was left with.
THEOREM BackIsRight == Spec => []BackLeadsToTheWord
  <1>1. IInv => BackLeadsToTheWord
    BY DEF IInv, TrailInv
  <1> QED
    BY <1>1, Inductive, PTL
=============================================================================
