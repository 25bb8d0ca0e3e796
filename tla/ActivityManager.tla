--------------------------- MODULE ActivityManager ---------------------------
(***************************************************************************)
(* The screens of the device and the task that draws them:                 *)
(* src/activities/ActivityManager.cpp with Activity.cpp.                   *)
(*                                                                         *)
(* The main task runs ActivityManager::loop, which calls into the current  *)
(* activity and then carries out the push, pop or replacement the activity *)
(* asked for.  The render task waits for a notification, takes the         *)
(* RenderLock, draws the current activity and releases a main task blocked *)
(* in requestUpdateAndWait.  The code of the activities is arbitrary: a    *)
(* callback makes up to MaxCalls calls of the API, at most one of them     *)
(* asking for another screen.                                              *)
(***************************************************************************)
EXTENDS Naturals, Sequences

CONSTANTS
  Screens,     \* activity objects; one can be allocated again once it is freed
  SleepScreen, \* the SleepActivity
  NoActivity,  \* the null pointer
  MaxCalls,    \* bound on the API calls of one callback
  MaxDepth     \* bound on the depth of the stack

Activities == Screens \cup {SleepScreen}
MaybeActivity == Activities \cup {NoActivity}

ASSUME ConstantsAssumption ==
  /\ SleepScreen \notin Screens
  /\ NoActivity \notin Activities
  /\ MaxCalls \in Nat /\ MaxDepth \in Nat

VARIABLES
  current,          \* currentActivity
  stack,            \* stackActivities, the last element on top
  pendingAction,    \* "none", "push", "pop" or "replace"
  pendingActivity,
  handler,          \* handler[a]: whose result the resultHandler of a is for
  startedBy,        \* history: who started a for a result
  requestedUpdate,
  alert,            \* APP_STATE.hasPendingAlert
  sleeping,         \* enterDeepSleep has called goToSleep
  pc,               \* where the main task is
  callback,         \* the callback the main task runs: loop, enter or handler
  calls,            \* the API calls this callback may still make
  lock,             \* who holds renderingMutex
  waiter,           \* waitingTaskHandle is set
  woken,            \* the notification count of the main task is not zero
  notified,         \* the notification count of the render task is not zero
  rpc,              \* where the render task is
  drawing,          \* the activity the render task draws
  frame,            \* the activity on the display
  owed              \* history: no draw has begun since the last update request

nav    == <<current, stack, pendingAction, pendingActivity, handler, startedBy>>
flags  == <<alert, sleeping>>
main   == <<pc, callback, calls>>
render == <<rpc, drawing, frame>>
wait   == <<waiter, woken>>
vars   == <<nav, flags, main, render, wait, requestedUpdate, lock, notified, owed>>

-----------------------------------------------------------------------------
InStack(a) == \E i \in DOMAIN stack : stack[i] = a
Top == stack[Len(stack)]
Below == SubSeq(stack, 1, Len(stack) - 1)

\* A new object; the one on the display is kept apart to tell the frames apart.
New(a) ==
  /\ a \in Screens
  /\ ~InStack(a)
  /\ a \notin {current, pendingActivity, drawing, frame}

Room == Len(stack) < MaxDepth

\* The activities D are destroyed.
Freed(f, D) == [a \in Activities |-> IF a \in D THEN NoActivity ELSE f[a]]

\* The main task calls one of the current activity's functions.
Enter(cb) == pc' = "callback" /\ callback' = cb /\ calls' = MaxCalls
Goto(l)   == pc' = l /\ UNCHANGED <<callback, calls>>

-----------------------------------------------------------------------------
\* setup() ends by launching the first activity.
Init ==
  /\ current \in Screens /\ stack = <<>>
  /\ pendingAction = "none" /\ pendingActivity = NoActivity
  /\ handler = [a \in Activities |-> NoActivity]
  /\ startedBy = handler
  /\ requestedUpdate = FALSE /\ alert = FALSE /\ sleeping = FALSE
  /\ pc = "enter" /\ callback = "loop" /\ calls = 0
  /\ lock = "free" /\ waiter = FALSE /\ woken = FALSE /\ notified = FALSE
  /\ rpc = "take" /\ drawing = NoActivity /\ frame = NoActivity
  /\ owed = FALSE

-----------------------------------------------------------------------------
(* Asking for another screen.  Whatever was pending is dropped.            *)

\* Replacing while there is a current activity is deferred to the loop.
ReplaceActivity(a) ==
  /\ pendingActivity' = a /\ pendingAction' = "replace"
  /\ startedBy' = Freed(startedBy, {pendingActivity})
  /\ UNCHANGED <<current, stack, handler>>

PushActivity(a) ==
  /\ pendingActivity' = a /\ pendingAction' = "push"
  /\ startedBy' = Freed(startedBy, {pendingActivity})
  /\ UNCHANGED <<current, stack, handler>>

StartActivityForResult(a) ==
  /\ handler' = [handler EXCEPT ![current] = a]
  /\ pendingActivity' = a /\ pendingAction' = "push"
  /\ startedBy' = [Freed(startedBy, {pendingActivity}) EXCEPT ![a] = current]
  /\ UNCHANGED <<current, stack>>

\* A pop that leaves what was pending in place.
FinishKeepsPending ==
  /\ pendingAction' = "pop"
  /\ UNCHANGED <<current, stack, pendingActivity, handler, startedBy>>

Finish ==
  /\ pendingActivity' = NoActivity /\ pendingAction' = "pop"
  /\ startedBy' = Freed(startedBy, {pendingActivity})
  /\ UNCHANGED <<current, stack, handler>>

-----------------------------------------------------------------------------
(* Asking for a draw.                                                      *)

\* requestUpdate, deferred to the end of the loop or immediate.
RequestUpdate(immediate) ==
  /\ owed' = TRUE
  /\ IF immediate
     THEN notified' = TRUE /\ UNCHANGED requestedUpdate
     ELSE requestedUpdate' = TRUE /\ UNCHANGED notified

\* A requestUpdateAndWait that does not ask who holds the RenderLock.
RequestAndWaitUnchecked ==
  /\ waiter' = TRUE /\ owed' = TRUE
  /\ notified' = TRUE
  /\ pc' = "wait"
  /\ UNCHANGED <<woken, callback>>

\* requestUpdateAndWait: rejected under the RenderLock, where it would deadlock.
RequestAndWait ==
  IF lock = "main" \/ waiter
  THEN UNCHANGED <<wait, owed, notified, pc, callback>>
  ELSE /\ waiter' = TRUE /\ owed' = TRUE
       /\ notified' = TRUE
       /\ pc' = "wait"
       /\ UNCHANGED <<woken, callback>>

-----------------------------------------------------------------------------
(* The main task, between two calls of ActivityManager::loop.              *)

\* The charging screen or a power-button action replaces the activity.
SwitchScreen(a) ==
  /\ pc = "loop" /\ ~sleeping /\ current # NoActivity
  /\ New(a) /\ ReplaceActivity(a)
  /\ UNCHANGED <<flags, main, render, wait, requestedUpdate, lock, notified, owed>>

\* The sync shortcut opens the KOReader settings over the activity.
OpenSyncSettings(a) ==
  /\ pc = "loop" /\ ~sleeping /\ Room
  /\ New(a) /\ PushActivity(a)
  /\ UNCHANGED <<flags, main, render, wait, requestedUpdate, lock, notified, owed>>

\* USB was plugged in, or the battery level changed.
StatusChanged ==
  /\ pc = "loop" /\ ~sleeping
  /\ RequestUpdate(FALSE)
  /\ UNCHANGED <<nav, flags, main, render, wait, lock>>

\* requestManualReaderRefresh takes the RenderLock and gives it back.
ManualRefresh ==
  /\ pc = "loop" /\ ~sleeping /\ lock = "free" /\ current # NoActivity
  /\ RequestUpdate(TRUE)
  /\ UNCHANGED <<nav, flags, main, render, wait, lock>>

\* enterDeepSleep: goToSleep replaces the activity, and runs the loop once.
GoToSleep ==
  /\ pc = "loop" /\ ~sleeping /\ current # NoActivity
  /\ ReplaceActivity(SleepScreen)
  /\ sleeping' = TRUE
  /\ UNCHANGED <<alert, main, render, wait, requestedUpdate, lock, notified, owed>>

-----------------------------------------------------------------------------
(* ActivityManager::loop.                                                  *)

\* The gesture for the frontlight panel returns before anything is launched.
LightPanel(a) ==
  /\ pc = "loop" /\ current # NoActivity /\ Room
  /\ New(a) /\ PushActivity(a)
  /\ Goto(IF sleeping THEN "asleep" ELSE "loop")
  /\ UNCHANGED <<flags, render, wait, requestedUpdate, lock, notified, owed>>

RunActivity ==
  /\ pc = "loop"
  /\ IF current # NoActivity THEN Enter("loop") ELSE Goto("switch")
  /\ UNCHANGED <<nav, flags, render, wait, requestedUpdate, lock, notified, owed>>

\* One call of the API by the running callback.  One that asks for another
\* screen is the last of its callback.
Call ==
  /\ pc = "callback" /\ calls > 0
  /\ UNCHANGED <<flags, render>>
  /\ \/ /\ calls' = calls - 1
        /\ \E immediate \in BOOLEAN : RequestUpdate(immediate)
        /\ UNCHANGED <<nav, wait, lock, pc, callback>>
     \/ /\ calls' = calls - 1
        /\ RequestAndWait
        /\ UNCHANGED <<nav, requestedUpdate, lock>>
     \/ /\ calls' = calls - 1
        /\ lock = "free" /\ lock' = "main"
        /\ UNCHANGED <<nav, wait, requestedUpdate, notified, owed, pc, callback>>
     \/ /\ calls' = 0
        /\ \/ Room /\ \E a \in Screens : New(a) /\ StartActivityForResult(a)
           \/ \E a \in Screens : New(a) /\ ReplaceActivity(a)
           \/ Finish
        /\ UNCHANGED <<wait, requestedUpdate, lock, notified, owed, pc, callback>>

\* The RenderLock of a callback goes out of scope.
EndLock ==
  /\ pc = "callback" /\ lock = "main"
  /\ lock' = "free"
  /\ UNCHANGED <<nav, flags, main, render, wait, requestedUpdate, notified, owed>>

\* A callback raises an alert (the reader, when a book does not load).
RaiseAlert ==
  /\ pc = "callback" /\ ~alert
  /\ alert' = TRUE
  /\ UNCHANGED <<nav, sleeping, main, render, wait, requestedUpdate, lock, notified, owed>>

\* The callback returns; after a result handler that asked for no other
\* screen the loop asks for a draw.
Return ==
  /\ pc = "callback" /\ lock # "main"
  /\ pc' = "switch" /\ callback' = "loop" /\ calls' = 0
  /\ IF callback = "handler" /\ pendingAction = "none"
     THEN RequestUpdate(FALSE)
     ELSE UNCHANGED <<requestedUpdate, notified, owed>>
  /\ UNCHANGED <<nav, flags, render, wait, lock>>

\* ulTaskNotifyTake returns in requestUpdateAndWait.
Wake ==
  /\ pc = "wait" /\ woken
  /\ woken' = FALSE
  /\ pc' = "callback"
  /\ UNCHANGED <<nav, flags, callback, calls, render, waiter, requestedUpdate, lock,
                 notified, owed>>

\* Under the RenderLock the current activity is destroyed, and the one below it
\* takes its place or, when there is none, the loop goes on at home.  The
\* result handlers of the activities in done are gone.
PopThen(home, done) ==
  /\ pc = "switch" /\ pendingAction = "pop" /\ lock = "free"
  /\ pendingAction' = "none"
  /\ startedBy' = Freed(startedBy, {current})
  /\ IF stack = <<>>
     THEN /\ current' = NoActivity
          /\ handler' = Freed(handler, {current})
          /\ Goto(home)
          /\ UNCHANGED <<stack, requestedUpdate, owed>>
     ELSE /\ current' = Top /\ stack' = Below
          /\ handler' = Freed(handler, done)
          /\ IF handler[Top] # NoActivity
             THEN Enter("handler") /\ UNCHANGED <<requestedUpdate, owed>>
             ELSE requestedUpdate' = TRUE /\ owed' = TRUE /\ UNCHANGED main
  /\ UNCHANGED <<pendingActivity, flags, render, wait, lock, notified>>

\* A pop that forgets to go home, and one that leaves the resultHandler of the
\* activity below in place.
PopWithoutHome == PopThen("switch", {current, Top})
PopKeepsHandler == PopThen("home", {current})

\* A result handler is moved out of the activity before it is called.
Pop == PopThen("home", {current, Top})

\* goHome after the last activity was popped: there is nothing to replace, so
\* it is launched at once, outside the RenderLock.
GoHome(a) ==
  /\ pc = "home" /\ New(a)
  /\ current' = a
  /\ Goto("enter")
  /\ UNCHANGED <<stack, pendingAction, pendingActivity, handler, startedBy, flags,
                 render, wait, requestedUpdate, lock, notified, owed>>

\* A launch that does not take the RenderLock.
LaunchUnlocked ==
  /\ pc = "switch" /\ pendingAction \in {"push", "replace"}
  /\ pendingActivity # NoActivity
  /\ LET gone == IF pendingAction = "push" THEN {}
                 ELSE {current} \cup {a \in Activities : InStack(a)}
     IN /\ stack' = IF pendingAction = "push" THEN Append(stack, current) ELSE <<>>
        /\ handler' = Freed(handler, gone)
        /\ startedBy' = Freed(startedBy, gone)
  /\ pendingAction' = "none"
  /\ current' = pendingActivity /\ pendingActivity' = NoActivity
  /\ Goto("enter")
  /\ UNCHANGED <<flags, render, wait, requestedUpdate, lock, notified, owed>>

\* Under the RenderLock the pending activity becomes the current one: on top
\* of it, or in place of it and of the whole stack.
Launch == lock = "free" /\ LaunchUnlocked

\* An onEnter that asks for no draw of its own.
OnEnterSilent ==
  /\ pc = "enter"
  /\ Enter("enter")
  /\ UNCHANGED <<nav, flags, render, wait, requestedUpdate, lock, notified, owed>>

\* onEnter asks for a draw; the sleep screen draws itself instead.
OnEnter ==
  /\ pc = "enter"
  /\ IF current = SleepScreen
     THEN /\ frame' = SleepScreen
          /\ Goto("switch")
          /\ UNCHANGED <<requestedUpdate, notified, owed>>
     ELSE /\ Enter("enter")
          /\ \E immediate \in BOOLEAN : RequestUpdate(immediate)
          /\ UNCHANGED frame
  /\ UNCHANGED <<nav, flags, rpc, drawing, wait, lock>>

\* Nothing is pending any more: an alert is pushed for the next loop, and the
\* deferred update request is passed on.
EndLoop ==
  /\ pc = "switch" /\ pendingAction = "none"
  /\ IF alert /\ Room
     THEN alert' = FALSE /\ \E a \in Screens : New(a) /\ PushActivity(a)
     ELSE UNCHANGED <<alert, nav>>
  /\ notified' = (notified \/ requestedUpdate)
  /\ requestedUpdate' = FALSE
  /\ Goto(IF sleeping THEN "asleep" ELSE "loop")
  /\ UNCHANGED <<sleeping, render, wait, lock, owed>>

-----------------------------------------------------------------------------
(* renderTaskLoop.                                                         *)

Awake == pc # "asleep"

\* The notification count is cleared.
NotifyTake ==
  /\ Awake /\ rpc = "take" /\ notified
  /\ notified' = FALSE
  /\ rpc' = "lock"
  /\ UNCHANGED <<nav, flags, main, drawing, frame, wait, requestedUpdate, lock, owed>>

\* currentActivity is read under the RenderLock.
BeginDraw ==
  /\ Awake /\ rpc = "lock" /\ lock = "free"
  /\ lock' = "render"
  /\ drawing' = current
  /\ rpc' = IF current = NoActivity THEN "release" ELSE "draw"
  /\ owed' = FALSE
  /\ UNCHANGED <<nav, flags, main, frame, waiter, woken, requestedUpdate, notified>>

\* The reader's render asks for another draw, or raises an alert.
RenderCalls ==
  /\ Awake /\ rpc = "draw" /\ drawing # SleepScreen
  /\ \/ RequestUpdate(FALSE) /\ UNCHANGED alert
     \/ alert' = TRUE /\ UNCHANGED <<requestedUpdate, notified, owed>>
  /\ UNCHANGED <<nav, sleeping, main, render, wait, lock>>

\* The frame is on the display; the sleep screen has an empty render().
FinishDraw ==
  /\ Awake /\ rpc = "draw"
  /\ frame' = IF drawing = SleepScreen THEN frame ELSE drawing
  /\ drawing' = NoActivity
  /\ rpc' = "release"
  /\ UNCHANGED <<nav, flags, main, wait, requestedUpdate, lock, notified, owed>>

\* A render task that clears its count once more after drawing.
ReleaseWaiterDropsNotification ==
  /\ Awake /\ rpc = "release"
  /\ waiter' = FALSE /\ woken' = (woken \/ waiter)
  /\ notified' = FALSE
  /\ rpc' = "unlock"
  /\ UNCHANGED <<nav, flags, main, drawing, frame, requestedUpdate, lock, owed>>

\* The waiting task is told that a draw is done.
ReleaseWaiter ==
  /\ Awake /\ rpc = "release"
  /\ waiter' = FALSE /\ woken' = (woken \/ waiter)
  /\ rpc' = "unlock"
  /\ UNCHANGED <<nav, flags, main, drawing, frame, requestedUpdate, lock, notified, owed>>

\* The RenderLock goes out of scope at the end of the iteration.
Unlock ==
  /\ Awake /\ rpc = "unlock"
  /\ lock' = "free"
  /\ rpc' = "take"
  /\ UNCHANGED <<nav, flags, main, drawing, frame, wait, requestedUpdate, notified, owed>>

-----------------------------------------------------------------------------
\* The device sleeps until the reset that ends it.
Asleep == pc = "asleep" /\ UNCHANGED vars

User ==
  \/ \E a \in Screens : SwitchScreen(a) \/ OpenSyncSettings(a) \/ LightPanel(a)
  \/ StatusChanged \/ ManualRefresh \/ GoToSleep
  \/ Call \/ RaiseAlert

MainTask ==
  \/ RunActivity \/ EndLock \/ Return \/ Wake \/ Pop \/ Launch \/ OnEnter
  \/ EndLoop \/ \E a \in Screens : GoHome(a)

RenderTask ==
  NotifyTake \/ BeginDraw \/ FinishDraw \/ ReleaseWaiter \/ Unlock

Next == User \/ MainTask \/ RenderTask \/ RenderCalls \/ Asleep

Spec == Init /\ [][Next]_vars

Settle == Return /\ pendingAction = "none"

\* Callbacks return and both tasks are scheduled.  The main loop ends every
\* round in a delay without holding the RenderLock, which lets a render task
\* that waits for it through: strong fairness for BeginDraw.  An onEnter or a
\* result handler does not answer every screen with the request for another
\* one, which would keep loop() from returning: strong fairness for Settle.
Fairness ==
  /\ WF_vars(MainTask)
  /\ WF_vars(RenderTask)
  /\ SF_vars(BeginDraw)
  /\ SF_vars(Settle)

FairSpec == Spec /\ Fairness

-----------------------------------------------------------------------------
MainLabels   == {"loop", "callback", "switch", "home", "enter", "wait", "asleep"}
RenderLabels == {"take", "lock", "draw", "release", "unlock"}

ScreensOK ==
  /\ {current, pendingActivity, drawing, frame} \subseteq MaybeActivity
  /\ stack \in Seq(Activities)
  /\ handler \in [Activities -> MaybeActivity]
  /\ startedBy \in [Activities -> MaybeActivity]

StepsOK ==
  /\ pendingAction \in {"none", "push", "pop", "replace"}
  /\ pc \in MainLabels /\ callback \in {"loop", "enter", "handler"}
  /\ calls \in 0..MaxCalls
  /\ rpc \in RenderLabels
  /\ lock \in {"free", "main", "render"}

FlagsOK ==
  /\ requestedUpdate \in BOOLEAN /\ alert \in BOOLEAN /\ sleeping \in BOOLEAN
  /\ waiter \in BOOLEAN /\ woken \in BOOLEAN /\ notified \in BOOLEAN
  /\ owed \in BOOLEAN

\* Every variable has its type: only the null pointer is no activity, and the
\* stack never holds it.
TypeOK == ScreensOK /\ StepsOK /\ FlagsOK

\* The render task never draws an activity that was destroyed, or that is no
\* longer the current one: what it draws cannot change under it (the comment
\* in renderTaskLoop on reading currentActivity under the RenderLock).
DrawsTheCurrent == rpc = "draw" => drawing = current

\* No update request is lost between the two tasks: until a draw begins, the
\* request is in the deferred flag, in the notification count, or with a
\* render task that has not read currentActivity yet.
NoLostUpdate == owed => requestedUpdate \/ notified \/ rpc = "lock"

\* When nothing is left to do the display shows the current activity: no
\* launch, pop, alert or gesture leaves an old screen behind.
ScreenFollows ==
  (/\ pc = "loop" /\ pendingAction = "none" /\ ~requestedUpdate
   /\ ~notified /\ rpc = "take") => frame = current

\* An activity started for a result lies right above the one that started it,
\* whose handler waits for this result and no other, whatever alerts and
\* panels were pushed in between.
ResultsRouted ==
  LET screens == IF current = NoActivity THEN stack ELSE Append(stack, current)
  IN \A i \in DOMAIN screens :
       LET a == screens[i] IN
         /\ startedBy[a] # NoActivity =>
              i > 1 /\ startedBy[a] = screens[i - 1] /\ handler[startedBy[a]] = a
         /\ (handler[a] # NoActivity /\ i < Len(screens)) => startedBy[screens[i + 1]] = a

\* loop() does not spin: a push or a replacement has its activity, so that the
\* inner while of the loop always finds something to do.
PendingIsComplete ==
  /\ pendingAction \in {"push", "replace"} <=> pendingActivity # NoActivity
  /\ (pc = "switch" /\ pendingAction # "none") => current # NoActivity

\* A main task blocked in requestUpdateAndWait is released.
WaiterReleased == pc = "wait" ~> pc # "wait"

\* Every update request leads to a draw, unless the device goes to sleep.
UpdateDrawn == owed ~> (~owed \/ pc = "asleep")

-----------------------------------------------------------------------------
(* A claim of the sources that does not hold.                              *)

\* goToSleep: "sleep screen must be rendered immediately, the caller will go
\* to sleep right after this returns".
SleepScreenShown == pc = "asleep" => frame = SleepScreen
=============================================================================
