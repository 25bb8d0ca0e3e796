------------------------ MODULE ActivityManagerProofs ------------------------
(***************************************************************************)
(* Safety of ActivityManager for any number of screens, calls and levels   *)
(* of the stack: its type invariant, that pending activities are complete, *)
(* that the render task draws the current activity only, that no update    *)
(* request is lost, and that the display follows the current activity.     *)
(***************************************************************************)
EXTENDS ActivityManager, TLAPS

-----------------------------------------------------------------------------
(* The inductive invariant.                                                *)

\* There is a current activity except between the pop of the last one and the
\* launch of the home screen.
HasCurrent == pc = "home" <=> current = NoActivity

\* The lock belongs to the task that is in the section it guards.
LockHeld ==
  /\ lock = "render" <=> rpc \in {"draw", "release", "unlock"}
  /\ lock = "main" => pc = "callback"

\* What is drawn is an activity, and the current one.
Drawn == rpc = "draw" => drawing = current /\ drawing # NoActivity

\* The sleep screen ends the run of the main task: it draws itself when it is
\* entered, nothing is asked for after that, and it is never covered.
SleepIsLast ==
  /\ SleepScreen \in {current, pendingActivity} => sleeping
  /\ \A i \in DOMAIN stack : stack[i] # SleepScreen
  /\ current = SleepScreen =>
       /\ pc \in {"enter", "switch", "asleep"}
       /\ pc \in {"enter", "switch"} => pendingAction = "none"
       /\ pc # "enter" => frame = SleepScreen

\* A current activity that is not on the display is being drawn, will be, or
\* is about to be entered or left.
Followed ==
  \/ frame = current
  \/ owed
  \/ rpc = "draw" /\ current # SleepScreen
  \/ pc \in {"enter", "home"}
  \/ pc \in {"callback", "wait"} /\ callback = "handler"
  \/ pc = "switch" /\ pendingAction # "none"

IInv ==
  /\ TypeOK /\ PendingIsComplete /\ HasCurrent /\ LockHeld /\ Drawn
  /\ NoLostUpdate /\ SleepIsLast /\ Followed

-----------------------------------------------------------------------------
(* Types.                                                                  *)

\* The stack holds activities only: a push finds a current activity.
LEMMA ScreensStep ==
  ASSUME ScreensOK, StepsOK, PendingIsComplete, HasCurrent, [Next]_vars
  PROVE  ScreensOK'
<1> USE ConstantsAssumption DEF Activities, MaybeActivity, ScreensOK, StepsOK,
            PendingIsComplete, HasCurrent, nav, flags, main, render, wait
<1>1. ASSUME NEW a \in Screens, SwitchScreen(a)
      PROVE  ScreensOK'
  BY <1>1 DEF SwitchScreen, ReplaceActivity, New, Freed
<1>2. ASSUME NEW a \in Screens, OpenSyncSettings(a)
      PROVE  ScreensOK'
  BY <1>2 DEF OpenSyncSettings, PushActivity, New, Freed
<1>3. ASSUME NEW a \in Screens, LightPanel(a)
      PROVE  ScreensOK'
  BY <1>3 DEF LightPanel, PushActivity, New, Freed, Goto
<1>4. CASE StatusChanged
  BY <1>4 DEF StatusChanged, RequestUpdate
<1>5. CASE ManualRefresh
  BY <1>5 DEF ManualRefresh, RequestUpdate
<1>6. CASE GoToSleep
  BY <1>6 DEF GoToSleep, ReplaceActivity, Freed
<1>7. CASE Call
  <2>1. CASE UNCHANGED nav
    BY <1>7, <2>1 DEF Call
  <2>2. ASSUME NEW a \in Screens, New(a), StartActivityForResult(a)
        PROVE  ScreensOK'
    BY <1>7, <2>2 DEF Call, StartActivityForResult, New, Freed
  <2>3. ASSUME NEW a \in Screens, New(a), ReplaceActivity(a)
        PROVE  ScreensOK'
    BY <1>7, <2>3 DEF Call, ReplaceActivity, New, Freed
  <2>4. CASE Finish
    BY <1>7, <2>4 DEF Call, Finish, Freed
  <2>5. QED
    BY <1>7, <2>1, <2>2, <2>3, <2>4 DEF Call
<1>8. CASE RaiseAlert
  BY <1>8 DEF RaiseAlert
<1>9. CASE RunActivity
  BY <1>9 DEF RunActivity, Enter, Goto
<1>10. CASE EndLock
  BY <1>10 DEF EndLock
<1>11. CASE Return
  BY <1>11 DEF Return, RequestUpdate
<1>12. CASE Wake
  BY <1>12 DEF Wake
<1>13. CASE Pop
  BY <1>13 DEF Pop, PopThen, Enter, Goto, Freed, Top, Below
<1>14. CASE Launch
  BY <1>14 DEF Launch, LaunchUnlocked, Goto, Freed
<1>15. CASE OnEnter
  BY <1>15 DEF OnEnter, Enter, Goto, RequestUpdate
<1>16. CASE EndLoop
  BY <1>16 DEF EndLoop, PushActivity, Goto, New, Freed
<1>17. ASSUME NEW a \in Screens, GoHome(a)
      PROVE  ScreensOK'
  BY <1>17 DEF GoHome, New, Goto
<1>18. CASE NotifyTake
  BY <1>18 DEF NotifyTake
<1>19. CASE BeginDraw
  BY <1>19 DEF BeginDraw
<1>20. CASE FinishDraw
  BY <1>20 DEF FinishDraw
<1>21. CASE ReleaseWaiter
  BY <1>21 DEF ReleaseWaiter
<1>22. CASE Unlock
  BY <1>22 DEF Unlock
<1>23. CASE RenderCalls
  BY <1>23 DEF RenderCalls, RequestUpdate
<1>24. CASE UNCHANGED vars
  BY <1>24 DEF vars
<1>25. QED
  BY <1>1, <1>2, <1>3, <1>4, <1>5, <1>6, <1>7, <1>8, <1>9, <1>10, <1>11, <1>12,
     <1>13, <1>14, <1>15, <1>16, <1>17, <1>18, <1>19, <1>20, <1>21, <1>22, <1>23, <1>24
     DEF Next, User, MainTask, RenderTask, Asleep

\* The program counters, the lock and the bound on calls.
LEMMA StepsStep ==
  ASSUME StepsOK, [Next]_vars
  PROVE  StepsOK'
<1> USE ConstantsAssumption DEF StepsOK, MainLabels, RenderLabels, nav, flags,
            main, render, wait
<1>1. ASSUME NEW a \in Screens, SwitchScreen(a)
      PROVE  StepsOK'
  BY <1>1 DEF SwitchScreen, ReplaceActivity
<1>2. ASSUME NEW a \in Screens, OpenSyncSettings(a)
      PROVE  StepsOK'
  BY <1>2 DEF OpenSyncSettings, PushActivity
<1>3. ASSUME NEW a \in Screens, LightPanel(a)
      PROVE  StepsOK'
  BY <1>3 DEF LightPanel, PushActivity, Goto
<1>4. CASE StatusChanged
  BY <1>4 DEF StatusChanged, RequestUpdate
<1>5. CASE ManualRefresh
  BY <1>5 DEF ManualRefresh, RequestUpdate
<1>6. CASE GoToSleep
  BY <1>6 DEF GoToSleep, ReplaceActivity
<1>7. CASE Call
  BY <1>7 DEF Call, RequestUpdate, RequestAndWait, StartActivityForResult,
         ReplaceActivity, Finish
<1>8. CASE RaiseAlert
  BY <1>8 DEF RaiseAlert
<1>9. CASE RunActivity
  BY <1>9 DEF RunActivity, Enter, Goto
<1>10. CASE EndLock
  BY <1>10 DEF EndLock
<1>11. CASE Return
  BY <1>11 DEF Return, RequestUpdate
<1>12. CASE Wake
  BY <1>12 DEF Wake
<1>13. CASE Pop
  BY <1>13 DEF Pop, PopThen, Enter, Goto
<1>14. CASE Launch
  BY <1>14 DEF Launch, LaunchUnlocked, Goto
<1>15. CASE OnEnter
  BY <1>15 DEF OnEnter, Enter, Goto, RequestUpdate
<1>16. CASE EndLoop
  BY <1>16 DEF EndLoop, PushActivity, Goto
<1>17. ASSUME NEW a \in Screens, GoHome(a)
      PROVE  StepsOK'
  BY <1>17 DEF GoHome, Goto
<1>18. CASE NotifyTake
  BY <1>18 DEF NotifyTake
<1>19. CASE BeginDraw
  BY <1>19 DEF BeginDraw
<1>20. CASE FinishDraw
  BY <1>20 DEF FinishDraw
<1>21. CASE ReleaseWaiter
  BY <1>21 DEF ReleaseWaiter
<1>22. CASE Unlock
  BY <1>22 DEF Unlock
<1>23. CASE RenderCalls
  BY <1>23 DEF RenderCalls, RequestUpdate
<1>24. CASE UNCHANGED vars
  BY <1>24 DEF vars
<1>25. QED
  BY <1>1, <1>2, <1>3, <1>4, <1>5, <1>6, <1>7, <1>8, <1>9, <1>10, <1>11, <1>12,
     <1>13, <1>14, <1>15, <1>16, <1>17, <1>18, <1>19, <1>20, <1>21, <1>22, <1>23, <1>24
     DEF Next, User, MainTask, RenderTask, Asleep

\* The flags.
LEMMA FlagsStep ==
  ASSUME FlagsOK, [Next]_vars
  PROVE  FlagsOK'
<1> USE DEF FlagsOK, nav, flags, main, render, wait
<1>1. ASSUME NEW a \in Screens, SwitchScreen(a)
      PROVE  FlagsOK'
  BY <1>1 DEF SwitchScreen, ReplaceActivity
<1>2. ASSUME NEW a \in Screens, OpenSyncSettings(a)
      PROVE  FlagsOK'
  BY <1>2 DEF OpenSyncSettings, PushActivity
<1>3. ASSUME NEW a \in Screens, LightPanel(a)
      PROVE  FlagsOK'
  BY <1>3 DEF LightPanel, PushActivity, Goto
<1>4. CASE StatusChanged
  BY <1>4 DEF StatusChanged, RequestUpdate
<1>5. CASE ManualRefresh
  BY <1>5 DEF ManualRefresh, RequestUpdate
<1>6. CASE GoToSleep
  BY <1>6 DEF GoToSleep, ReplaceActivity
<1>7. CASE Call
  BY <1>7 DEF Call, RequestUpdate, RequestAndWait, StartActivityForResult,
         ReplaceActivity, Finish
<1>8. CASE RaiseAlert
  BY <1>8 DEF RaiseAlert
<1>9. CASE RunActivity
  BY <1>9 DEF RunActivity, Enter, Goto
<1>10. CASE EndLock
  BY <1>10 DEF EndLock
<1>11. CASE Return
  BY <1>11 DEF Return, RequestUpdate
<1>12. CASE Wake
  BY <1>12 DEF Wake
<1>13. CASE Pop
  BY <1>13 DEF Pop, PopThen, Enter, Goto
<1>14. CASE Launch
  BY <1>14 DEF Launch, LaunchUnlocked, Goto
<1>15. CASE OnEnter
  BY <1>15 DEF OnEnter, Enter, Goto, RequestUpdate
<1>16. CASE EndLoop
  BY <1>16 DEF EndLoop, PushActivity, Goto
<1>17. ASSUME NEW a \in Screens, GoHome(a)
      PROVE  FlagsOK'
  BY <1>17 DEF GoHome, Goto
<1>18. CASE NotifyTake
  BY <1>18 DEF NotifyTake
<1>19. CASE BeginDraw
  BY <1>19 DEF BeginDraw
<1>20. CASE FinishDraw
  BY <1>20 DEF FinishDraw
<1>21. CASE ReleaseWaiter
  BY <1>21 DEF ReleaseWaiter
<1>22. CASE Unlock
  BY <1>22 DEF Unlock
<1>23. CASE RenderCalls
  BY <1>23 DEF RenderCalls, RequestUpdate
<1>24. CASE UNCHANGED vars
  BY <1>24 DEF vars
<1>25. QED
  BY <1>1, <1>2, <1>3, <1>4, <1>5, <1>6, <1>7, <1>8, <1>9, <1>10, <1>11, <1>12,
     <1>13, <1>14, <1>15, <1>16, <1>17, <1>18, <1>19, <1>20, <1>21, <1>22, <1>23, <1>24
     DEF Next, User, MainTask, RenderTask, Asleep

-----------------------------------------------------------------------------
(* What the main task does to the screens.                                 *)

\* PendingIsComplete and HasCurrent carry each other.
LEMMA PendingStep ==
  ASSUME ScreensOK, StepsOK, PendingIsComplete, HasCurrent, [Next]_vars
  PROVE  (PendingIsComplete /\ HasCurrent)'
<1> USE ConstantsAssumption DEF Activities, MaybeActivity, ScreensOK, StepsOK,
            PendingIsComplete, HasCurrent, MainLabels, nav, flags, main,
            render, wait
<1>1. ASSUME NEW a \in Screens, SwitchScreen(a)
      PROVE  (PendingIsComplete /\ HasCurrent)'
  BY <1>1 DEF SwitchScreen, ReplaceActivity, New, Freed
<1>2. ASSUME NEW a \in Screens, OpenSyncSettings(a)
      PROVE  (PendingIsComplete /\ HasCurrent)'
  BY <1>2 DEF OpenSyncSettings, PushActivity, New, Freed
<1>3. ASSUME NEW a \in Screens, LightPanel(a)
      PROVE  (PendingIsComplete /\ HasCurrent)'
  BY <1>3 DEF LightPanel, PushActivity, New, Freed, Goto
<1>4. CASE StatusChanged
  BY <1>4 DEF StatusChanged, RequestUpdate
<1>5. CASE ManualRefresh
  BY <1>5 DEF ManualRefresh, RequestUpdate
<1>6. CASE GoToSleep
  BY <1>6 DEF GoToSleep, ReplaceActivity, Freed
<1>7. CASE Call
  BY <1>7 DEF Call, RequestUpdate, RequestAndWait, StartActivityForResult,
         ReplaceActivity, Finish, New, Freed
<1>8. CASE RaiseAlert
  BY <1>8 DEF RaiseAlert
<1>9. CASE RunActivity
  BY <1>9 DEF RunActivity, Enter, Goto
<1>10. CASE EndLock
  BY <1>10 DEF EndLock
<1>11. CASE Return
  BY <1>11 DEF Return, RequestUpdate
<1>12. CASE Wake
  BY <1>12 DEF Wake
<1>13. CASE Pop
  BY <1>13 DEF Pop, PopThen, Enter, Goto, Freed, Top, Below
<1>14. CASE Launch
  BY <1>14 DEF Launch, LaunchUnlocked, Goto, Freed
<1>15. CASE OnEnter
  BY <1>15 DEF OnEnter, Enter, Goto, RequestUpdate
<1>16. CASE EndLoop
  BY <1>16 DEF EndLoop, PushActivity, Goto, New, Freed
<1>17. ASSUME NEW a \in Screens, GoHome(a)
      PROVE  (PendingIsComplete /\ HasCurrent)'
  BY <1>17 DEF GoHome, New, Goto
<1>18. CASE NotifyTake
  BY <1>18 DEF NotifyTake
<1>19. CASE BeginDraw
  BY <1>19 DEF BeginDraw
<1>20. CASE FinishDraw
  BY <1>20 DEF FinishDraw
<1>21. CASE ReleaseWaiter
  BY <1>21 DEF ReleaseWaiter
<1>22. CASE Unlock
  BY <1>22 DEF Unlock
<1>23. CASE RenderCalls
  BY <1>23 DEF RenderCalls, RequestUpdate
<1>24. CASE UNCHANGED vars
  BY <1>24 DEF vars
<1>25. QED
  BY <1>1, <1>2, <1>3, <1>4, <1>5, <1>6, <1>7, <1>8, <1>9, <1>10, <1>11, <1>12,
     <1>13, <1>14, <1>15, <1>16, <1>17, <1>18, <1>19, <1>20, <1>21, <1>22, <1>23, <1>24
     DEF Next, User, MainTask, RenderTask, Asleep

\* Activities change under the RenderLock, or when there is none to be drawn.
LEMMA LockStep ==
  ASSUME StepsOK, HasCurrent, LockHeld, Drawn, [Next]_vars
  PROVE  (LockHeld /\ Drawn)'
<1> USE DEF StepsOK, HasCurrent, LockHeld, Drawn, MainLabels, RenderLabels,
            nav, flags, main, render, wait
<1>1. ASSUME NEW a \in Screens, SwitchScreen(a)
      PROVE  (LockHeld /\ Drawn)'
  BY <1>1 DEF SwitchScreen, ReplaceActivity
<1>2. ASSUME NEW a \in Screens, OpenSyncSettings(a)
      PROVE  (LockHeld /\ Drawn)'
  BY <1>2 DEF OpenSyncSettings, PushActivity
<1>3. ASSUME NEW a \in Screens, LightPanel(a)
      PROVE  (LockHeld /\ Drawn)'
  BY <1>3 DEF LightPanel, PushActivity, Goto
<1>4. CASE StatusChanged
  BY <1>4 DEF StatusChanged, RequestUpdate
<1>5. CASE ManualRefresh
  BY <1>5 DEF ManualRefresh, RequestUpdate
<1>6. CASE GoToSleep
  BY <1>6 DEF GoToSleep, ReplaceActivity
<1>7. CASE Call
  BY <1>7 DEF Call, RequestUpdate, RequestAndWait, StartActivityForResult,
         ReplaceActivity, Finish
<1>8. CASE RaiseAlert
  BY <1>8 DEF RaiseAlert
<1>9. CASE RunActivity
  BY <1>9 DEF RunActivity, Enter, Goto
<1>10. CASE EndLock
  BY <1>10 DEF EndLock
<1>11. CASE Return
  BY <1>11 DEF Return, RequestUpdate
<1>12. CASE Wake
  BY <1>12 DEF Wake
<1>13. CASE Pop
  BY <1>13 DEF Pop, PopThen, Enter, Goto, Top, Below
<1>14. CASE Launch
  BY <1>14 DEF Launch, LaunchUnlocked, Goto
<1>15. CASE OnEnter
  BY <1>15 DEF OnEnter, Enter, Goto, RequestUpdate
<1>16. CASE EndLoop
  BY <1>16 DEF EndLoop, PushActivity, Goto
<1>17. ASSUME NEW a \in Screens, GoHome(a)
      PROVE  (LockHeld /\ Drawn)'
  BY <1>17 DEF GoHome, Goto
<1>18. CASE NotifyTake
  BY <1>18 DEF NotifyTake
<1>19. CASE BeginDraw
  BY <1>19 DEF BeginDraw
<1>20. CASE FinishDraw
  BY <1>20 DEF FinishDraw
<1>21. CASE ReleaseWaiter
  BY <1>21 DEF ReleaseWaiter
<1>22. CASE Unlock
  BY <1>22 DEF Unlock
<1>23. CASE RenderCalls
  BY <1>23 DEF RenderCalls, RequestUpdate
<1>24. CASE UNCHANGED vars
  BY <1>24 DEF vars
<1>25. QED
  BY <1>1, <1>2, <1>3, <1>4, <1>5, <1>6, <1>7, <1>8, <1>9, <1>10, <1>11, <1>12,
     <1>13, <1>14, <1>15, <1>16, <1>17, <1>18, <1>19, <1>20, <1>21, <1>22, <1>23, <1>24
     DEF Next, User, MainTask, RenderTask, Asleep

\* A request that requestUpdate takes is in one of the two places it can wait.
LEMMA RequestUpdateMarks ==
  ASSUME NEW immediate \in BOOLEAN, RequestUpdate(immediate)
  PROVE  owed' = TRUE /\ (requestedUpdate' \/ notified')
BY DEF RequestUpdate

\* NoLostUpdate is inductive: every action that clears one place fills another.
LEMMA UpdateStep ==
  ASSUME NoLostUpdate, [Next]_vars
  PROVE  NoLostUpdate'
<1> USE DEF NoLostUpdate, nav, flags, main, render, wait
<1>1. ASSUME NEW a \in Screens, SwitchScreen(a)
      PROVE  NoLostUpdate'
  BY <1>1 DEF SwitchScreen, ReplaceActivity
<1>2. ASSUME NEW a \in Screens, OpenSyncSettings(a)
      PROVE  NoLostUpdate'
  BY <1>2 DEF OpenSyncSettings, PushActivity
<1>3. ASSUME NEW a \in Screens, LightPanel(a)
      PROVE  NoLostUpdate'
  BY <1>3 DEF LightPanel, PushActivity, Goto
<1>4. CASE StatusChanged
  BY <1>4 DEF StatusChanged, RequestUpdate
<1>5. CASE ManualRefresh
  BY <1>5 DEF ManualRefresh, RequestUpdate
<1>6. CASE GoToSleep
  BY <1>6 DEF GoToSleep, ReplaceActivity
<1>7. CASE Call
  <2>1. ASSUME NEW immediate \in BOOLEAN, RequestUpdate(immediate)
        PROVE  NoLostUpdate'
    BY <2>1, RequestUpdateMarks
  <2>2. ASSUME RequestAndWait, UNCHANGED <<requestedUpdate, rpc>>
        PROVE  NoLostUpdate'
    <3>1. notified' = TRUE \/ UNCHANGED <<owed, notified>>
      BY <2>2, Zenon DEF RequestAndWait
    <3>2. QED
      BY <2>2, <3>1
  <2>3. CASE UNCHANGED <<requestedUpdate, notified, owed>>
    BY <1>7, <2>3 DEF Call
  <2>4. QED
    BY <1>7, <2>1, <2>2, <2>3 DEF Call
<1>8. CASE RaiseAlert
  BY <1>8 DEF RaiseAlert
<1>9. CASE RunActivity
  BY <1>9 DEF RunActivity, Enter, Goto
<1>10. CASE EndLock
  BY <1>10 DEF EndLock
<1>11. CASE Return
  BY <1>11 DEF Return, RequestUpdate
<1>12. CASE Wake
  BY <1>12 DEF Wake
<1>13. CASE Pop
  BY <1>13 DEF Pop, PopThen, Enter, Goto
<1>14. CASE Launch
  BY <1>14 DEF Launch, LaunchUnlocked, Goto
<1>15. CASE OnEnter
  BY <1>15 DEF OnEnter, Enter, Goto, RequestUpdate
<1>16. CASE EndLoop
  BY <1>16 DEF EndLoop, PushActivity, Goto
<1>17. ASSUME NEW a \in Screens, GoHome(a)
      PROVE  NoLostUpdate'
  BY <1>17 DEF GoHome, Goto
<1>18. CASE NotifyTake
  BY <1>18 DEF NotifyTake
<1>19. CASE BeginDraw
  BY <1>19 DEF BeginDraw
<1>20. CASE FinishDraw
  BY <1>20 DEF FinishDraw
<1>21. CASE ReleaseWaiter
  BY <1>21 DEF ReleaseWaiter
<1>22. CASE Unlock
  BY <1>22 DEF Unlock
<1>23. CASE RenderCalls
  <2>1. CASE RequestUpdate(FALSE)
    BY <2>1, RequestUpdateMarks
  <2>2. CASE UNCHANGED <<requestedUpdate, notified, owed>>
    BY <1>23, <2>2 DEF RenderCalls
  <2>3. QED
    BY <1>23, <2>1, <2>2 DEF RenderCalls
<1>24. CASE UNCHANGED vars
  BY <1>24 DEF vars
<1>25. QED
  BY <1>1, <1>2, <1>3, <1>4, <1>5, <1>6, <1>7, <1>8, <1>9, <1>10, <1>11, <1>12,
     <1>13, <1>14, <1>15, <1>16, <1>17, <1>18, <1>19, <1>20, <1>21, <1>22, <1>23, <1>24
     DEF Next, User, MainTask, RenderTask, Asleep

\* Nothing is launched, popped or drawn over a sleep screen.
LEMMA SleepStep ==
  ASSUME ScreensOK, StepsOK, HasCurrent, LockHeld, Drawn, SleepIsLast, [Next]_vars
  PROVE  SleepIsLast'
<1> USE ConstantsAssumption DEF Activities, MaybeActivity, ScreensOK, StepsOK,
            HasCurrent, LockHeld, Drawn, SleepIsLast, MainLabels, nav, flags,
            main, render, wait
<1>1. ASSUME NEW a \in Screens, SwitchScreen(a)
      PROVE  SleepIsLast'
  BY <1>1 DEF SwitchScreen, ReplaceActivity, New
<1>2. ASSUME NEW a \in Screens, OpenSyncSettings(a)
      PROVE  SleepIsLast'
  BY <1>2 DEF OpenSyncSettings, PushActivity, New
<1>3. ASSUME NEW a \in Screens, LightPanel(a)
      PROVE  SleepIsLast'
  BY <1>3 DEF LightPanel, PushActivity, New, Goto
<1>4. CASE StatusChanged
  BY <1>4 DEF StatusChanged, RequestUpdate
<1>5. CASE ManualRefresh
  BY <1>5 DEF ManualRefresh, RequestUpdate
<1>6. CASE GoToSleep
  BY <1>6 DEF GoToSleep, ReplaceActivity
<1>7. CASE Call
  BY <1>7 DEF Call, RequestUpdate, RequestAndWait, StartActivityForResult,
         ReplaceActivity, Finish, New
<1>8. CASE RaiseAlert
  BY <1>8 DEF RaiseAlert
<1>9. CASE RunActivity
  BY <1>9 DEF RunActivity, Enter, Goto
<1>10. CASE EndLock
  BY <1>10 DEF EndLock
<1>11. CASE Return
  BY <1>11 DEF Return, RequestUpdate
<1>12. CASE Wake
  BY <1>12 DEF Wake
<1>13. CASE Pop
  BY <1>13 DEF Pop, PopThen, Enter, Goto, Top, Below
<1>14. CASE Launch
  BY <1>14 DEF Launch, LaunchUnlocked, Goto
<1>15. CASE OnEnter
  <2>1. CASE current = SleepScreen
    BY <1>15, <2>1 DEF OnEnter, Goto
  <2>2. CASE current # SleepScreen
    BY <1>15, <2>2 DEF OnEnter, Enter
  <2>3. QED
    BY <2>1, <2>2
<1>16. CASE EndLoop
  BY <1>16 DEF EndLoop, PushActivity, Goto, New
<1>17. ASSUME NEW a \in Screens, GoHome(a)
      PROVE  SleepIsLast'
  BY <1>17 DEF GoHome, New, Goto
<1>18. CASE NotifyTake
  BY <1>18 DEF NotifyTake
<1>19. CASE BeginDraw
  BY <1>19 DEF BeginDraw
<1>20. CASE FinishDraw
  BY <1>20 DEF FinishDraw
<1>21. CASE ReleaseWaiter
  BY <1>21 DEF ReleaseWaiter
<1>22. CASE Unlock
  BY <1>22 DEF Unlock
<1>23. CASE RenderCalls
  BY <1>23 DEF RenderCalls, RequestUpdate
<1>24. CASE UNCHANGED vars
  BY <1>24 DEF vars
<1>25. QED
  BY <1>1, <1>2, <1>3, <1>4, <1>5, <1>6, <1>7, <1>8, <1>9, <1>10, <1>11, <1>12,
     <1>13, <1>14, <1>15, <1>16, <1>17, <1>18, <1>19, <1>20, <1>21, <1>22, <1>23, <1>24
     DEF Next, User, MainTask, RenderTask, Asleep

\* Whatever takes the current activity off the display keeps a reason to draw.
LEMMA FollowedStep ==
  ASSUME ScreensOK, StepsOK, HasCurrent, LockHeld, Drawn, SleepIsLast, Followed, [Next]_vars
  PROVE  Followed'
<1> USE ConstantsAssumption DEF Activities, MaybeActivity, ScreensOK, StepsOK,
            HasCurrent, LockHeld, Drawn, SleepIsLast, Followed, nav, flags,
            main, render, wait
<1>1. ASSUME NEW a \in Screens, SwitchScreen(a)
      PROVE  Followed'
  BY <1>1 DEF SwitchScreen, ReplaceActivity, New
<1>2. ASSUME NEW a \in Screens, OpenSyncSettings(a)
      PROVE  Followed'
  BY <1>2 DEF OpenSyncSettings, PushActivity, New
<1>3. ASSUME NEW a \in Screens, LightPanel(a)
      PROVE  Followed'
  BY <1>3 DEF LightPanel, PushActivity, New, Goto
<1>4. CASE StatusChanged
  BY <1>4 DEF StatusChanged, RequestUpdate
<1>5. CASE ManualRefresh
  BY <1>5 DEF ManualRefresh, RequestUpdate
<1>6. CASE GoToSleep
  BY <1>6 DEF GoToSleep, ReplaceActivity
<1>7. CASE Call
  BY <1>7 DEF Call, RequestUpdate, RequestAndWait, StartActivityForResult,
         ReplaceActivity, Finish, New
<1>8. CASE RaiseAlert
  BY <1>8 DEF RaiseAlert
<1>9. CASE RunActivity
  BY <1>9 DEF RunActivity, Enter, Goto
<1>10. CASE EndLock
  BY <1>10 DEF EndLock
<1>11. CASE Return
  BY <1>11 DEF Return, RequestUpdate
<1>12. CASE Wake
  BY <1>12 DEF Wake
<1>13. CASE Pop
  BY <1>13 DEF Pop, PopThen, Enter, Goto
<1>14. CASE Launch
  BY <1>14 DEF Launch, LaunchUnlocked, Goto
<1>15. CASE OnEnter
  BY <1>15 DEF OnEnter, Enter, Goto, RequestUpdate
<1>16. CASE EndLoop
  BY <1>16 DEF EndLoop, PushActivity, Goto, New
<1>17. ASSUME NEW a \in Screens, GoHome(a)
      PROVE  Followed'
  BY <1>17 DEF GoHome, New, Goto
<1>18. CASE NotifyTake
  BY <1>18 DEF NotifyTake
<1>19. CASE BeginDraw
  BY <1>19 DEF BeginDraw
<1>20. CASE FinishDraw
  BY <1>20 DEF FinishDraw
<1>21. CASE ReleaseWaiter
  BY <1>21 DEF ReleaseWaiter
<1>22. CASE Unlock
  BY <1>22 DEF Unlock
<1>23. CASE RenderCalls
  BY <1>23 DEF RenderCalls, RequestUpdate
<1>24. CASE UNCHANGED vars
  BY <1>24 DEF vars
<1>25. QED
  BY <1>1, <1>2, <1>3, <1>4, <1>5, <1>6, <1>7, <1>8, <1>9, <1>10, <1>11, <1>12,
     <1>13, <1>14, <1>15, <1>16, <1>17, <1>18, <1>19, <1>20, <1>21, <1>22, <1>23, <1>24
     DEF Next, User, MainTask, RenderTask, Asleep

-----------------------------------------------------------------------------
(* The theorems.                                                           *)

LEMMA InitIInv == Init => IInv
<1> SUFFICES ASSUME Init PROVE IInv
  OBVIOUS
<1> USE ConstantsAssumption DEF Init, Activities, MaybeActivity
<1>1. ScreensOK
  BY DEF ScreensOK
<1>2. StepsOK
  BY DEF StepsOK, MainLabels, RenderLabels
<1>3. FlagsOK
  BY DEF FlagsOK
<1>4. PendingIsComplete /\ HasCurrent
  BY DEF PendingIsComplete, HasCurrent
<1>5. LockHeld /\ Drawn /\ NoLostUpdate
  BY DEF LockHeld, Drawn, NoLostUpdate
<1>6. SleepIsLast /\ Followed
  BY DEF SleepIsLast, Followed
<1>7. QED
  BY <1>1, <1>2, <1>3, <1>4, <1>5, <1>6 DEF IInv, TypeOK

LEMMA IInvStep == IInv /\ [Next]_vars => IInv'
<1> SUFFICES ASSUME IInv, [Next]_vars PROVE IInv'
  OBVIOUS
<1>1. ScreensOK' /\ StepsOK' /\ FlagsOK'
  BY ScreensStep, StepsStep, FlagsStep DEF IInv, TypeOK
<1>2. PendingIsComplete' /\ HasCurrent'
  BY PendingStep DEF IInv, TypeOK
<1>3. LockHeld' /\ Drawn' /\ NoLostUpdate'
  BY LockStep, UpdateStep DEF IInv, TypeOK
<1>4. SleepIsLast' /\ Followed'
  BY SleepStep, FollowedStep DEF IInv, TypeOK
<1>5. QED
  BY <1>1, <1>2, <1>3, <1>4 DEF IInv, TypeOK

\* IInv holds in every reachable state.
LEMMA Invariance == Spec => []IInv
BY InitIInv, IInvStep, PTL DEF Spec

\* The types, for any number of screens and any depth of the stack; the stack
\* of ActivityManager never holds the null pointer.
THEOREM TypeCorrect == Spec => []TypeOK
<1>1. IInv => TypeOK
  BY DEF IInv
<1>2. QED
  BY <1>1, Invariance, PTL

\* ActivityManager::loop always finds the activity of a pending push or
\* replacement, and a current activity to pop.
THEOREM PendingComplete == Spec => []PendingIsComplete
<1>1. IInv => PendingIsComplete
  BY DEF IInv
<1>2. QED
  BY <1>1, Invariance, PTL

\* What renderTaskLoop draws under the RenderLock is the current activity as
\* long as it draws, although goHome launches without the lock.
THEOREM RenderSafe == Spec => []DrawsTheCurrent
<1>1. IInv => DrawsTheCurrent
  BY DEF IInv, Drawn, DrawsTheCurrent
<1>2. QED
  BY <1>1, Invariance, PTL

\* No interleaving of requestUpdate, the end of loop() and renderTaskLoop loses
\* a request for a draw.
THEOREM UpdatesKept == Spec => []NoLostUpdate
<1>1. IInv => NoLostUpdate
  BY DEF IInv
<1>2. QED
  BY <1>1, Invariance, PTL

\* When both tasks have nothing left to do the display shows the current
\* activity.  A request is owed or nothing is (NoLostUpdate); if nothing is,
\* Followed leaves only the display.
THEOREM DisplayFollows == Spec => []ScreenFollows
<1>1. IInv => ScreenFollows
  BY DEF IInv, Followed, NoLostUpdate, ScreenFollows
<1>2. QED
  BY <1>1, Invariance, PTL

-----------------------------------------------------------------------------
(* Results.  The screens from the bottom of the stack to the current one,   *)
(* with who started whom and who waits for whom, form a chain that pushes,   *)
(* pops and replacements only change at its upper end.                      *)

Shown == IF current = NoActivity THEN stack ELSE Append(stack, current)

\* ResultsRouted for any sequence s of screens, any by for startedBy and any h
\* for handler.
Routed(s, by, h) ==
  \A i \in DOMAIN s :
    /\ by[s[i]] # NoActivity => i > 1 /\ by[s[i]] = s[i - 1] /\ h[s[i - 1]] = s[i]
    /\ (h[s[i]] # NoActivity /\ i < Len(s)) => by[s[i + 1]] = s[i]

\* No activity is in two places.
OneEach ==
  /\ \A i, j \in DOMAIN Shown : Shown[i] = Shown[j] => i = j
  /\ \A i \in DOMAIN Shown : Shown[i] # pendingActivity

\* Between startActivityForResult and the launch nothing else can be asked for,
\* so the screen that asked and the one that is pending know of each other.
Asked ==
  /\ (pendingActivity # NoActivity /\ startedBy[pendingActivity] # NoActivity) =>
       /\ pendingAction = "push" /\ current # NoActivity
       /\ startedBy[pendingActivity] = current
       /\ handler[current] = pendingActivity
       /\ (pc = "callback" /\ calls = 0) \/ pc = "switch"
  /\ (current # NoActivity /\ handler[current] # NoActivity) =>
       /\ handler[current] = pendingActivity
       /\ startedBy[pendingActivity] = current

\* A destroyed activity leaves no handler and no claim to a result behind.
Forgotten ==
  \A a \in Activities :
    /\ startedBy[a] # NoActivity => a = pendingActivity \/ \E i \in DOMAIN Shown : Shown[i] = a
    /\ handler[a] # NoActivity => \E i \in DOMAIN Shown : Shown[i] = a

\* Only an empty stack is without a current activity.
HomeAlone == current = NoActivity => stack = <<>>

ResultInv ==
  OneEach /\ Asked /\ Forgotten /\ HomeAlone /\ Routed(Shown, startedBy, handler)

\* What a new element on top of a sequence changes.
LEMMA Topped ==
  ASSUME NEW s \in Seq(Activities), NEW a \in Activities
  PROVE  /\ DOMAIN Append(s, a) = 1 .. (Len(s) + 1) /\ Len(Append(s, a)) = Len(s) + 1
         /\ DOMAIN s = 1 .. Len(s) /\ Len(s) \in Nat
         /\ Append(s, a)[Len(s) + 1] = a
         /\ \A i \in 1 .. Len(s) : Append(s, a)[i] = s[i] /\ s[i] \in Activities
         /\ Append(s, a) \in Seq(Activities)
OBVIOUS

LEMMA Untopped ==
  ASSUME NEW s \in Seq(Activities), s # <<>>
  PROVE  Append(SubSeq(s, 1, Len(s) - 1), s[Len(s)]) = s
OBVIOUS

ShownTyped ==
  /\ Shown \in Seq(Activities)
  /\ DOMAIN Shown = 1 .. Len(Shown) /\ Len(Shown) \in Nat
  /\ \A i \in DOMAIN Shown : Shown[i] \in Activities
  /\ current # NoActivity =>
       /\ current \in Activities
       /\ Len(Shown) = Len(stack) + 1 /\ Shown[Len(Shown)] = current

\* The screens shown are a sequence of activities, the current one on top.
LEMMA ShownType == ScreensOK => ShownTyped
<1> SUFFICES ASSUME ScreensOK PROVE ShownTyped
  OBVIOUS
<1> USE DEF ShownTyped
<1>1. CASE current = NoActivity
  BY <1>1 DEF Shown, ScreensOK
<1>2. CASE current # NoActivity
  <2>1. current \in Activities /\ stack \in Seq(Activities)
    BY <1>2 DEF ScreensOK, MaybeActivity
  <2>2. QED
    BY <1>2, <2>1, Topped DEF Shown
<1>3. QED
  BY <1>1, <1>2

\* The handler of the uppermost screen, and screens that are elsewhere, do not
\* matter to a chain.
LEMMA RoutedSame ==
  ASSUME NEW s \in Seq(Activities), NEW by, NEW h, NEW by2, NEW h2,
         Routed(s, by, h),
         \A i \in DOMAIN s : by2[s[i]] = by[s[i]],
         \A i \in DOMAIN s : i < Len(s) => h2[s[i]] = h[s[i]]
  PROVE  Routed(s, by2, h2)
<1>1. SUFFICES ASSUME NEW i \in 1 .. Len(s)
      PROVE  /\ by2[s[i]] # NoActivity => i > 1 /\ by2[s[i]] = s[i - 1] /\ h2[s[i - 1]] = s[i]
             /\ (h2[s[i]] # NoActivity /\ i < Len(s)) => by2[s[i + 1]] = s[i]
  BY DEF Routed
<1>2. i > 1 => i - 1 \in DOMAIN s /\ i - 1 < Len(s)
  OBVIOUS
<1>3. i < Len(s) => i + 1 \in DOMAIN s
  OBVIOUS
<1>4. i \in DOMAIN s
  OBVIOUS
<1>5. QED
  BY <1>2, <1>3, <1>4 DEF Routed

\* A step that neither touches the screens nor leaves the callback of a screen
\* that has asked.
LEMMA QuietResults ==
  ASSUME ResultInv, UNCHANGED nav,
         (pc = "callback" /\ calls = 0) \/ pc = "switch" =>
           \/ (pc = "callback" /\ calls = 0)' \/ pc' = "switch"
           \/ pendingAction # "push"
  PROVE  ResultInv'
BY DEF ResultInv, OneEach, Asked, Forgotten, HomeAlone, Routed, Shown, nav

\* Whoever asks for a screen without waiting for its result drops what was
\* pending, which nobody waits for at that point.
LEMMA UnaskedResults ==
  ASSUME TypeOK, ResultInv, UNCHANGED <<current, stack, handler>>,
         NEW a \in MaybeActivity, pendingActivity' = a,
         startedBy' = Freed(startedBy, {pendingActivity}),
         pendingActivity # NoActivity => startedBy[pendingActivity] = NoActivity,
         a # NoActivity => a \notin {current, pendingActivity} /\ ~InStack(a)
  PROVE  ResultInv'
<1> USE ConstantsAssumption DEF Activities, MaybeActivity
<1>1. Shown' = Shown
  BY DEF Shown
<1>2. \A b \in Activities : startedBy'[b] = startedBy[b]
  BY DEF TypeOK, ScreensOK, Freed
<1>3. \A i \in DOMAIN Shown : Shown[i] \in Activities
  BY ShownType DEF TypeOK, ShownTyped
<1>4. \A i \in DOMAIN Shown : Shown[i] # a
  <2>1. CASE a = NoActivity
    BY <2>1, <1>3
  <2>2. CASE a # NoActivity /\ current = NoActivity
    BY <2>2 DEF Shown, InStack
  <2>3. CASE a # NoActivity /\ current # NoActivity
    BY <2>3, Topped DEF Shown, InStack, TypeOK, ScreensOK
  <2>4. QED
    BY <2>1, <2>2, <2>3
<1>5. \A b \in Activities : startedBy[b] # NoActivity => \E i \in DOMAIN Shown : Shown[i] = b
  BY DEF ResultInv, Forgotten
<1>6. current # NoActivity => handler[current] = NoActivity
  BY DEF ResultInv, Asked, TypeOK, ScreensOK
<1>7. OneEach' /\ HomeAlone'
  BY <1>1, <1>4 DEF ResultInv, OneEach, HomeAlone
<1>8. Asked' /\ Forgotten'
  BY <1>1, <1>2, <1>4, <1>5, <1>6 DEF ResultInv, Asked, Forgotten
<1>9. Routed(Shown, startedBy, handler)'
  <2>1. \A i \in DOMAIN Shown : startedBy'[Shown[i]] = startedBy[Shown[i]]
    BY <1>2, <1>3
  <2>2. Routed(Shown, startedBy, handler) /\ ShownTyped
    BY ShownType DEF ResultInv, TypeOK
  <2>3. QED
    BY <1>1, <2>1, <2>2, RoutedSame DEF ShownTyped
<1>10. QED
  BY <1>7, <1>8, <1>9 DEF ResultInv

\* startActivityForResult: the current activity and the new one know of each
\* other, and no one else changes.
LEMMA AskedResults ==
  ASSUME TypeOK, ResultInv, NEW a \in Screens, New(a), StartActivityForResult(a),
         current # NoActivity,
         pendingActivity # NoActivity => startedBy[pendingActivity] = NoActivity,
         (pc = "callback" /\ calls = 0)'
  PROVE  ResultInv'
<1> USE ConstantsAssumption DEF Activities, MaybeActivity, StartActivityForResult
<1>1. Shown' = Shown /\ current \in Activities /\ a \in Activities /\ a # current
  BY DEF Shown, TypeOK, ScreensOK, New
<1>2. ShownTyped
  BY ShownType DEF TypeOK
<1>3. \A b \in Activities : startedBy'[b] = IF b = a THEN current ELSE startedBy[b]
  BY <1>1 DEF TypeOK, ScreensOK, Freed
<1>4. \A b \in Activities : handler'[b] = IF b = current THEN a ELSE handler[b]
  BY <1>1 DEF TypeOK, ScreensOK
<1>5. \A i \in DOMAIN Shown : Shown[i] # a
  BY <1>1, Topped DEF Shown, InStack, New, TypeOK, ScreensOK
<1>6. OneEach' /\ HomeAlone'
  BY <1>1, <1>5 DEF ResultInv, OneEach, HomeAlone
<1>7. Asked'
  BY <1>1, <1>3, <1>4 DEF Asked
<1>8. Forgotten'
  <2>1. Len(Shown) \in DOMAIN Shown /\ Shown[Len(Shown)] = current
    BY <1>2 DEF ShownTyped
  <2>2. ASSUME NEW b \in Activities, startedBy'[b] # NoActivity
        PROVE  b = pendingActivity' \/ \E i \in DOMAIN Shown' : Shown'[i] = b
    BY <1>1, <1>3, <2>2 DEF ResultInv, Forgotten
  <2>3. ASSUME NEW b \in Activities, handler'[b] # NoActivity
        PROVE  \E i \in DOMAIN Shown' : Shown'[i] = b
    BY <1>1, <1>4, <2>1, <2>3 DEF ResultInv, Forgotten
  <2>4. QED
    BY <2>2, <2>3 DEF Forgotten
<1>9. Routed(Shown, startedBy, handler)'
  <2>1. \A i \in DOMAIN Shown : startedBy'[Shown[i]] = startedBy[Shown[i]]
    BY <1>2, <1>3, <1>5 DEF ShownTyped
  <2>2. \A i \in DOMAIN Shown : i < Len(Shown) => handler'[Shown[i]] = handler[Shown[i]]
    BY <1>2, <1>4 DEF ShownTyped, ResultInv, OneEach
  <2>3. Routed(Shown, startedBy, handler)
    BY DEF ResultInv
  <2>4. Shown \in Seq(Activities)
    BY <1>2 DEF ShownTyped
  <2>5. Routed(Shown, startedBy', handler')
    BY ONLY <2>1, <2>2, <2>3, <2>4, RoutedSame
  <2>6. QED
    BY ONLY <1>1, <2>5
<1>10. QED
  BY <1>6, <1>7, <1>8, <1>9 DEF ResultInv

\* A push carries the pending activity, asked for or not, on top of the screens.
LEMMA PushResults ==
  ASSUME TypeOK, ResultInv, current # NoActivity, pendingActivity # NoActivity,
         stack' = Append(stack, current), current' = pendingActivity,
         pendingActivity' = NoActivity,
         handler' = Freed(handler, {}), startedBy' = Freed(startedBy, {})
  PROVE  ResultInv'
<1> USE ConstantsAssumption DEF Activities, MaybeActivity
<1>1. ShownTyped /\ pendingActivity \in Activities
  BY ShownType DEF TypeOK, ScreensOK
<1>2. Shown' = Append(Shown, pendingActivity)
  BY DEF Shown
<1>3. \A b \in Activities : startedBy'[b] = startedBy[b] /\ handler'[b] = handler[b]
  BY DEF TypeOK, ScreensOK, Freed
<1>4. /\ DOMAIN Shown' = 1 .. (Len(Shown) + 1) /\ Len(Shown') = Len(Shown) + 1
      /\ Shown'[Len(Shown) + 1] = pendingActivity
      /\ \A i \in 1 .. Len(Shown) : Shown'[i] = Shown[i] /\ Shown[i] \in Activities
  BY <1>1, <1>2, Topped DEF ShownTyped
<1>5. OneEach'
  BY <1>1, <1>4 DEF ResultInv, OneEach, ShownTyped
<1>6. HomeAlone' /\ Asked'
  <2>1. handler[pendingActivity] = NoActivity
    BY <1>1 DEF ResultInv, Forgotten, OneEach
  <2>2. QED
    BY <1>1, <1>3, <2>1 DEF HomeAlone, Asked
<1>7. Forgotten'
  <2>1. ASSUME NEW b \in Activities, b = pendingActivity \/ \E i \in DOMAIN Shown : Shown[i] = b
        PROVE  \E i \in DOMAIN Shown' : Shown'[i] = b
    BY <1>1, <1>4, <2>1 DEF ShownTyped
  <2>2. QED
    BY <1>3, <2>1 DEF ResultInv, Forgotten
<1>8. Routed(Shown, startedBy, handler)'
  <2>1. Routed(Shown, startedBy, handler) /\ Asked
    BY DEF ResultInv
  <2>2. SUFFICES ASSUME NEW i \in DOMAIN Shown'
        PROVE  /\ startedBy'[Shown'[i]] # NoActivity =>
                    /\ i > 1 /\ startedBy'[Shown'[i]] = Shown'[i - 1]
                    /\ handler'[Shown'[i - 1]] = Shown'[i]
               /\ (handler'[Shown'[i]] # NoActivity /\ i < Len(Shown')) =>
                    startedBy'[Shown'[i + 1]] = Shown'[i]
    BY DEF Routed
  <2>3. CASE i = Len(Shown) + 1
    BY <1>1, <1>3, <1>4, <2>1, <2>3 DEF Asked, ShownTyped
  <2>4. CASE i = Len(Shown) /\ i \in DOMAIN Shown
    <3>1. /\ Shown[i] = current /\ Shown'[i] = current /\ Shown'[i + 1] = pendingActivity
          /\ startedBy'[current] = startedBy[current] /\ handler'[current] = handler[current]
          /\ startedBy'[pendingActivity] = startedBy[pendingActivity]
      BY <1>1, <1>3, <1>4, <2>4 DEF ShownTyped
    <3>2. startedBy[current] # NoActivity =>
            i > 1 /\ startedBy[current] = Shown[i - 1] /\ handler[Shown[i - 1]] = current
      BY <2>1, <2>4, <3>1 DEF Routed
    <3>3. i > 1 => Shown'[i - 1] = Shown[i - 1] /\ Shown[i - 1] \in Activities
      BY <1>1, <1>4, <2>4 DEF ShownTyped
    <3>4. handler[current] # NoActivity => startedBy[pendingActivity] = current
      BY <1>1, <2>1 DEF Asked
    <3>5. QED
      BY <1>3, <3>1, <3>2, <3>3, <3>4
  <2>5. CASE i < Len(Shown)
    BY <1>1, <1>3, <1>4, <2>1, <2>5 DEF ShownTyped, Routed
  <2>6. QED
    BY <1>1, <1>4, <2>3, <2>4, <2>5 DEF ShownTyped
<1>9. QED
  BY <1>5, <1>6, <1>7, <1>8 DEF ResultInv

\* A screen alone, of whose results nothing is known, is routed.
LEMMA AloneResults ==
  ASSUME TypeOK', Shown' = <<current'>>, pendingActivity' = NoActivity,
         current' # NoActivity, startedBy'[current'] = NoActivity,
         \A b \in Activities : startedBy'[b] = NoActivity /\ handler'[b] = NoActivity
  PROVE  ResultInv'
<1> USE ConstantsAssumption DEF Activities, MaybeActivity
<1>1. current' \in Activities
  BY DEF TypeOK, ScreensOK
<1>2. OneEach' /\ HomeAlone' /\ Asked' /\ Forgotten'
  BY <1>1 DEF OneEach, HomeAlone, Asked, Forgotten
<1>3. Routed(Shown, startedBy, handler)'
  BY <1>1 DEF Routed
<1>4. QED
  BY <1>2, <1>3 DEF ResultInv

\* A pop removes the uppermost screen and the claims to its result.
LEMMA PopResults ==
  ASSUME TypeOK, PendingIsComplete, ResultInv, current # NoActivity, Pop
  PROVE  ResultInv'
<1> USE ConstantsAssumption DEF Activities, MaybeActivity, Pop, PopThen, Enter, Goto
<1>1. ShownTyped /\ current \in Activities /\ pendingActivity = NoActivity
  BY ShownType DEF TypeOK, ScreensOK, StepsOK, PendingIsComplete
<1>2. CASE stack = <<>>
  <2>1. Shown = <<current>> /\ Shown' = <<>>
    BY <1>1, <1>2 DEF Shown
  <2>2. \A b \in Activities : startedBy'[b] = NoActivity /\ handler'[b] = NoActivity
    BY <1>1, <1>2, <2>1 DEF Freed, ResultInv, Forgotten, TypeOK, ScreensOK
  <2>3. stack' = <<>> /\ current' = NoActivity /\ pendingActivity' = NoActivity
    BY <1>1, <1>2
  <2>4. OneEach'
    BY ONLY <2>1 DEF OneEach
  <2>5. HomeAlone' /\ Asked' /\ Forgotten'
    BY ONLY <2>2, <2>3 DEF HomeAlone, Asked, Forgotten
  <2>6. Routed(Shown, startedBy, handler)'
    BY ONLY <2>1 DEF Routed
  <2>7. QED
    BY <2>4, <2>5, <2>6 DEF ResultInv
<1>3. CASE stack # <<>>
  <2> DEFINE n == Len(stack)
  <2>1. /\ n \in Nat \ {0} /\ DOMAIN stack = 1 .. n /\ Top \in Activities /\ Len(Shown) = n + 1
        /\ current' = Top /\ stack' = Below
        /\ \A i \in 1 .. n : Shown[i] = stack[i] /\ stack[i] \in Activities
        /\ Shown[n + 1] = current /\ Shown[n] = Top
    BY <1>1, <1>3, Topped DEF Top, Shown, TypeOK, ScreensOK
  <2>2. Shown' = stack
    <3>1. Shown' = Append(SubSeq(stack, 1, Len(stack) - 1), stack[Len(stack)])
      BY <2>1 DEF Shown, Top, Below
    <3>2. stack \in Seq(Activities)
      BY DEF TypeOK, ScreensOK
    <3>3. QED
      BY ONLY <1>3, <3>1, <3>2, Untopped
  <2>3. \A b \in Activities :
          /\ startedBy'[b] = IF b = current THEN NoActivity ELSE startedBy[b]
          /\ handler'[b] = IF b \in {current, Top} THEN NoActivity ELSE handler[b]
    BY <1>3 DEF Freed
  <2>4. \A i \in 1 .. n : Shown[i] # current
    BY <1>1, <2>1 DEF ResultInv, OneEach, ShownTyped
  <2>5. OneEach' /\ HomeAlone'
    <3>1. pendingActivity' = NoActivity /\ current' # NoActivity
      BY <1>1, <2>1
    <3>2. \A i, j \in 1 .. n : stack[i] = stack[j] => i = j
      BY <1>1, <2>1 DEF ResultInv, OneEach, ShownTyped
    <3>3. QED
      BY <2>1, <2>2, <3>1, <3>2 DEF OneEach, HomeAlone
  <2>9. Asked'
    <3>1. pendingActivity' = NoActivity /\ handler'[current'] = NoActivity
      BY <1>1, <2>1, <2>3
    <3>2. QED
      BY ONLY <3>1 DEF Asked
  <2>6. Forgotten'
    <3>1. ASSUME NEW b \in Activities, b # current, \E i \in DOMAIN Shown : Shown[i] = b
          PROVE  \E i \in DOMAIN Shown' : Shown'[i] = b
      BY <1>1, <2>1, <2>2, <3>1 DEF ShownTyped
    <3>2. QED
      BY <1>1, <2>3, <3>1 DEF ResultInv, Forgotten
  <2>7. Routed(Shown, startedBy, handler)'
    <3>1. Routed(stack, startedBy, handler)
      <4>1. Routed(Shown, startedBy, handler) /\ DOMAIN Shown = 1 .. (n + 1)
        BY <1>1, <2>1 DEF ResultInv, ShownTyped
      <4>2. QED
        BY ONLY <2>1, <4>1 DEF Routed
    <3>2. \A i \in DOMAIN stack : startedBy'[stack[i]] = startedBy[stack[i]]
      BY ONLY <2>1, <2>3, <2>4
    <3>3. \A i \in DOMAIN stack : i < n => handler'[stack[i]] = handler[stack[i]]
      <4>1. OneEach /\ DOMAIN Shown = 1 .. (n + 1)
        BY <1>1, <2>1 DEF ResultInv, ShownTyped
      <4>2. \A i \in 1 .. n : i < n => stack[i] # Top /\ stack[i] # current
        BY ONLY <2>1, <4>1 DEF OneEach
      <4>3. QED
        BY ONLY <2>1, <2>3, <4>2
    <3>4. stack \in Seq(Activities)
      BY DEF TypeOK, ScreensOK
    <3>5. Routed(stack, startedBy', handler')
      BY ONLY <3>1, <3>2, <3>3, <3>4, RoutedSame
    <3>6. QED
      BY ONLY <2>2, <3>5
  <2>8. QED
    BY <2>5, <2>6, <2>7, <2>9 DEF ResultInv
<1>4. QED
  BY <1>2, <1>3

LEMMA LaunchResults ==
  ASSUME TypeOK, TypeOK', PendingIsComplete, ResultInv, current # NoActivity, Launch
  PROVE  ResultInv'
<1> USE ConstantsAssumption DEF Activities, MaybeActivity, Launch, LaunchUnlocked, Goto
<1>1. CASE pendingAction = "push"
  BY <1>1, PushResults
<1>2. CASE pendingAction = "replace"
  <2>1. /\ Shown' = <<current'>> /\ pendingActivity' = NoActivity
        /\ current' = pendingActivity /\ pendingActivity \in Activities
    BY <1>2 DEF Shown, TypeOK, ScreensOK
  <2>2. startedBy[pendingActivity] = NoActivity
    BY <1>2, <2>1 DEF ResultInv, Asked
  <2>3. \A b \in Activities : (\E i \in DOMAIN Shown : Shown[i] = b) =>
          b = current \/ InStack(b)
    BY Topped DEF Shown, InStack, TypeOK, ScreensOK
  <2>4. \A b \in Activities : startedBy'[b] = NoActivity /\ handler'[b] = NoActivity
    BY <1>2, <2>1, <2>2, <2>3 DEF ResultInv, Forgotten, Freed, TypeOK, ScreensOK
  <2>5. QED
    BY <2>1, <2>4, AloneResults
<1>3. QED
  BY <1>1, <1>2

\* The home screen starts a new stack.
LEMMA HomeResults ==
  ASSUME TypeOK, TypeOK', HasCurrent, PendingIsComplete, ResultInv,
         NEW a \in Screens, GoHome(a)
  PROVE  ResultInv'
<1> USE ConstantsAssumption DEF Activities, MaybeActivity, GoHome, Goto
<1>1. current = NoActivity /\ stack = <<>> /\ Shown = <<>> /\ Shown' = <<a>> /\ a # NoActivity
  BY DEF HasCurrent, ResultInv, HomeAlone, Shown
<1>2. \A b \in Activities : handler[b] = NoActivity
  BY <1>1 DEF ResultInv, Forgotten, TypeOK, ScreensOK
<1>3. \A b \in Activities : startedBy[b] = NoActivity
  BY <1>1 DEF ResultInv, Forgotten, Asked, TypeOK, ScreensOK
<1>4. OneEach' /\ HomeAlone' /\ Asked' /\ Forgotten'
  BY <1>1, <1>2, <1>3 DEF OneEach, HomeAlone, Asked, Forgotten, New, TypeOK, ScreensOK
<1>5. Routed(Shown, startedBy, handler)'
  BY <1>1, <1>2, <1>3 DEF Routed
<1>6. QED
  BY <1>4, <1>5 DEF ResultInv

LEMMA InitResults == Init => ResultInv
<1> SUFFICES ASSUME Init PROVE ResultInv
  OBVIOUS
<1> USE ConstantsAssumption DEF Init, Activities, MaybeActivity
<1>1. Shown = <<current>> /\ current \in Activities
  BY DEF Shown
<1>2. \A b \in Activities : startedBy[b] = NoActivity /\ handler[b] = NoActivity
  OBVIOUS
<1>3. OneEach /\ HomeAlone /\ Asked /\ Forgotten
  BY <1>1, <1>2 DEF OneEach, HomeAlone, Asked, Forgotten
<1>4. Routed(Shown, startedBy, handler)
  BY <1>1, <1>2 DEF Routed
<1>5. QED
  BY <1>3, <1>4 DEF ResultInv

LEMMA ResultStep ==
  ASSUME IInv, IInv', ResultInv, [Next]_vars
  PROVE  ResultInv'
<1> USE ConstantsAssumption DEF Activities, MaybeActivity
<1>1. TypeOK /\ TypeOK' /\ PendingIsComplete /\ HasCurrent /\ ScreensOK /\ StepsOK
  BY DEF IInv, TypeOK
<1>2. ASSUME ~((pc = "callback" /\ calls = 0) \/ pc = "switch")
      PROVE  pendingActivity # NoActivity => startedBy[pendingActivity] = NoActivity
  BY <1>2 DEF ResultInv, Asked
<1>3. ASSUME NEW a \in Screens, SwitchScreen(a)
      PROVE  ResultInv'
  BY <1>1, <1>2, <1>3, UnaskedResults DEF SwitchScreen, ReplaceActivity, New, main
<1>4. ASSUME NEW a \in Screens, OpenSyncSettings(a)
      PROVE  ResultInv'
  BY <1>1, <1>2, <1>4, UnaskedResults DEF OpenSyncSettings, PushActivity, New
<1>5. ASSUME NEW a \in Screens, LightPanel(a)
      PROVE  ResultInv'
  BY <1>1, <1>2, <1>5, UnaskedResults DEF LightPanel, PushActivity, New
<1>6. CASE StatusChanged
  BY <1>6, QuietResults DEF StatusChanged, main
<1>7. CASE ManualRefresh
  BY <1>7, QuietResults DEF ManualRefresh, main
<1>8. CASE GoToSleep
  <2>1. SleepScreen \notin {current, pendingActivity} /\ ~InStack(SleepScreen)
    BY <1>8 DEF GoToSleep, IInv, SleepIsLast, InStack
  <2>2. QED
    BY <1>1, <1>2, <1>8, <2>1, UnaskedResults DEF GoToSleep, ReplaceActivity
<1>9. CASE Call
  <2>1. CASE UNCHANGED nav
    BY <1>1, <1>9, <2>1, QuietResults DEF Call, StepsOK
  <2>2. ASSUME NEW a \in Screens, New(a), StartActivityForResult(a),
               calls' = 0, UNCHANGED <<wait, requestedUpdate, lock, notified, owed, pc, callback>>
        PROVE  ResultInv'
    BY <1>1, <1>2, <1>9, <2>2, AskedResults DEF Call, HasCurrent
  <2>3. ASSUME NEW a \in Screens, New(a), ReplaceActivity(a)
        PROVE  ResultInv'
    BY <1>1, <1>2, <1>9, <2>3, UnaskedResults DEF Call, ReplaceActivity, New
  <2>4. CASE Finish
    BY <1>1, <1>2, <1>9, <2>4, UnaskedResults DEF Call, Finish
  <2>5. QED
    BY <1>9, <2>1, <2>2, <2>3, <2>4 DEF Call
<1>10. CASE RaiseAlert
  BY <1>10, QuietResults DEF RaiseAlert, main
<1>11. CASE RunActivity
  BY <1>11, QuietResults DEF RunActivity
<1>12. CASE EndLock
  BY <1>12, QuietResults DEF EndLock, main
<1>13. CASE Return
  BY <1>13, QuietResults DEF Return
<1>14. CASE Wake
  BY <1>14, QuietResults DEF Wake
<1>15. CASE Pop
  BY <1>1, <1>15, PopResults DEF Pop, PopThen, PendingIsComplete
<1>16. CASE Launch
  BY <1>1, <1>16, LaunchResults DEF Launch, LaunchUnlocked, PendingIsComplete
<1>17. CASE OnEnter
  BY <1>17, QuietResults DEF OnEnter
<1>18. CASE EndLoop
  <2>1. CASE UNCHANGED nav
    BY <1>1, <1>18, <2>1, QuietResults DEF EndLoop, PendingIsComplete
  <2>2. ASSUME NEW a \in Screens, New(a), PushActivity(a)
        PROVE  ResultInv'
    BY <1>1, <1>18, <2>2, UnaskedResults DEF EndLoop, PushActivity, New, PendingIsComplete
  <2>3. QED
    BY <1>18, <2>1, <2>2 DEF EndLoop
<1>19. ASSUME NEW a \in Screens, GoHome(a)
       PROVE  ResultInv'
  BY <1>1, <1>19, HomeResults
<1>20. CASE NotifyTake
  BY <1>20, QuietResults DEF NotifyTake, main
<1>21. CASE BeginDraw
  BY <1>21, QuietResults DEF BeginDraw, main
<1>22. CASE FinishDraw
  BY <1>22, QuietResults DEF FinishDraw, main
<1>23. CASE ReleaseWaiter
  BY <1>23, QuietResults DEF ReleaseWaiter, main
<1>24. CASE Unlock
  BY <1>24, QuietResults DEF Unlock, main
<1>25. CASE RenderCalls
  BY <1>25, QuietResults DEF RenderCalls, main
<1>26. CASE UNCHANGED vars
  BY <1>26, QuietResults DEF vars, main
<1>27. QED
  BY <1>3, <1>4, <1>5, <1>6, <1>7, <1>8, <1>9, <1>10, <1>11, <1>12, <1>13, <1>14, <1>15,
     <1>16, <1>17, <1>18, <1>19, <1>20, <1>21, <1>22, <1>23, <1>24, <1>25, <1>26
     DEF Next, User, MainTask, RenderTask, Asleep

\* A result reaches the screen that asked for it, and no handler is called with
\* another screen's result, whatever replacements, alerts and panels come
\* between startActivityForResult and the pop.
THEOREM ResultsReachTheirScreen == Spec => []ResultsRouted
<1>1. IInv /\ ResultInv /\ [Next]_vars => (IInv /\ ResultInv)'
  BY IInvStep, ResultStep
<1>2. ResultInv => ResultsRouted
  BY DEF ResultInv, Routed, ResultsRouted, Shown
<1>3. QED
  BY InitIInv, InitResults, <1>1, <1>2, PTL DEF Spec
=============================================================================
