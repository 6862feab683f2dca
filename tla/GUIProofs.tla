------------------------------ MODULE GUIProofs ------------------------------
(***************************************************************************)
(* Proofs about WindowsPlatform, for any architectures, any stores and any *)
(* number of changes, whether or not helpers hang, and about GUI, for any  *)
(* tabs.  The tabs do not disturb the main loop: GUI implements            *)
(* WindowsPlatform, so what is proved of the one holds in the other.       *)
(***************************************************************************)
EXTENDS GUI, TLAPS

-----------------------------------------------------------------------------
(* WindowsPlatform.                                                        *)

\* Every step keeps every variable's type.
LEMMA TypeStep == TypeOK /\ [Next]_vars => TypeOK'
<1>a. SUFFICES ASSUME TypeOK, [Next]_vars  PROVE TypeOK'
  OBVIOUS
<1>. USE <1>a, MaxChangesAssumption
     DEF Pending, TypeOK, CallbackStates, LoaderStates, HelperStates, MainStates
<1>. USE DEF vars, registryVars, sharedVars, loaderVars, processVars, mainVars
<1>2. ASSUME NEW s \in Stores, RegistryChange(s)  PROVE TypeOK'
  BY <1>2 DEF RegistryChange
<1>3. ASSUME NEW s \in Stores, NotifyChange(s)  PROVE TypeOK'
  BY <1>3 DEF NotifyChange
<1>4. ASSUME NEW s \in Stores, MarkStale(s)  PROVE TypeOK'
  BY <1>4 DEF MarkStale, NoData
<1>5. ASSUME NEW s \in Stores, NotifyStale(s)  PROVE TypeOK'
  BY <1>5 DEF NotifyStale, NotifyAll
<1>6. ASSUME NEW s \in Stores, SignalChange(s)  PROVE TypeOK'
  BY <1>6 DEF SignalChange
<1>7. CASE CreateJob
  BY <1>7 DEF CreateJob
<1>8. CASE BeginFetch
  BY <1>8 DEF BeginFetch
<1>9. CASE StopLoader
  BY <1>9 DEF StopLoader
<1>10. CASE SleepLoader
  BY <1>10 DEF SleepLoader
<1>11. ASSUME NEW a \in Archs, SpawnLoaderData(a)  PROVE TypeOK'
  BY <1>11 DEF SpawnLoaderData
<1>12. ASSUME NEW a \in Archs, AssignProcessToJob(a)  PROVE TypeOK'
  BY <1>12 DEF AssignProcessToJob
<1>13. CASE AllSpawned
  BY <1>13 DEF AllSpawned
<1>14. CASE WaitForHelpers
  BY <1>14 DEF WaitForHelpers
<1>15. CASE PublishLoaderData
  BY <1>15 DEF PublishLoaderData, NoData
<1>16. CASE NotifyPublished
  BY <1>16 DEF NotifyPublished
<1>17. CASE OnLoaderDataSignal
  BY <1>17 DEF OnLoaderDataSignal
<1>18. CASE SignalLoaderData
  BY <1>18 DEF SignalLoaderData
<1>19. ASSUME NEW a \in Archs, HelperExits(a)  PROVE TypeOK'
  BY <1>19 DEF HelperExits
<1>20. ASSUME NEW a \in Archs, HelperHangs(a)  PROVE TypeOK'
  BY <1>20 DEF HelperHangs
<1>21. CASE WindowClosed
  BY <1>21 DEF WindowClosed
<1>22. CASE BeginFrame
  BY <1>22 DEF BeginFrame
<1>23. CASE EndFrame
  BY <1>23 DEF EndFrame
<1>24. CASE LinterGetsLoaderData
  BY <1>24 DEF LinterGetsLoaderData, EnsureLoaderDataThread
<1>25. ASSUME NEW a \in Archs, DrawLoaderData(a)  PROVE TypeOK'
  BY <1>25 DEF DrawLoaderData, EnsureLoaderDataThread, GetLoaderData
<1>26. ASSUME NEW a \in Archs, BeginWaitForLoaderData(a)  PROVE TypeOK'
  BY <1>26 DEF BeginWaitForLoaderData, EnsureLoaderDataThread
<1>27. CASE CheckWaitForLoaderData
  BY <1>27 DEF CheckWaitForLoaderData
<1>28. CASE WaitForLoaderDataTimeout
  BY <1>28 DEF WaitForLoaderDataTimeout
<1>29. CASE WakeByEvent
  BY <1>29 DEF WakeByEvent
<1>30. CASE WakeByInput
  BY <1>30 DEF WakeByInput
<1>31. CASE LeaveMainLoop
  BY <1>31 DEF LeaveMainLoop
<1>32. CASE CloseJob
  BY <1>32 DEF CloseJob
<1>33. CASE RequestStop
  BY <1>33 DEF RequestStop
<1>34. CASE Join
  BY <1>34 DEF Join
<1>35. CASE UNCHANGED vars
  BY <1>35
<1>36. QED
  BY <1>2, <1>3, <1>4, <1>5, <1>6, <1>7, <1>8, <1>9, <1>10, <1>11,
     <1>12, <1>13, <1>14, <1>15, <1>16, <1>17, <1>18, <1>19, <1>20, <1>21,
     <1>22, <1>23, <1>24, <1>25, <1>26, <1>27, <1>28, <1>29, <1>30, <1>31,
     <1>32, <1>33, <1>34, <1>35
  DEF Next, Callback, Loader, Fetch, Main, Frame, Destroy, Exited

\* Every variable keeps its type, in every reachable state.
THEOREM TypeCorrect == Spec => []TypeOK
<1>1. ASSUME Init  PROVE TypeOK
  <2>1. NoData \in [Archs -> {Pending} \cup 0..MaxChanges]
    BY DEF NoData
  <2>2. 0 \in 0..MaxChanges
    BY MaxChangesAssumption
  <2>. QED
    BY <1>1, <2>1, <2>2, Zenon
    DEF Init, TypeOK, CallbackStates, LoaderStates, HelperStates, MainStates
<1>. QED
  BY <1>1, TypeStep, PTL DEF Spec

-----------------------------------------------------------------------------
(***************************************************************************)
(* Freshness.  The settled entries are those of the last fetch, so the     *)
(* invariant follows a fetch from its beginning: what its helpers leave is *)
(* no older than the last handled change, unless a change has been handled *)
(* since, which makes the data stale again; and the thread publishes only  *)
(* when every architecture has left something.                             *)
(***************************************************************************)
Settled == {"check", "asleep", "notify", "signal", "setEvent", "stopped"}
Fetching == {"spawn", "wait", "publish"}

SettledFresh ==
  ~mLoaderDataIsStale /\ loader \in Settled
    => \A a \in Archs : mLoaderData[a] # Pending /\ mLoaderData[a] >= handled

FetchFresh ==
  ~mLoaderDataIsStale /\ loader \in Fetching
    => \A a \in Archs : newLoaderData[a] # Pending => newLoaderData[a] >= handled

FetchComplete ==
  loader \in Fetching =>
    \A a \in Archs :
      \/ newLoaderData[a] # Pending
      \/ loader = "spawn" /\ a \in toSpawn
      \/ loader \in {"spawn", "wait"} /\ helper[a] \in {"running", "hung"}

NoFetch ==
  loader \notin Fetching =>
    /\ \A a \in Archs : newLoaderData[a] = Pending /\ helper[a] = "none"
    /\ inJob = {}

NoneUnassigned == loader # "spawn" => unassigned = {}

LoaderInv ==
  /\ TypeOK
  /\ NoFetch
  /\ NoneUnassigned
  /\ handled <= registry
  /\ ~mLoaderDataIsStale => loader \in Settled \cup Fetching
  /\ SettledFresh
  /\ FetchFresh
  /\ FetchComplete

\* The initial states satisfy the invariant: the data is stale and no fetch
\* has begun.
LEMMA LoaderInvInit == Init /\ TypeOK => LoaderInv
BY DEF Init, NoData, LoaderInv, NoFetch, NoneUnassigned, SettledFresh, FetchFresh, FetchComplete, Settled, Fetching

\* Every step preserves the invariant.
LEMMA LoaderInvNext == LoaderInv /\ TypeOK' /\ [Next]_vars => LoaderInv'
<1>a. SUFFICES ASSUME LoaderInv, TypeOK', [Next]_vars  PROVE LoaderInv'
  OBVIOUS
<1>. USE <1>a, MaxChangesAssumption
     DEF LoaderInv, NoFetch, NoneUnassigned, SettledFresh, FetchFresh, FetchComplete, Settled, Fetching,
         Pending, TypeOK
<1>. USE DEF vars, registryVars, sharedVars, loaderVars, processVars, mainVars
<1>2. ASSUME NEW s \in Stores, RegistryChange(s)  PROVE LoaderInv'
  BY <1>2 DEF RegistryChange
<1>3. ASSUME NEW s \in Stores, NotifyChange(s)  PROVE LoaderInv'
  BY <1>3 DEF NotifyChange
<1>4. ASSUME NEW s \in Stores, MarkStale(s)  PROVE LoaderInv'
  BY <1>4 DEF MarkStale, NoData
<1>5. ASSUME NEW s \in Stores, NotifyStale(s)  PROVE LoaderInv'
  BY <1>5 DEF NotifyStale, NotifyAll
<1>6. ASSUME NEW s \in Stores, SignalChange(s)  PROVE LoaderInv'
  BY <1>6 DEF SignalChange
<1>7. CASE CreateJob
  BY <1>7 DEF CreateJob
<1>8. CASE BeginFetch
  BY <1>8 DEF BeginFetch
<1>9. CASE StopLoader
  BY <1>9 DEF StopLoader
<1>10. CASE SleepLoader
  BY <1>10 DEF SleepLoader
<1>11. ASSUME NEW a \in Archs, SpawnLoaderData(a)  PROVE LoaderInv'
  BY <1>11 DEF SpawnLoaderData
<1>12. ASSUME NEW a \in Archs, AssignProcessToJob(a)  PROVE LoaderInv'
  BY <1>12 DEF AssignProcessToJob
<1>13. CASE AllSpawned
  BY <1>13 DEF AllSpawned
<1>14. CASE WaitForHelpers
  BY <1>14 DEF WaitForHelpers
<1>15. CASE PublishLoaderData
  BY <1>15 DEF PublishLoaderData, NoData
<1>16. CASE NotifyPublished
  BY <1>16 DEF NotifyPublished
<1>17. CASE OnLoaderDataSignal
  BY <1>17 DEF OnLoaderDataSignal
<1>18. CASE SignalLoaderData
  BY <1>18 DEF SignalLoaderData
<1>19. ASSUME NEW a \in Archs, HelperExits(a)  PROVE LoaderInv'
  BY <1>19 DEF HelperExits
<1>20. ASSUME NEW a \in Archs, HelperHangs(a)  PROVE LoaderInv'
  BY <1>20 DEF HelperHangs
<1>21. CASE WindowClosed
  BY <1>21 DEF WindowClosed
<1>22. CASE BeginFrame
  BY <1>22 DEF BeginFrame
<1>23. CASE EndFrame
  BY <1>23 DEF EndFrame
<1>24. CASE LinterGetsLoaderData
  BY <1>24 DEF LinterGetsLoaderData, EnsureLoaderDataThread
<1>25. ASSUME NEW a \in Archs, DrawLoaderData(a)  PROVE LoaderInv'
  BY <1>25 DEF DrawLoaderData, EnsureLoaderDataThread, GetLoaderData
<1>26. ASSUME NEW a \in Archs, BeginWaitForLoaderData(a)  PROVE LoaderInv'
  BY <1>26 DEF BeginWaitForLoaderData, EnsureLoaderDataThread
<1>27. CASE CheckWaitForLoaderData
  BY <1>27 DEF CheckWaitForLoaderData
<1>28. CASE WaitForLoaderDataTimeout
  BY <1>28 DEF WaitForLoaderDataTimeout
<1>29. CASE WakeByEvent
  BY <1>29 DEF WakeByEvent
<1>30. CASE WakeByInput
  BY <1>30 DEF WakeByInput
<1>31. CASE LeaveMainLoop
  BY <1>31 DEF LeaveMainLoop
<1>32. CASE CloseJob
  BY <1>32 DEF CloseJob
<1>33. CASE RequestStop
  BY <1>33 DEF RequestStop
<1>34. CASE Join
  BY <1>34 DEF Join
<1>35. CASE UNCHANGED vars
  BY <1>35
<1>36. QED
  BY <1>a, <1>2, <1>3, <1>4, <1>5, <1>6, <1>7, <1>8, <1>9, <1>10, <1>11,
     <1>12, <1>13, <1>14, <1>15, <1>16, <1>17, <1>18, <1>19, <1>20, <1>21,
     <1>22, <1>23, <1>24, <1>25, <1>26, <1>27, <1>28, <1>29, <1>30, <1>31,
     <1>32, <1>33, <1>34, <1>35
  DEF Next, Callback, Loader, Fetch, Main, Frame, Destroy, Exited

\* The invariant holds in every reachable state.
LEMMA LoaderInvariant == Spec => []LoaderInv
<1>1. Spec => []TypeOK
  BY TypeCorrect
<1>2. QED
  BY <1>1, LoaderInvInit, LoaderInvNext, PTL DEF Spec

\* GetLoaderData serves nothing older than the last handled change once the
\* thread has no fetch left to make or to publish.
THEOREM Freshness == Spec => []FreshWhenSettled
<1>1. LoaderInv => FreshWhenSettled
  BY DEF LoaderInv, SettledFresh, FreshWhenSettled, Settled
<1>. QED
  BY <1>1, LoaderInvariant, PTL

-----------------------------------------------------------------------------
(***************************************************************************)
(* No lost notification.  The invariant is inductive as it stands, given   *)
(* the types: the thread goes to sleep in the step in which it evaluates   *)
(* its predicate, and every step that makes the predicate hold leaves      *)
(* somebody at a notify_all.                                               *)
(***************************************************************************)
\* Every step that makes a sleeper's predicate hold leaves somebody to notify it.
LEMMA NotificationStep == TypeOK /\ NoLostNotify /\ [Next]_vars => NoLostNotify'
<1>a. SUFFICES ASSUME TypeOK, NoLostNotify, [Next]_vars  PROVE NoLostNotify'
  OBVIOUS
<1>. USE <1>a DEF NoLostNotify, TypeOK, CallbackStates
<1>. USE DEF vars, registryVars, sharedVars, loaderVars, processVars, mainVars
<1>2. ASSUME NEW s \in Stores, RegistryChange(s)  PROVE NoLostNotify'
  BY <1>2 DEF RegistryChange
<1>3. ASSUME NEW s \in Stores, NotifyChange(s)  PROVE NoLostNotify'
  BY <1>3 DEF NotifyChange
<1>4. ASSUME NEW s \in Stores, MarkStale(s)  PROVE NoLostNotify'
  BY <1>4 DEF MarkStale, NoData
<1>5. ASSUME NEW s \in Stores, NotifyStale(s)  PROVE NoLostNotify'
  BY <1>5 DEF NotifyStale, NotifyAll
<1>6. ASSUME NEW s \in Stores, SignalChange(s)  PROVE NoLostNotify'
  BY <1>6 DEF SignalChange
<1>7. CASE CreateJob
  BY <1>7 DEF CreateJob
<1>8. CASE BeginFetch
  BY <1>8 DEF BeginFetch
<1>9. CASE StopLoader
  BY <1>9 DEF StopLoader
<1>10. CASE SleepLoader
  BY <1>10 DEF SleepLoader
<1>11. ASSUME NEW a \in Archs, SpawnLoaderData(a)  PROVE NoLostNotify'
  BY <1>11 DEF SpawnLoaderData
<1>12. ASSUME NEW a \in Archs, AssignProcessToJob(a)  PROVE NoLostNotify'
  BY <1>12 DEF AssignProcessToJob
<1>13. CASE AllSpawned
  BY <1>13 DEF AllSpawned
<1>14. CASE WaitForHelpers
  BY <1>14 DEF WaitForHelpers
<1>15. CASE PublishLoaderData
  BY <1>15 DEF PublishLoaderData, NoData
<1>16. CASE NotifyPublished
  BY <1>16 DEF NotifyPublished
<1>17. CASE OnLoaderDataSignal
  BY <1>17 DEF OnLoaderDataSignal
<1>18. CASE SignalLoaderData
  BY <1>18 DEF SignalLoaderData
<1>19. ASSUME NEW a \in Archs, HelperExits(a)  PROVE NoLostNotify'
  BY <1>19 DEF HelperExits
<1>20. ASSUME NEW a \in Archs, HelperHangs(a)  PROVE NoLostNotify'
  BY <1>20 DEF HelperHangs
<1>21. CASE WindowClosed
  BY <1>21 DEF WindowClosed
<1>22. CASE BeginFrame
  BY <1>22 DEF BeginFrame
<1>23. CASE EndFrame
  BY <1>23 DEF EndFrame
<1>24. CASE LinterGetsLoaderData
  BY <1>24 DEF LinterGetsLoaderData, EnsureLoaderDataThread
<1>25. ASSUME NEW a \in Archs, DrawLoaderData(a)  PROVE NoLostNotify'
  BY <1>25 DEF DrawLoaderData, EnsureLoaderDataThread, GetLoaderData
<1>26. ASSUME NEW a \in Archs, BeginWaitForLoaderData(a)  PROVE NoLostNotify'
  BY <1>26 DEF BeginWaitForLoaderData, EnsureLoaderDataThread
<1>27. CASE CheckWaitForLoaderData
  BY <1>27 DEF CheckWaitForLoaderData
<1>28. CASE WaitForLoaderDataTimeout
  BY <1>28 DEF WaitForLoaderDataTimeout
<1>29. CASE WakeByEvent
  BY <1>29 DEF WakeByEvent
<1>30. CASE WakeByInput
  BY <1>30 DEF WakeByInput
<1>31. CASE LeaveMainLoop
  BY <1>31 DEF LeaveMainLoop
<1>32. CASE CloseJob
  BY <1>32 DEF CloseJob
<1>33. CASE RequestStop
  BY <1>33 DEF RequestStop
<1>34. CASE Join
  BY <1>34 DEF Join
<1>35. CASE UNCHANGED vars
  BY <1>35
<1>36. QED
  BY <1>a, <1>2, <1>3, <1>4, <1>5, <1>6, <1>7, <1>8, <1>9, <1>10, <1>11,
     <1>12, <1>13, <1>14, <1>15, <1>16, <1>17, <1>18, <1>19, <1>20, <1>21,
     <1>22, <1>23, <1>24, <1>25, <1>26, <1>27, <1>28, <1>29, <1>30, <1>31,
     <1>32, <1>33, <1>34, <1>35
  DEF Next, Callback, Loader, Fetch, Main, Frame, Destroy, Exited

\* No thread is left asleep on mLoaderDataCondition.
THEOREM Notification == Spec => []NoLostNotify
<1>1. Init => NoLostNotify
  BY DEF Init, NoLostNotify, NoData
<1>. QED
  BY <1>1, TypeCorrect, NotificationStep, PTL DEF Spec

-----------------------------------------------------------------------------
(***************************************************************************)
(* No stale screen.  What this frame, or the last one, has shown for an    *)
(* architecture can differ from what GetLoaderData would return only while *)
(* something is on its way to set mNewFrameEvent.                          *)
(***************************************************************************)
WakeUpComing ==
  \/ mNewFrameEvent
  \/ mLoaderDataIsStale
  \/ \E s \in Stores : callback[s] \in {"notify", "setEvent"}
  \/ loader \in Fetching \cup {"notify", "signal", "setEvent"}

ScreenInv ==
  \A a \in Archs :
    (\/ main = "msgWait"
     \/ main \in {"frame", "waitCheck", "waitAsleep"} /\ a \notin toDraw)
      => shown[a] = GetLoaderData(a) \/ WakeUpComing

\* What is shown and what GetLoaderData returns part only when a wake-up comes.
LEMMA ScreenStep == TypeOK /\ ScreenInv /\ [Next]_vars => ScreenInv'
<1>a. SUFFICES ASSUME TypeOK, ScreenInv, [Next]_vars  PROVE ScreenInv'
  OBVIOUS
<1>. USE <1>a DEF ScreenInv, WakeUpComing, Fetching, GetLoaderData, TypeOK, CallbackStates
<1>. USE DEF vars, registryVars, sharedVars, loaderVars, processVars, mainVars
<1>2. ASSUME NEW s \in Stores, RegistryChange(s)  PROVE ScreenInv'
  BY <1>2 DEF RegistryChange
<1>3. ASSUME NEW s \in Stores, NotifyChange(s)  PROVE ScreenInv'
  BY <1>3 DEF NotifyChange
<1>4. ASSUME NEW s \in Stores, MarkStale(s)  PROVE ScreenInv'
  BY <1>4 DEF MarkStale, NoData
<1>5. ASSUME NEW s \in Stores, NotifyStale(s)  PROVE ScreenInv'
  BY <1>5 DEF NotifyStale, NotifyAll
<1>6. ASSUME NEW s \in Stores, SignalChange(s)  PROVE ScreenInv'
  BY <1>6 DEF SignalChange
<1>7. CASE CreateJob
  BY <1>7 DEF CreateJob
<1>8. CASE BeginFetch
  BY <1>8 DEF BeginFetch
<1>9. CASE StopLoader
  BY <1>9 DEF StopLoader
<1>10. CASE SleepLoader
  BY <1>10 DEF SleepLoader
<1>11. ASSUME NEW a \in Archs, SpawnLoaderData(a)  PROVE ScreenInv'
  BY <1>11 DEF SpawnLoaderData
<1>12. ASSUME NEW a \in Archs, AssignProcessToJob(a)  PROVE ScreenInv'
  BY <1>12 DEF AssignProcessToJob
<1>13. CASE AllSpawned
  BY <1>13 DEF AllSpawned
<1>14. CASE WaitForHelpers
  BY <1>14 DEF WaitForHelpers
<1>15. CASE PublishLoaderData
  BY <1>15 DEF PublishLoaderData, NoData
<1>16. CASE NotifyPublished
  BY <1>16 DEF NotifyPublished
<1>17. CASE OnLoaderDataSignal
  BY <1>17 DEF OnLoaderDataSignal
<1>18. CASE SignalLoaderData
  BY <1>18 DEF SignalLoaderData
<1>19. ASSUME NEW a \in Archs, HelperExits(a)  PROVE ScreenInv'
  BY <1>19 DEF HelperExits
<1>20. ASSUME NEW a \in Archs, HelperHangs(a)  PROVE ScreenInv'
  BY <1>20 DEF HelperHangs
<1>21. CASE WindowClosed
  BY <1>21 DEF WindowClosed
<1>22. CASE BeginFrame
  BY <1>22 DEF BeginFrame
<1>23. CASE EndFrame
  BY <1>23 DEF EndFrame
<1>24. CASE LinterGetsLoaderData
  BY <1>24 DEF LinterGetsLoaderData, EnsureLoaderDataThread
<1>25. ASSUME NEW a \in Archs, DrawLoaderData(a)  PROVE ScreenInv'
  BY <1>25 DEF DrawLoaderData, EnsureLoaderDataThread, GetLoaderData
<1>26. ASSUME NEW a \in Archs, BeginWaitForLoaderData(a)  PROVE ScreenInv'
  BY <1>26 DEF BeginWaitForLoaderData, EnsureLoaderDataThread
<1>27. CASE CheckWaitForLoaderData
  BY <1>27 DEF CheckWaitForLoaderData
<1>28. CASE WaitForLoaderDataTimeout
  BY <1>28 DEF WaitForLoaderDataTimeout
<1>29. CASE WakeByEvent
  BY <1>29 DEF WakeByEvent
<1>30. CASE WakeByInput
  BY <1>30 DEF WakeByInput
<1>31. CASE LeaveMainLoop
  BY <1>31 DEF LeaveMainLoop
<1>32. CASE CloseJob
  BY <1>32 DEF CloseJob
<1>33. CASE RequestStop
  BY <1>33 DEF RequestStop
<1>34. CASE Join
  BY <1>34 DEF Join
<1>35. CASE UNCHANGED vars
  BY <1>35
<1>36. QED
  BY <1>a, <1>2, <1>3, <1>4, <1>5, <1>6, <1>7, <1>8, <1>9, <1>10, <1>11,
     <1>12, <1>13, <1>14, <1>15, <1>16, <1>17, <1>18, <1>19, <1>20, <1>21,
     <1>22, <1>23, <1>24, <1>25, <1>26, <1>27, <1>28, <1>29, <1>30, <1>31,
     <1>32, <1>33, <1>34, <1>35
  DEF Next, Callback, Loader, Fetch, Main, Frame, Destroy, Exited

\* So it is in every reachable state.
LEMMA ScreenInvariant == Spec => []ScreenInv
<1>1. Init => ScreenInv
  BY DEF Init, ScreenInv
<1>. QED
  BY <1>1, TypeCorrect, ScreenStep, PTL DEF Spec

\* When everything is at rest, the screen shows what GetLoaderData returns.
THEOREM Screen == Spec => []NoStaleScreen
<1>1. ASSUME TypeOK, ScreenInv, NoLostNotify
      PROVE  NoStaleScreen
  <2>. SUFFICES ASSUME main = "msgWait", ~mNewFrameEvent, loader = "asleep", CallbacksIdle,
                       NEW a \in Archs
                PROVE  shown[a] = GetLoaderData(a)
    BY DEF NoStaleScreen
  <2>1. ~mLoaderDataIsStale
    BY <1>1 DEF NoLostNotify, CallbacksIdle
  <2>2. ~WakeUpComing
    BY <2>1 DEF WakeUpComing, CallbacksIdle, Fetching
  <2>. QED
    BY <1>1, <2>2 DEF ScreenInv
<1>. QED
  BY <1>1, TypeCorrect, ScreenInvariant, Notification, PTL

-----------------------------------------------------------------------------
(***************************************************************************)
(* The job.  A process is in the job only if it was assigned while the job *)
(* was open, and a helper that is yet to be spawned is in no job, so none  *)
(* starts to run inside a job that is closed.                              *)
(***************************************************************************)
JobInv ==
  /\ toSpawn \cap (inJob \cup unassigned) = {}
  /\ job = "none" => inJob = {}
  /\ main \in {"stopping", "joining", "exited"} /\ job # "open"
       => \A a \in inJob : helper[a] \notin {"running", "hung"}

\* Every step preserves what is known of the job.
LEMMA JobStep == LoaderInv /\ LoaderInv' /\ JobInv /\ [Next]_vars => JobInv'
<1>a. SUFFICES ASSUME LoaderInv, LoaderInv', JobInv, [Next]_vars  PROVE JobInv'
  OBVIOUS
<1>b. TypeOK /\ NoFetch /\ NoneUnassigned
  BY <1>a DEF LoaderInv
<1>. USE <1>a, <1>b DEF JobInv, NoFetch, NoneUnassigned, Fetching, TypeOK
<1>. USE DEF vars, registryVars, sharedVars, loaderVars, processVars, mainVars
<1>2. ASSUME NEW s \in Stores, RegistryChange(s)  PROVE JobInv'
  BY <1>2 DEF RegistryChange
<1>3. ASSUME NEW s \in Stores, NotifyChange(s)  PROVE JobInv'
  BY <1>3 DEF NotifyChange
<1>4. ASSUME NEW s \in Stores, MarkStale(s)  PROVE JobInv'
  BY <1>4 DEF MarkStale, NoData
<1>5. ASSUME NEW s \in Stores, NotifyStale(s)  PROVE JobInv'
  BY <1>5 DEF NotifyStale, NotifyAll
<1>6. ASSUME NEW s \in Stores, SignalChange(s)  PROVE JobInv'
  BY <1>6 DEF SignalChange
<1>7. CASE CreateJob
  BY <1>7 DEF CreateJob
<1>8. CASE BeginFetch
  BY <1>8 DEF BeginFetch
<1>9. CASE StopLoader
  BY <1>9 DEF StopLoader
<1>10. CASE SleepLoader
  BY <1>10 DEF SleepLoader
<1>11. ASSUME NEW a \in Archs, SpawnLoaderData(a)  PROVE JobInv'
  BY <1>11 DEF SpawnLoaderData
<1>12. ASSUME NEW a \in Archs, AssignProcessToJob(a)  PROVE JobInv'
  BY <1>12 DEF AssignProcessToJob
<1>13. CASE AllSpawned
  BY <1>13 DEF AllSpawned
<1>14. CASE WaitForHelpers
  BY <1>14 DEF WaitForHelpers
<1>15. CASE PublishLoaderData
  BY <1>15 DEF PublishLoaderData, NoData
<1>16. CASE NotifyPublished
  BY <1>16 DEF NotifyPublished
<1>17. CASE OnLoaderDataSignal
  BY <1>17 DEF OnLoaderDataSignal
<1>18. CASE SignalLoaderData
  BY <1>18 DEF SignalLoaderData
<1>19. ASSUME NEW a \in Archs, HelperExits(a)  PROVE JobInv'
  BY <1>19 DEF HelperExits
<1>20. ASSUME NEW a \in Archs, HelperHangs(a)  PROVE JobInv'
  BY <1>20 DEF HelperHangs
<1>21. CASE WindowClosed
  BY <1>21 DEF WindowClosed
<1>22. CASE BeginFrame
  BY <1>22 DEF BeginFrame
<1>23. CASE EndFrame
  BY <1>23 DEF EndFrame
<1>24. CASE LinterGetsLoaderData
  BY <1>24 DEF LinterGetsLoaderData, EnsureLoaderDataThread
<1>25. ASSUME NEW a \in Archs, DrawLoaderData(a)  PROVE JobInv'
  BY <1>25 DEF DrawLoaderData, EnsureLoaderDataThread, GetLoaderData
<1>26. ASSUME NEW a \in Archs, BeginWaitForLoaderData(a)  PROVE JobInv'
  BY <1>26 DEF BeginWaitForLoaderData, EnsureLoaderDataThread
<1>27. CASE CheckWaitForLoaderData
  BY <1>27 DEF CheckWaitForLoaderData
<1>28. CASE WaitForLoaderDataTimeout
  BY <1>28 DEF WaitForLoaderDataTimeout
<1>29. CASE WakeByEvent
  BY <1>29 DEF WakeByEvent
<1>30. CASE WakeByInput
  BY <1>30 DEF WakeByInput
<1>31. CASE LeaveMainLoop
  BY <1>31 DEF LeaveMainLoop
<1>32. CASE CloseJob
  BY <1>32 DEF CloseJob
<1>33. CASE RequestStop
  BY <1>33 DEF RequestStop
<1>34. CASE Join
  BY <1>34 DEF Join
<1>35. CASE UNCHANGED vars
  BY <1>35
<1>36. QED
  BY <1>a, <1>2, <1>3, <1>4, <1>5, <1>6, <1>7, <1>8, <1>9, <1>10, <1>11,
     <1>12, <1>13, <1>14, <1>15, <1>16, <1>17, <1>18, <1>19, <1>20, <1>21,
     <1>22, <1>23, <1>24, <1>25, <1>26, <1>27, <1>28, <1>29, <1>30, <1>31,
     <1>32, <1>33, <1>34, <1>35
  DEF Next, Callback, Loader, Fetch, Main, Frame, Destroy, Exited

\* So it holds in every reachable state.
LEMMA JobInvariant == Spec => []JobInv
<1>1. Init => JobInv
  BY DEF Init, JobInv
<1>. QED
  BY <1>1, LoaderInvariant, JobStep, PTL DEF Spec

\* No process of the job runs while the destructor waits for the thread.
THEOREM JobKilled == Spec => []KilledBeforeJoin
<1>1. JobInv => KilledBeforeJoin
  BY DEF JobInv, KilledBeforeJoin
<1>. QED
  BY <1>1, JobInvariant, PTL

-----------------------------------------------------------------------------
(* GUI.                                                                    *)

\* What the tabs do to the variables of WindowsPlatform is one of its steps,
\* or none: every frame, click and slot of GUI.cpp runs inside DrawFrame,
\* NotifyChange or mOnLoaderDataSignal.
LEMMA GUIStep == tab \in LayerSets /\ [GUINext]_<<vars, guiVars>> => [Next]_vars
<1> SUFFICES ASSUME tab \in LayerSets, [GUINext]_<<vars, guiVars>>
             PROVE  [Next]_vars
  OBVIOUS
<1>1. CASE UNCHANGED <<vars, guiVars>>
  BY <1>1
<1>2. CASE \E s \in Stores : StoreChange(s) \/ WatcherNext(s)
  <2> PICK s \in Stores : StoreChange(s) \/ WatcherNext(s)
    BY <1>2
  <2>1. RegistryChange(s) \/ NotifyChange(s) \/ Callback(s)
    BY DEF StoreChange, WatcherNext, NotifyLayerSet
  <2> QED
    BY <2>1 DEF Next
<1>3. CASE LoaderNext
  BY <1>3 DEF LoaderNext, NotifyLoaderData, Next, Loader
<1>4. CASE \E a \in Archs : HelperExits(a) /\ UNCHANGED guiVars
  BY <1>4 DEF Next
<1>5. CASE DrawFrame
  <2>1. \/ BeginFrame \/ EndFrame \/ LinterGetsLoaderData \/ UNCHANGED vars
        \/ \E a \in Archs : DrawLoaderData(a)
    BY <1>5 DEF DrawFrame, BeginDrawFrame, EndDrawFrame, HasErrors, CheckLayerData,
                ReadLayers, ReloadLayerDataNow, CheckLintErrors, RunAllLinters,
                RunAllLintersNow, NextTab, DrawTab, NoClick, DrawButtons
  <2> QED
    BY <2>1 DEF Next, Main, Frame
<1>6. CASE Click
  <2>1. UNCHANGED vars \/ RegistryChange(tab)
    BY <1>6 DEF Click, ReloadListClicked, EditClicked, CheckboxClicked, EnableClicked,
                EditInPlace, SetAPILayers
  <2> QED
    BY <2>1, LayerSetsAssumption DEF Next
<1>7. CASE (WakeByEvent \/ WakeByInput) /\ UNCHANGED guiVars
  BY <1>7 DEF Next, Main
<1> QED
  BY <1>1, <1>2, <1>3, <1>4, <1>5, <1>6, <1>7 DEF GUINext


\* The tab whose turn it is is one of the tabs.
LEMMA TabInvariant == GUISpec => [](tab \in LayerSets)
<1>1. GUIInit => tab \in LayerSets
  BY DEF GUIInit
<1>2. tab \in LayerSets /\ [GUINext]_<<vars, guiVars>> => (tab \in LayerSets)'
  <2> SUFFICES ASSUME tab \in LayerSets, [GUINext]_<<vars, guiVars>>
               PROVE  tab' \in LayerSets
    OBVIOUS
  <2> USE DEF guiVars, frameVars, turnVars
  <2>1. CASE UNCHANGED <<vars, guiVars>>
    BY <2>1
  <2>2. CASE \E s \in Stores : StoreChange(s) \/ WatcherNext(s)
    BY <2>2 DEF StoreChange, WatcherNext, NotifyLayerSet
  <2>3. CASE LoaderNext
    BY <2>3 DEF LoaderNext, NotifyLoaderData
  <2>4. CASE \E a \in Archs : HelperExits(a) /\ UNCHANGED guiVars
    BY <2>4
  <2>5. CASE DrawFrame
    BY <2>5 DEF DrawFrame, BeginDrawFrame, EndDrawFrame, HasErrors, CheckLayerData,
                ReadLayers, ReloadLayerDataNow, CheckLintErrors, RunAllLinters,
                RunAllLintersNow, NextTab, DrawTab, NoClick, DrawButtons
  <2>6. CASE Click
    BY <2>6 DEF Click, ReloadListClicked, EditClicked, CheckboxClicked, EnableClicked,
                EditInPlace, SetAPILayers
  <2>7. CASE (WakeByEvent \/ WakeByInput) /\ UNCHANGED guiVars
    BY <2>7
  <2> QED
    BY <2>1, <2>2, <2>3, <2>4, <2>5, <2>6, <2>7 DEF GUINext
<1> QED
  BY <1>1, <1>2, PTL DEF GUISpec

\* GUI implements WindowsPlatform, under the identity mapping.
THEOREM GUIImplementsWindowsPlatform == GUISpec => Spec
<1>1. GUIInit => Init
  BY DEF GUIInit
<1> QED
  BY <1>1, GUIStep, TabInvariant, PTL DEF GUISpec, Spec

\* The steps that change something of the tabs.
LEMMA GUICases ==
  ASSUME [GUINext]_<<vars, guiVars>>
  PROVE
  \/ UNCHANGED guiVars
  \/ \E s \in Stores : StoreChange(s)
  \/ \E s \in Stores : NotifyLayerSet(s)
  \/ NotifyLoaderData
  \/ BeginDrawFrame
  \/ \E s \in LayerSets : HasErrors(s)
  \/ CheckLayerData
  \/ ReadLayers
  \/ ReloadLayerDataNow
  \/ CheckLintErrors
  \/ RunAllLinters
  \/ RunAllLintersNow
  \/ NextTab
  \/ DrawTab
  \/ NoClick
  \/ ReloadListClicked
  \/ \E changes \in BOOLEAN : EditClicked(changes)
  \/ \E changes \in BOOLEAN : CheckboxClicked(changes)
  \/ \E changes \in BOOLEAN : EnableClicked(changes)
BY DEF GUINext, WatcherNext, LoaderNext, DrawFrame, Click, DrawButtons, EndDrawFrame

\* The initial values of what is read from the platform and from the store.
LEMMA NoDataType == NoData \in [Archs -> {Pending} \cup Versions]
BY DEF NoData

\* What a frame that reads nothing holds has the type of what it reads.
LEMMA NoReadType == NoRead \in [layers : Versions, loader : [Archs -> {Pending} \cup Versions]]
BY NoDataType, MaxChangesAssumption DEF NoRead, Versions

\* Every variable keeps its type, in every reachable state.
THEOREM GUITypeCorrect == GUISpec => []GUITypeOK
<1>1. GUISpec => []TypeOK
  BY GUIImplementsWindowsPlatform, TypeCorrect, PTL
<1>2. GUIInit /\ TypeOK => GUITypeOK
  <2> SUFFICES ASSUME GUIInit, TypeOK
               PROVE  GUITypeOK
    OBVIOUS
  <2>1. 0 \in Versions
    BY MaxChangesAssumption DEF Versions
  <2>2. [layers |-> Pending, loader |-> NoData]
          \in [layers : Copies, loader : [Archs -> {Pending} \cup Versions]]
    BY NoDataType DEF Copies
  <2>3. mLintErrors \in [LayerSets -> [layers : Copies,
                                       loader : [Archs -> {Pending} \cup Versions]]]
    BY <2>2 DEF GUIInit
  <2>4. read \in [layers : Versions, loader : [Archs -> {Pending} \cup Versions]]
    BY NoReadType DEF GUIInit
  <2> QED
    BY <2>1, <2>3, <2>4 DEF GUIInit, GUITypeOK, Copies
<1>3. GUITypeOK /\ TypeOK' /\ [GUINext]_<<vars, guiVars>> => GUITypeOK'
  <2> SUFFICES ASSUME GUITypeOK, TypeOK', [GUINext]_<<vars, guiVars>>
               PROVE  GUITypeOK'
    OBVIOUS
  <2>0. registry' \in Versions
    BY DEF TypeOK, Versions
  <2> USE NoDataType, MaxChangesAssumption, LayerSetsAssumption, <2>0
      DEF GUITypeOK, guiVars, layerSetVars, frameVars, turnVars, historyVars
  <2>1. CASE UNCHANGED guiVars
    BY <2>1
  <2>2. CASE \E s \in Stores : StoreChange(s)
    BY <2>2 DEF StoreChange, RegistryChange
  <2>3. CASE \E s \in Stores : NotifyLayerSet(s)
    <3> PICK s \in Stores : NotifyLayerSet(s)
      BY <2>3
    <3>1. overwritten' \subseteq LayerSets \X {"layers", "errors"}
      BY DEF NotifyLayerSet
    <3>2. mLayerDataIsStale' \in [LayerSets -> BOOLEAN]
      BY DEF NotifyLayerSet
    <3> QED
      BY <3>1, <3>2 DEF NotifyLayerSet
  <2>4. CASE NotifyLoaderData
    BY <2>4 DEF NotifyLoaderData
  <2>5. CASE BeginDrawFrame
    BY <2>5 DEF BeginDrawFrame
  <2>6. CASE \E s \in LayerSets : HasErrors(s)
    BY <2>6 DEF HasErrors
  <2>7. CASE CheckLayerData
    BY <2>7 DEF CheckLayerData
  <2>8. CASE ReadLayers
    BY <2>8 DEF ReadLayers
  <2>9. CASE ReloadLayerDataNow
    BY <2>9, NoReadType DEF ReloadLayerDataNow, Copies
  <2>10. CASE CheckLintErrors
    BY <2>10 DEF CheckLintErrors
  <2>11. CASE RunAllLinters
    <3> DEFINE data == [a \in Archs |-> GetLoaderData(a)]
    <3>1. data \in [Archs -> {Pending} \cup Versions]
      BY DEF GetLoaderData, TypeOK, Versions
    <3>2. [layers |-> 0, loader |-> data]
            \in [layers : Versions, loader : [Archs -> {Pending} \cup Versions]]
      BY <3>1 DEF Versions
    <3>3. [NoRead EXCEPT !.loader = data] = [layers |-> 0, loader |-> data]
      BY DEF NoRead
    <3>4. read' \in [layers : Versions, loader : [Archs -> {Pending} \cup Versions]]
      BY <2>11, <3>2, <3>3 DEF RunAllLinters
    <3> HIDE DEF data
    <3> QED
      BY <2>11, <3>4 DEF RunAllLinters
  <2>12. CASE RunAllLintersNow
    <3>1. [layers |-> mLayers[tab], loader |-> read.loader]
            \in [layers : Copies, loader : [Archs -> {Pending} \cup Versions]]
      OBVIOUS
    <3> QED
      BY <2>12, <3>1, NoReadType DEF RunAllLintersNow
  <2>13. CASE NextTab
    BY <2>13 DEF NextTab
  <2>14. CASE DrawTab
    BY <2>14 DEF DrawTab
  <2>15. CASE NoClick
    BY <2>15 DEF NoClick, LeaveTab
  <2>16. CASE ReloadListClicked
    BY <2>16 DEF ReloadListClicked, LeaveTab
  <2>17. CASE \E changes \in BOOLEAN : EditClicked(changes)
    BY <2>17 DEF EditClicked, SetAPILayers, LeaveTab
  <2>18. ASSUME NEW changes \in BOOLEAN, EditInPlace(changes)
         PROVE  /\ mLayers' \in [LayerSets -> Copies]
                /\ mLintErrorsAreStale' \in [LayerSets -> BOOLEAN]
                /\ contents' \in [Stores -> Versions]
    <3>1. registry' \in Copies /\ Edited \in Copies /\ contents[tab] \in Copies
      BY DEF Copies
    <3>2. PICK layers \in Copies : mLayers' = [mLayers EXCEPT ![tab] = layers]
      BY <2>18, <3>1 DEF EditInPlace
    <3> QED
      BY <2>18, <3>2 DEF EditInPlace, SetAPILayers
  <2>19. CASE \E changes \in BOOLEAN : CheckboxClicked(changes)
    BY <2>18, <2>19 DEF CheckboxClicked, EditInPlace, SetAPILayers, LeaveTab
  <2>20. CASE \E changes \in BOOLEAN : EnableClicked(changes)
    BY <2>18, <2>20 DEF EnableClicked, EditInPlace, SetAPILayers, LeaveTab
  <2> QED
    BY ONLY <2>1, <2>2, <2>3, <2>4, <2>5, <2>6, <2>7, <2>8, <2>9, <2>10, <2>11, <2>12, <2>13, <2>14, <2>15, <2>16, <2>17, <2>19, <2>20, GUICases, [GUINext]_<<vars, guiVars>>
<1> QED
  BY <1>1, <1>2, <1>3, PTL DEF GUISpec

(***************************************************************************)
(* Copies.  A tab's layers are its store's, and its errors are about its   *)
(* layers, except while the tab may be old.  Neither holds without the     *)
(* other: after an edit in place that was in the key already, the errors   *)
(* are about other layers, and only because the tab was old is there a     *)
(* reload to come.  And both need what ReloadLayerDataNow has read and not *)
(* yet assigned.                                                           *)
(***************************************************************************)
ReadIsFollowed ==
  gui = "reloading" =>
    \/ read.layers = contents[tab]
    \/ tab \in changed
    \/ <<tab, "layers">> \in overwritten

CopiesInv == LayersAreFollowed /\ ErrorsAreAboutLayers /\ ReadIsFollowed

\* Only another program, a click and the slot of a LayerSet change what is signalled.
LEMMA OnlyTheseChange ==
  ASSUME [GUINext]_<<vars, guiVars>>
  PROVE  \/ changed' = changed
         \/ \E s \in Stores : StoreChange(s) \/ NotifyLayerSet(s)
         \/ Click
<1> USE DEF vars, registryVars
<1>1. CASE \E s \in Stores : Callback(s)
  BY <1>1 DEF Callback, MarkStale, NotifyStale, SignalChange
<1>2. CASE LoaderNext
  BY <1>2 DEF LoaderNext, NotifyLoaderData, OnLoaderDataSignal, Fetch, CreateJob, BeginFetch,
     StopLoader, SleepLoader, SpawnLoaderData, AssignProcessToJob, AllSpawned, WaitForHelpers,
     PublishLoaderData, NotifyPublished, SignalLoaderData
<1>3. CASE \E a \in Archs : HelperExits(a)
  BY <1>3 DEF HelperExits
<1>4. CASE DrawFrame
  BY <1>4 DEF DrawFrame, BeginDrawFrame, BeginFrame, EndDrawFrame, EndFrame, HasErrors,
     CheckLayerData, ReadLayers, ReloadLayerDataNow, CheckLintErrors, RunAllLinters,
     LinterGetsLoaderData, RunAllLintersNow, NextTab, DrawTab, NoClick, DrawButtons,
     DrawLoaderData
<1>5. CASE WakeByEvent \/ WakeByInput
  BY <1>5 DEF WakeByEvent, WakeByInput
<1>6. CASE UNCHANGED <<vars, guiVars>>
  BY <1>6
<1> QED
  BY <1>1, <1>2, <1>3, <1>4, <1>5, <1>6 DEF GUINext, WatcherNext

\* Whatever watchers, reloads, lints and edits do, what may be old stays so until a
\* reload.
LEMMA CopiesStep == GUITypeOK /\ CopiesInv /\ [GUINext]_<<vars, guiVars>> => CopiesInv'
<1> SUFFICES ASSUME GUITypeOK, CopiesInv, [GUINext]_<<vars, guiVars>>
             PROVE  CopiesInv'
  OBVIOUS
<1> USE LayerSetsAssumption
    DEF GUITypeOK, CopiesInv, LayersAreFollowed, ErrorsAreAboutLayers, ReadIsFollowed,
        LayersMayBeOld, guiVars, layerSetVars, frameVars, turnVars, historyVars
<1> USE DEF vars, registryVars
<1>1. CASE \E s \in Stores : StoreChange(s)
  BY <1>1 DEF StoreChange, RegistryChange
<1>2. CASE \E s \in Stores : NotifyLayerSet(s)
  BY <1>2 DEF NotifyLayerSet, NotifyChange
<1>3. CASE UNCHANGED guiVars
  <2>1. CASE changed \subseteq changed'
    BY <1>3, <2>1
  <2>2. CASE Click
    BY <1>3, <2>1, <2>2 DEF Click, ReloadListClicked, EditClicked, CheckboxClicked,
       EnableClicked, EditInPlace, SetAPILayers, RegistryChange
  <2> QED
    BY <1>1, <1>2, <2>1, <2>2, OnlyTheseChange
<1>4. CASE NotifyLoaderData
  BY <1>4 DEF NotifyLoaderData, OnLoaderDataSignal
<1>5. CASE BeginDrawFrame
  BY <1>5 DEF BeginDrawFrame, BeginFrame
<1>6. CASE \E s \in LayerSets : HasErrors(s)
  BY <1>6 DEF HasErrors
<1>7. CASE CheckLayerData \/ ReadLayers
  BY <1>7 DEF CheckLayerData, ReadLayers
<1>8. CASE ReloadLayerDataNow
  BY <1>8 DEF ReloadLayerDataNow
<1>9. CASE CheckLintErrors
  BY <1>9 DEF CheckLintErrors
<1>10. CASE RunAllLinters
  BY <1>10 DEF RunAllLinters, LinterGetsLoaderData
<1>11. CASE RunAllLintersNow
  BY <1>11 DEF RunAllLintersNow
<1>12. CASE NextTab \/ DrawTab \/ NoClick \/ ReloadListClicked
  BY <1>12 DEF NextTab, DrawTab, NoClick, ReloadListClicked, LeaveTab
<1>13. CASE \E changes \in BOOLEAN : EditClicked(changes)
  BY <1>13 DEF EditClicked, SetAPILayers, LeaveTab, RegistryChange
<1>14. ASSUME NEW changes \in BOOLEAN,
              CheckboxClicked(changes) \/ EnableClicked(changes)
       PROVE  CopiesInv'
  <2>1. /\ EditInPlace(changes)
        /\ \A s \in LayerSets : mLayerDataIsStale[s] => mLayerDataIsStale'[s]
    BY <1>14 DEF CheckboxClicked, EnableClicked
  <2>2. CASE changes
    \* The key is written, and the watcher will say so.
    <3>1. tab \in changed' /\ changed \subseteq changed'
      BY <2>1, <2>2 DEF EditInPlace, SetAPILayers, RegistryChange
    <3>2. \A s \in LayerSets \ {tab} : mLayers'[s] = mLayers[s] /\ contents'[s] = contents[s]
                                     /\ mLintErrorsAreStale'[s] = mLintErrorsAreStale[s]
      BY <2>1, <2>2 DEF EditInPlace, SetAPILayers
    <3> QED
      BY <2>1, <3>1, <3>2 DEF EditInPlace, SetAPILayers, LeaveTab
  <2>3. CASE ~changes
    \* The key has that list: either the tab had it too, or the tab was old.
    <3>1. /\ mLayers' = [mLayers EXCEPT ![tab] = contents[tab]]
          /\ UNCHANGED <<contents, changed>>
          /\ \A s \in LayerSets : mLintErrorsAreStale[s] = mLintErrorsAreStale'[s]
      BY <2>1, <2>3 DEF EditInPlace, SetAPILayers
    <3> QED
      BY <2>1, <3>1 DEF EditInPlace, SetAPILayers, LeaveTab
  <2> QED
    BY <2>2, <2>3
<1> QED
  BY ONLY <1>1, <1>2, <1>3, <1>4, <1>5, <1>6, <1>7, <1>8, <1>9, <1>10, <1>11, <1>12, <1>13, <1>14, GUICases, [GUINext]_<<vars, guiVars>>

LEMMA CopiesInvariant == GUISpec => []CopiesInv
<1>1. GUIInit => CopiesInv
  BY DEF GUIInit, CopiesInv, LayersAreFollowed, ErrorsAreAboutLayers, ReadIsFollowed,
         LayersMayBeOld
<1> QED
  BY <1>1, CopiesStep, GUITypeCorrect, PTL DEF GUISpec

\* What an edit writes back is the store's list with one thing changed, unless the
\* tab may be old: for any number of tabs, stores, changes and clicks.
THEOREM LayersFollowStore == GUISpec => []LayersAreFollowed
<1>1. CopiesInv => LayersAreFollowed
  BY DEF CopiesInv
<1> QED
  BY <1>1, CopiesInvariant, PTL

\* The errors of a tab are about its layers unless a lint or a reload is asked for,
\* under way or overwritten, though an edit in place may ask for neither.
THEOREM ErrorsFollowLayers == GUISpec => []ErrorsAreAboutLayers
<1>1. CopiesInv => ErrorsAreAboutLayers
  BY DEF CopiesInv
<1> QED
  BY <1>1, CopiesInvariant, PTL

-----------------------------------------------------------------------------
(* The flags and the main loop.                                            *)

\* A frame is about to be drawn, or something is under way that will set the event
\* that wakes the main loop for one.
FrameComing ==
  \/ main = "top"
  \/ mNewFrameEvent
  \/ loader = "setEvent"
  \/ changed # {}
  \/ ~CallbacksIdle

\* The frame being drawn has yet to look at the tab's flags, or nothing is left of
\* what they asked for.
Served(s) ==
  \/ s \in toVisit
  \/ s = tab /\ gui \in {"check", "reloading"}
  \/ /\ mLayerDataIsStale[s] => s \in byUser
     /\ mLintErrorsAreStale[s] => s = tab /\ gui \in {"checkLint", "linting"}

FlagsInv ==
  /\ subscribed
  /\ main \in {"top", "frame", "msgWait"}
  /\ main # "frame" => gui = "tabs"
  /\ main = "msgWait" => toVisit = {}
  /\ FrameComing \/ \A s \in LayerSets : Served(s)

\* A request that comes with something that wakes the main loop is looked at in the
\* frame that follows, whoever makes it.
LEMMA FrameComes ==
  ASSUME FlagsInv, main' = main, subscribed' = subscribed, gui' = gui, toVisit' = toVisit,
         mNewFrameEvent => mNewFrameEvent',
         FrameComing => FrameComing',
         FrameComing' \/ UNCHANGED guiVars
  PROVE  FlagsInv'
<1>1. CASE FrameComing'
  BY <1>1 DEF FlagsInv
<1>2. CASE ~FrameComing'
  <2>1. UNCHANGED guiVars /\ \A s \in LayerSets : Served(s)
    BY <1>2 DEF FlagsInv
  <2>2. \A s \in LayerSets : Served(s)'
    BY <2>1 DEF Served, guiVars, layerSetVars, frameVars, turnVars, historyVars
  <2> QED
    BY <2>2 DEF FlagsInv
<1> QED
  BY <1>1, <1>2

\* While the main thread sleeps with nothing to wake it, no flag is set but one that a
\* click on Reload List left: for any number of tabs, stores and changes.
THEOREM FlagsAreServed == GUISpec => []NoFlagLeftAsleep
<1>1. GUIInit => FlagsInv
  BY DEF GUIInit, Init, FlagsInv, FrameComing
<1>2. GUITypeOK /\ FlagsInv /\ [GUINext]_<<vars, guiVars>> => FlagsInv'
  <2> SUFFICES ASSUME GUITypeOK, FlagsInv, [GUINext]_<<vars, guiVars>>
               PROVE  FlagsInv'
    OBVIOUS
  <2> USE DEF vars, registryVars, sharedVars, loaderVars, processVars, mainVars
  <2>a. callback \in [Stores -> CallbackStates]
    BY DEF GUITypeOK, TypeOK
  <2>1. CASE UNCHANGED <<vars, guiVars>>
    <3>1. FrameComing' = FrameComing
      BY <2>1 DEF FrameComing, CallbacksIdle
    <3> QED
      BY <2>1, <3>1, FrameComes DEF guiVars, frameVars, turnVars
  <2>2. ASSUME NEW s \in Stores, StoreChange(s)
        PROVE  FlagsInv'
    <3>1. FrameComing'
      BY <2>2 DEF StoreChange, RegistryChange, FrameComing
    <3> QED
      BY <2>2, <3>1, FrameComes DEF StoreChange, RegistryChange, frameVars, turnVars
  <2>3. ASSUME NEW s \in Stores, NotifyLayerSet(s)
        PROVE  FlagsInv'
    <3>1. callback'[s] = "lock"
      BY <2>3, <2>a DEF NotifyLayerSet, NotifyChange, FlagsInv
    <3>2. FrameComing'
      BY <3>1 DEF FrameComing, CallbacksIdle
    <3> QED
      BY <2>3, <3>2, FrameComes DEF NotifyLayerSet, NotifyChange, frameVars, turnVars
  <2>4. ASSUME NEW s \in Stores, Callback(s), UNCHANGED guiVars
        PROVE  FlagsInv'
    <3>1. FrameComing'
      <4>1. CASE MarkStale(s)
        <5>1. callback'[s] = "notify"
          BY <4>1, <2>a DEF MarkStale
        <5> QED
          BY <5>1 DEF FrameComing, CallbacksIdle
      <4>2. CASE NotifyStale(s)
        <5>1. callback'[s] = "setEvent"
          BY <4>2, <2>a DEF NotifyStale
        <5> QED
          BY <5>1 DEF FrameComing, CallbacksIdle
      <4>3. CASE SignalChange(s)
        BY <4>3 DEF SignalChange, FrameComing
      <4> QED
        BY <2>4, <4>1, <4>2, <4>3 DEF Callback
    <3>2. main' = main
      BY <2>4 DEF Callback, MarkStale, NotifyStale, NotifyAll, SignalChange, FlagsInv
    <3>3. subscribed' = subscribed /\ (mNewFrameEvent => mNewFrameEvent')
      BY <2>4 DEF Callback, MarkStale, NotifyStale, SignalChange
    <3> QED
      BY <2>4, <3>1, <3>2, <3>3, FrameComes DEF guiVars, frameVars, turnVars
  <2>5. CASE NotifyLoaderData
    <3>1. FrameComing'
      BY <2>5 DEF NotifyLoaderData, OnLoaderDataSignal, FrameComing
    <3> QED
      BY <2>5, <3>1, FrameComes DEF NotifyLoaderData, OnLoaderDataSignal, frameVars, turnVars
  <2>6. ASSUME Fetch \/ \E a \in Archs : HelperExits(a), UNCHANGED guiVars
        PROVE  FlagsInv'
    <3>1. /\ main' = main /\ UNCHANGED registryVars
          /\ mNewFrameEvent => mNewFrameEvent'
          /\ loader = "setEvent" => loader' = "setEvent" \/ mNewFrameEvent'
      <4>1. CASE CreateJob \/ BeginFetch \/ StopLoader \/ SleepLoader \/ AllSpawned
                 \/ WaitForHelpers \/ PublishLoaderData
        BY <4>1 DEF CreateJob, BeginFetch, StopLoader, SleepLoader, AllSpawned,
                    WaitForHelpers, PublishLoaderData
      <4>2. ASSUME NEW a \in Archs,
                   SpawnLoaderData(a) \/ AssignProcessToJob(a) \/ HelperExits(a)
            PROVE  UNCHANGED <<registryVars, sharedVars, loader, main>>
        BY <4>2 DEF SpawnLoaderData, AssignProcessToJob, HelperExits
      <4>3. CASE NotifyPublished
        BY <4>3 DEF NotifyPublished, FlagsInv
      <4>4. CASE SignalLoaderData
        BY <4>4 DEF SignalLoaderData
      <4> QED
        BY <2>6, <4>1, <4>2, <4>3, <4>4 DEF Fetch
    <3>2. FrameComing => FrameComing'
      BY <3>1 DEF FrameComing, CallbacksIdle
    <3> QED
      BY <2>6, <3>1, <3>2, FrameComes DEF guiVars, frameVars, turnVars
  <2>7. CASE BeginDrawFrame
    BY <2>7 DEF BeginDrawFrame, BeginFrame, FlagsInv, Served
  <2>8. ASSUME \/ EndDrawFrame
               \/ (WakeByEvent \/ WakeByInput) /\ UNCHANGED guiVars
        PROVE  FlagsInv'
    <3>1. CASE EndDrawFrame
      <4>1. FrameComing => FrameComing'
        BY <3>1 DEF EndDrawFrame, EndFrame, FrameComing, CallbacksIdle
      <4>2. \A s \in LayerSets : Served(s)' = Served(s)
        BY <3>1 DEF EndDrawFrame, Served, guiVars, layerSetVars, frameVars, turnVars,
                    historyVars
      <4> QED
        BY <3>1, <4>1, <4>2 DEF EndDrawFrame, EndFrame, FlagsInv, guiVars, frameVars, turnVars
    <3>2. CASE (WakeByEvent \/ WakeByInput) /\ UNCHANGED guiVars
      BY <3>2 DEF WakeByEvent, WakeByInput, FlagsInv, FrameComing, guiVars, frameVars, turnVars
    <3> QED
      BY <2>8, <3>1, <3>2
  <2>9. ASSUME NEW a \in Archs, DrawButtons(a)
        PROVE  FlagsInv'
    <3>1. loader = "setEvent" => loader' = "setEvent"
      BY <2>9 DEF DrawButtons, DrawLoaderData, EnsureLoaderDataThread
    <3>2. FrameComing => FrameComing'
      BY <2>9, <3>1 DEF DrawButtons, DrawLoaderData, FrameComing, CallbacksIdle
    <3> QED
      BY <2>9, <3>2, FrameComes DEF DrawButtons, DrawLoaderData, guiVars, frameVars, turnVars
  <2>10. ASSUME UNCHANGED <<registryVars, mNewFrameEvent, main>>,
                loader = "setEvent" => loader' = "setEvent",
                main = "frame",
                \A s \in LayerSets : Served(s) => Served(s)'
         PROVE  FlagsInv'
    <3>1. FrameComing => FrameComing'
      BY <2>10 DEF FrameComing, CallbacksIdle
    <3> QED
      BY <2>10, <3>1 DEF FlagsInv
  <2>11. gui # "tabs" => main = "frame"
    BY DEF FlagsInv
  <2>12. ASSUME NEW s \in LayerSets, HasErrors(s)
         PROVE  FlagsInv'
    <3>1. \A t \in LayerSets : Served(t) => Served(t)'
      BY <2>12 DEF HasErrors, Served, layerSetVars, historyVars
    <3> QED
      BY <2>10, <2>12, <3>1 DEF HasErrors
  <2>13. CASE CheckLayerData \/ ReadLayers \/ ReloadLayerDataNow
    <3>1. \A t \in LayerSets : Served(t) => Served(t)'
      BY <2>13 DEF CheckLayerData, ReadLayers, ReloadLayerDataNow, Served, layerSetVars,
                   turnVars, historyVars, GUITypeOK
    <3> QED
      BY <2>10, <2>11, <2>13, <3>1 DEF CheckLayerData, ReadLayers, ReloadLayerDataNow
  <2>14. CASE CheckLintErrors \/ RunAllLinters \/ RunAllLintersNow
    <3>1. \A t \in LayerSets : Served(t) => Served(t)'
      BY <2>14 DEF CheckLintErrors, RunAllLinters, RunAllLintersNow, Served, layerSetVars,
                   turnVars, historyVars, GUITypeOK
    <3>2. loader = "setEvent" => loader' = "setEvent"
      BY <2>14 DEF CheckLintErrors, RunAllLinters, RunAllLintersNow, LinterGetsLoaderData,
                   EnsureLoaderDataThread
    <3> QED
      BY <2>10, <2>11, <2>14, <3>1, <3>2
         DEF CheckLintErrors, RunAllLinters, RunAllLintersNow, LinterGetsLoaderData
  <2>15. CASE NextTab \/ DrawTab \/ NoClick \/ ReloadListClicked
    <3>1. \A t \in LayerSets : Served(t) => Served(t)'
      BY <2>15 DEF NextTab, DrawTab, NoClick, ReloadListClicked, LeaveTab, Served,
                   layerSetVars, turnVars, historyVars, GUITypeOK
    <3> QED
      BY <2>10, <2>11, <2>15, <3>1 DEF NextTab, DrawTab, NoClick, ReloadListClicked, LeaveTab
  <2>16. ASSUME NEW changes \in BOOLEAN,
                EditClicked(changes) \/ CheckboxClicked(changes) \/ EnableClicked(changes)
         PROVE  FlagsInv'
    <3>1. SetAPILayers(changes)
      BY <2>16 DEF EditClicked, CheckboxClicked, EnableClicked, EditInPlace
    <3>2. CASE changes
      <4>1. FrameComing'
        BY <3>1, <3>2 DEF SetAPILayers, RegistryChange, FrameComing
      <4> QED
        BY <2>11, <3>1, <3>2, <4>1 DEF SetAPILayers, RegistryChange, LeaveTab, FlagsInv
    <3>3. CASE ~changes
      \* No flag is set.
      <4>1. UNCHANGED <<mLayerDataIsStale, mLintErrorsAreStale>>
        BY <2>16, <3>3 DEF EditClicked, CheckboxClicked, EnableClicked, EditInPlace, GUITypeOK
      <4>2. \A t \in LayerSets : Served(t) => Served(t)'
        BY <3>1, <4>1 DEF SetAPILayers, LeaveTab, Served, historyVars
      <4> QED
        BY <2>10, <2>11, <3>1, <3>3, <4>2 DEF SetAPILayers, LeaveTab
    <3> QED
      BY <3>2, <3>3
  <2> QED
    BY ONLY <2>1, <2>2, <2>3, <2>4, <2>5, <2>6, <2>7, <2>8, <2>9, <2>12, <2>13, <2>14,
            <2>15, <2>16, [GUINext]_<<vars, guiVars>>
       DEF GUINext, WatcherNext, LoaderNext, DrawFrame, Click
<1>3. FlagsInv => NoFlagLeftAsleep
  BY DEF FlagsInv, FrameComing, Served, NoFlagLeftAsleep
<1> QED
  BY <1>1, <1>2, <1>3, GUITypeCorrect, PTL DEF GUISpec
=============================================================================
