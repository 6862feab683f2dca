--------------------------- MODULE WindowsPlatform ---------------------------
(***************************************************************************)
(* The main loop of the application and its background fetch of loader     *)
(* data (src/windows/WindowsPlatform.cpp).                                 *)
(*                                                                         *)
(* Three kinds of actor share mLoaderDataIsStale and mLoaderData, under    *)
(* mMutex: the main thread, which draws frames and asks for loader data;   *)
(* the threads that run the registry watchers' callbacks, one store at a   *)
(* time each; and the loader-data thread, which runs one helper process    *)
(* per architecture and publishes what they print.                         *)
(*                                                                         *)
(* What a helper prints is abstracted to the version of the registry it    *)
(* read: the number of changes made by then.  A failed helper is an entry  *)
(* like any other (the code caches the error), so entries are versions and *)
(* Pending stands for an absent entry as well as for PendingError.  Every  *)
(* critical section of the code is one step, so mMutex is not a variable.  *)
(*                                                                         *)
(* A frame asks for every architecture, as the tabs of the stores that are *)
(* not registry keys do; the tab of a key asks for the key's own.          *)
(***************************************************************************)
EXTENDS Integers

CONSTANTS Archs,          \* GetArchitectures()
          Stores,         \* the registry stores that have a watcher
          MaxChanges,     \* bound: changes of the registry in a behaviour
          HelpersMayHang  \* whether a helper process may fail to exit

ASSUME MaxChangesAssumption == MaxChanges \in Nat
ASSUME HelpersMayHangAssumption == HelpersMayHang \in BOOLEAN

Pending == -1

VARIABLES
  \* the registry and its watchers
  registry,            \* version of the stores' contents
  changed,             \* stores whose watcher event is set
  callback,            \* progress of each store's watcher callback
  subscribed,          \* MainLoop's changeSubscriptions are connected
  handled,             \* history: registry version at the last MarkStale
  \* shared by the threads
  mLoaderDataIsStale,
  mLoaderData,
  mNewFrameEvent,
  \* the loader-data thread and its helper processes
  loader,              \* control state of LoaderDataThreadMain
  toSpawn,             \* architectures its for loop has yet to spawn
  newLoaderData,       \* with what exited helpers left in their pipes
  helper,              \* state of each architecture's helper process
  unassigned,          \* created, AssignProcessToJobObject not yet called
  inJob,               \* helpers in mLoaderDataJob
  job,                 \* mLoaderDataJob
  stopRequested,       \* stop token of mLoaderDataThread
  \* the main thread
  main,                \* control state of MainLoop, then of the destructor
  mWindowClosed,
  toDraw,              \* architectures this frame has yet to ask for
  shown,               \* what the last frame got for each architecture
  toReport,            \* architectures a report may still wait for
  waitArch             \* argument of the running WaitForLoaderData

registryVars == <<registry, changed, callback, subscribed, handled>>
sharedVars == <<mLoaderDataIsStale, mLoaderData, mNewFrameEvent>>
processVars == <<newLoaderData, helper, unassigned, inJob>>
loaderVars == <<loader, toSpawn, processVars, job, stopRequested>>
mainVars == <<main, mWindowClosed, toDraw, shown, toReport, waitArch>>
vars == <<registryVars, sharedVars, loaderVars, mainVars>>

CallbackStates == {"idle", "lock", "notify", "setEvent"}
LoaderStates ==
  {"notStarted", "start", "check", "asleep", "spawn", "wait", "publish",
   "notify", "signal", "setEvent", "stopped"}
HelperStates == {"none", "running", "hung", "exited"}
MainStates ==
  {"top", "frame", "waitCheck", "waitAsleep", "msgWait", "closing",
   "stopping", "joining", "exited"}

NoData == [a \in Archs |-> Pending]

TypeOK ==
  /\ registry \in 0..MaxChanges
  /\ changed \subseteq Stores
  /\ callback \in [Stores -> CallbackStates]
  /\ subscribed \in BOOLEAN
  /\ handled \in 0..MaxChanges
  /\ mLoaderDataIsStale \in BOOLEAN
  /\ mLoaderData \in [Archs -> {Pending} \cup 0..MaxChanges]
  /\ mNewFrameEvent \in BOOLEAN
  /\ loader \in LoaderStates
  /\ toSpawn \subseteq Archs
  /\ newLoaderData \in [Archs -> {Pending} \cup 0..MaxChanges]
  /\ helper \in [Archs -> HelperStates]
  /\ unassigned \subseteq Archs
  /\ inJob \subseteq Archs
  /\ job \in {"none", "open", "closed"}
  /\ stopRequested \in BOOLEAN
  /\ main \in MainStates
  /\ mWindowClosed \in BOOLEAN
  /\ toDraw \subseteq Archs
  /\ shown \in [Archs -> {Pending} \cup 0..MaxChanges]
  /\ toReport \subseteq Archs
  /\ waitArch \in Archs

Init ==
  /\ registry = 0
  /\ changed = {}
  /\ callback = [s \in Stores |-> "idle"]
  /\ subscribed = TRUE
  /\ handled = 0
  /\ mLoaderDataIsStale = TRUE
  /\ mLoaderData = NoData
  /\ mNewFrameEvent = FALSE
  /\ loader = "notStarted"
  /\ toSpawn = {}
  /\ newLoaderData = NoData
  /\ helper = [a \in Archs |-> "none"]
  /\ unassigned = {}
  /\ inJob = {}
  /\ job = "none"
  /\ stopRequested = FALSE
  /\ main = "top"
  /\ mWindowClosed = FALSE
  /\ toDraw = {}
  /\ shown = NoData
  /\ toReport = {}
  /\ waitArch \in Archs

-----------------------------------------------------------------------------
(* mLoaderDataCondition.  Both a fetch that completes and a change that is *)
(* handled notify it; the loader-data thread and WaitForLoaderData sleep   *)
(* on it.  A woken thread re-evaluates its predicate.                      *)

NotifyAll ==
  /\ loader' = IF loader = "asleep" THEN "check" ELSE loader
  /\ main' = IF main = "waitAsleep" THEN "waitCheck" ELSE main

(***************************************************************************)
(* The registry.  A write sets the event the store's watcher waits for; a  *)
(* watcher (wil) clears and re-arms it before it runs the callback, and    *)
(* does not run a callback while the last one is running.                  *)
(***************************************************************************)
RegistryChange(s) ==
  /\ registry < MaxChanges
  /\ registry' = registry + 1
  /\ changed' = changed \cup {s}
  /\ UNCHANGED <<callback, subscribed, handled, sharedVars, loaderVars, mainVars>>

\* NotifyChange: the signal finds MainLoop's slot connected, or no longer.
NotifyChange(s) ==
  /\ s \in changed
  /\ callback[s] = "idle"
  /\ changed' = changed \ {s}
  /\ callback' = [callback EXCEPT ![s] = IF subscribed THEN "lock" ELSE "idle"]
  /\ UNCHANGED <<registry, subscribed, handled, sharedVars, loaderVars, mainVars>>

MarkStale(s) ==
  /\ callback[s] = "lock"
  /\ callback' = [callback EXCEPT ![s] = "notify"]
  /\ mLoaderDataIsStale' = TRUE
  /\ mLoaderData' = NoData
  /\ handled' = registry
  /\ UNCHANGED <<registry, changed, subscribed, mNewFrameEvent, loaderVars, mainVars>>

\* Mutant: the change is not notified.
NotifyStaleForgotten(s) ==
  /\ callback[s] = "notify"
  /\ callback' = [callback EXCEPT ![s] = "setEvent"]
  /\ UNCHANGED <<registry, changed, subscribed, handled, sharedVars, loaderVars, mainVars>>

NotifyStale(s) ==
  /\ callback[s] = "notify"
  /\ callback' = [callback EXCEPT ![s] = "setEvent"]
  /\ NotifyAll
  /\ UNCHANGED <<registry, changed, subscribed, handled, sharedVars, toSpawn,
                 processVars, job, stopRequested,
                 mWindowClosed, toDraw, shown, toReport, waitArch>>

SignalChange(s) ==
  /\ callback[s] = "setEvent"
  /\ callback' = [callback EXCEPT ![s] = "idle"]
  /\ mNewFrameEvent' = TRUE
  /\ UNCHANGED <<registry, changed, subscribed, handled,
                 mLoaderDataIsStale, mLoaderData, loaderVars, mainVars>>

Callback(s) == MarkStale(s) \/ NotifyStale(s) \/ SignalChange(s)

-----------------------------------------------------------------------------
(* The loader-data thread.                                                 *)

\* Gets the token to de-elevate, and creates the job that kills its
\* processes when its handle is closed.
CreateJob ==
  /\ loader = "start"
  /\ loader' = "check"
  /\ job' = "open"
  /\ UNCHANGED <<registryVars, sharedVars, toSpawn, processVars, stopRequested, mainVars>>

\* wait(lock, token, predicate): the predicate decides even after a stop
\* request, so a thread asked to stop while the data is stale fetches again.
BeginFetch ==
  /\ loader = "check"
  /\ mLoaderDataIsStale
  /\ mLoaderDataIsStale' = FALSE
  /\ loader' = "spawn"
  /\ toSpawn' = Archs
  /\ UNCHANGED <<registryVars, mLoaderData, mNewFrameEvent, processVars, job,
                 stopRequested, mainVars>>

StopLoader ==
  /\ loader = "check"
  /\ ~mLoaderDataIsStale
  /\ stopRequested
  /\ loader' = "stopped"
  /\ UNCHANGED <<registryVars, sharedVars, toSpawn, processVars, job, stopRequested, mainVars>>

SleepLoader ==
  /\ loader = "check"
  /\ ~mLoaderDataIsStale
  /\ ~stopRequested
  /\ loader' = "asleep"
  /\ UNCHANGED <<registryVars, sharedVars, toSpawn, processVars, job, stopRequested, mainVars>>

\* SpawnLoaderData, up to CreateProcessWithToken; any of its early returns
\* leaves an error for the architecture.
SpawnLoaderData(a) ==
  /\ loader = "spawn"
  /\ a \in toSpawn
  /\ unassigned = {}
  /\ toSpawn' = toSpawn \ {a}
  /\ \/ /\ helper' = [helper EXCEPT ![a] = "running"]
        /\ unassigned' = {a}
        /\ UNCHANGED newLoaderData
     \/ /\ newLoaderData' = [newLoaderData EXCEPT ![a] = registry]
        /\ UNCHANGED <<helper, unassigned>>
  /\ UNCHANGED <<registryVars, sharedVars, loader, inJob, job, stopRequested, mainVars>>

\* The result of AssignProcessToJobObject is ignored; it needs an open job.
AssignProcessToJob(a) ==
  /\ a \in unassigned
  /\ unassigned' = {}
  /\ inJob' = IF job = "open" THEN inJob \cup {a} ELSE inJob
  /\ UNCHANGED <<registryVars, sharedVars, loader, toSpawn, newLoaderData, helper,
                 job, stopRequested, mainVars>>

AllSpawned ==
  /\ loader = "spawn"
  /\ toSpawn = {}
  /\ unassigned = {}
  /\ loader' = "wait"
  /\ UNCHANGED <<registryVars, sharedVars, toSpawn, processVars, job, stopRequested, mainVars>>

\* A helper reads the registry through the loader, prints and exits.
HelperExits(a) ==
  /\ helper[a] = "running"
  /\ helper' = [helper EXCEPT ![a] = "exited"]
  /\ newLoaderData' = [newLoaderData EXCEPT ![a] = registry]
  /\ UNCHANGED <<registryVars, sharedVars, loader, toSpawn, unassigned, inJob,
                 job, stopRequested, mainVars>>

HelperHangs(a) ==
  /\ HelpersMayHang
  /\ helper[a] = "running"
  /\ helper' = [helper EXCEPT ![a] = "hung"]
  /\ UNCHANGED <<registryVars, sharedVars, loader, toSpawn, newLoaderData, unassigned,
                 inJob, job, stopRequested, mainVars>>

\* LoaderDataProcess::Wait of every helper, with no timeout.
WaitForHelpers ==
  /\ loader = "wait"
  /\ \A a \in Archs : helper[a] \in {"none", "exited"}
  /\ loader' = "publish"
  /\ UNCHANGED <<registryVars, sharedVars, toSpawn, processVars, job, stopRequested, mainVars>>

\* Mutant: publishing clears the flag, as if nothing could have changed since.
PublishLoaderDataAsFresh ==
  /\ loader = "publish"
  /\ loader' = "notify"
  /\ mLoaderData' = newLoaderData
  /\ mLoaderDataIsStale' = FALSE
  /\ newLoaderData' = NoData
  /\ helper' = [a \in Archs |-> "none"]
  /\ inJob' = {}
  /\ UNCHANGED <<registryVars, mNewFrameEvent, toSpawn, unassigned, job, stopRequested,
                 mainVars>>

\* Mutant: only the helpers' output is published, without the failures to spawn.
PublishLoaderDataOfHelpers ==
  /\ loader = "publish"
  /\ loader' = "notify"
  /\ mLoaderData' = [a \in {x \in Archs : helper[x] = "exited"} |-> newLoaderData[a]]
  /\ newLoaderData' = NoData
  /\ helper' = [a \in Archs |-> "none"]
  /\ inJob' = {}
  /\ UNCHANGED <<registryVars, mLoaderDataIsStale, mNewFrameEvent, toSpawn, unassigned,
                 job, stopRequested, mainVars>>

\* newLoaderData is moved from; the handles of the helpers have been closed.
PublishLoaderData ==
  /\ loader = "publish"
  /\ loader' = "notify"
  /\ mLoaderData' = newLoaderData
  /\ newLoaderData' = NoData
  /\ helper' = [a \in Archs |-> "none"]
  /\ inJob' = {}
  /\ UNCHANGED <<registryVars, mLoaderDataIsStale, mNewFrameEvent, toSpawn, unassigned,
                 job, stopRequested, mainVars>>

NotifyPublished ==
  /\ loader = "notify"
  /\ loader' = "signal"
  /\ main' = IF main = "waitAsleep" THEN "waitCheck" ELSE main
  /\ UNCHANGED <<registryVars, sharedVars, toSpawn, processVars, job, stopRequested,
                 mWindowClosed, toDraw, shown, toReport, waitArch>>

\* The slots of mOnLoaderDataSignal are the GUI's.
OnLoaderDataSignal ==
  /\ loader = "signal"
  /\ loader' = "setEvent"
  /\ UNCHANGED <<registryVars, sharedVars, toSpawn, processVars, job, stopRequested, mainVars>>

\* Mutant: the main loop is not woken.
SignalLoaderDataForgotten ==
  /\ loader = "setEvent"
  /\ loader' = "check"
  /\ UNCHANGED <<registryVars, sharedVars, toSpawn, processVars, job, stopRequested, mainVars>>

SignalLoaderData ==
  /\ loader = "setEvent"
  /\ loader' = "check"
  /\ mNewFrameEvent' = TRUE
  /\ UNCHANGED <<registryVars, mLoaderDataIsStale, mLoaderData, toSpawn, processVars,
                 job, stopRequested, mainVars>>

Fetch ==
  \/ CreateJob \/ BeginFetch \/ StopLoader \/ SleepLoader
  \/ \E a \in Archs : SpawnLoaderData(a) \/ AssignProcessToJob(a)
  \/ AllSpawned \/ WaitForHelpers \/ PublishLoaderData \/ NotifyPublished
  \/ SignalLoaderData

Loader == Fetch \/ OnLoaderDataSignal

-----------------------------------------------------------------------------
(* The main thread.                                                        *)

EnsureLoaderDataThread ==
  loader' = IF loader = "notStarted" THEN "start" ELSE loader

\* WM_CLOSE, dispatched by PeekMessage at the top of the loop.
WindowClosed ==
  /\ main = "top"
  /\ ~mWindowClosed
  /\ mWindowClosed' = TRUE
  /\ UNCHANGED <<registryVars, sharedVars, loaderVars, main, toDraw, shown, toReport, waitArch>>

BeginFrame ==
  /\ main = "top"
  /\ ~mWindowClosed
  /\ main' = "frame"
  /\ mNewFrameEvent' = FALSE
  /\ toDraw' = Archs
  /\ toReport' = Archs
  /\ UNCHANGED <<registryVars, mLoaderDataIsStale, mLoaderData, loaderVars,
                 mWindowClosed, shown, waitArch>>

GetLoaderData(a) == IF mLoaderDataIsStale THEN Pending ELSE mLoaderData[a]

\* A linter calls GetLoaderData.
LinterGetsLoaderData ==
  /\ main = "frame"
  /\ EnsureLoaderDataThread
  /\ UNCHANGED <<registryVars, sharedVars, toSpawn, processVars, job, stopRequested, mainVars>>

\* The frame shows what GetLoaderData returns for a.
DrawLoaderData(a) ==
  /\ main = "frame"
  /\ a \in toDraw
  /\ EnsureLoaderDataThread
  /\ shown' = [shown EXCEPT ![a] = GetLoaderData(a)]
  /\ toDraw' = toDraw \ {a}
  /\ UNCHANGED <<registryVars, sharedVars, toSpawn, processVars, job, stopRequested,
                 main, mWindowClosed, toReport, waitArch>>

\* Save Report, later in the frame, waits for each architecture once; the
\* predicate is evaluated first.
BeginWaitForLoaderData(a) ==
  /\ main = "frame"
  /\ toDraw = {}
  /\ a \in toReport
  /\ toReport' = toReport \ {a}
  /\ EnsureLoaderDataThread
  /\ main' = "waitCheck"
  /\ waitArch' = a
  /\ UNCHANGED <<registryVars, sharedVars, toSpawn, processVars, job, stopRequested,
                 mWindowClosed, toDraw, shown>>

\* Returns the entry, stale or not; sleeps if there is none.
CheckWaitForLoaderData ==
  /\ main = "waitCheck"
  /\ main' = IF mLoaderData[waitArch] = Pending THEN "waitAsleep" ELSE "frame"
  /\ UNCHANGED <<registryVars, sharedVars, loaderVars, mWindowClosed, toDraw, shown, toReport, waitArch>>

\* The deadline passes: the predicate is evaluated once more.
WaitForLoaderDataTimeout ==
  /\ main \in {"waitCheck", "waitAsleep"}
  /\ main' = "frame"
  /\ UNCHANGED <<registryVars, sharedVars, loaderVars, mWindowClosed, toDraw, shown, toReport, waitArch>>

\* Mutant: the event is reset after the frame is drawn.
EndFrameThenReset ==
  /\ main = "frame"
  /\ toDraw = {}
  /\ main' = "msgWait"
  /\ mNewFrameEvent' = FALSE
  /\ toReport' = {}
  /\ UNCHANGED <<registryVars, mLoaderDataIsStale, mLoaderData, loaderVars,
                 mWindowClosed, toDraw, shown, waitArch>>

EndFrame ==
  /\ main = "frame"
  /\ toDraw = {}
  /\ main' = "msgWait"
  /\ toReport' = {}
  /\ UNCHANGED <<registryVars, sharedVars, loaderVars, mWindowClosed, toDraw, shown, waitArch>>

\* MsgWaitForMultipleObjects returns for the event, which it resets ...
WakeByEvent ==
  /\ main = "msgWait"
  /\ mNewFrameEvent
  /\ mNewFrameEvent' = FALSE
  /\ main' = "top"
  /\ UNCHANGED <<registryVars, mLoaderDataIsStale, mLoaderData, loaderVars,
                 mWindowClosed, toDraw, shown, toReport, waitArch>>

\* ... or for input.
WakeByInput ==
  /\ main = "msgWait"
  /\ main' = "top"
  /\ UNCHANGED <<registryVars, sharedVars, loaderVars, mWindowClosed, toDraw, shown, toReport, waitArch>>

\* MainLoop returns: its subscriptions are disconnected.
LeaveMainLoop ==
  /\ main = "top"
  /\ mWindowClosed
  /\ main' = "closing"
  /\ subscribed' = FALSE
  /\ UNCHANGED <<registry, changed, callback, handled, sharedVars, loaderVars,
                 mWindowClosed, toDraw, shown, toReport, waitArch>>

\* Mutant: the job is created without KILL_ON_JOB_CLOSE.
CloseJobKillsNothing ==
  /\ main = "closing"
  /\ main' = "stopping"
  /\ job' = IF job = "open" THEN "closed" ELSE job
  /\ UNCHANGED <<registryVars, sharedVars, loader, toSpawn, processVars,
                 stopRequested, mWindowClosed, toDraw, shown, toReport, waitArch>>

\* The destructor, in reverse order of declaration: mLoaderDataJob, whose
\* helpers are killed and leave an error ...
CloseJob ==
  LET killed == {a \in inJob : helper[a] \in {"running", "hung"}}
  IN /\ main = "closing"
     /\ main' = "stopping"
     /\ job' = IF job = "open" THEN "closed" ELSE job
     /\ helper' = [a \in Archs |-> IF a \in killed THEN "exited" ELSE helper[a]]
     /\ newLoaderData' =
          [a \in Archs |-> IF a \in killed THEN registry ELSE newLoaderData[a]]
     /\ UNCHANGED <<registryVars, sharedVars, loader, toSpawn, unassigned, inJob,
                    stopRequested, mWindowClosed, toDraw, shown, toReport, waitArch>>

\* Mutant: the condition variable is waited for without the stop token.
RequestStopWakesNobody ==
  /\ main = "stopping"
  /\ main' = "joining"
  /\ stopRequested' = TRUE
  /\ UNCHANGED <<registryVars, sharedVars, loader, toSpawn, processVars, job,
                 mWindowClosed, toDraw, shown, toReport, waitArch>>

\* ... then mLoaderDataThread, whose destructor requests a stop, which
\* wakes the thread, and joins it.
RequestStop ==
  /\ main = "stopping"
  /\ main' = "joining"
  /\ stopRequested' = TRUE
  /\ loader' = IF loader = "asleep" THEN "check" ELSE loader
  /\ UNCHANGED <<registryVars, sharedVars, toSpawn, processVars, job,
                 mWindowClosed, toDraw, shown, toReport, waitArch>>

Join ==
  /\ main = "joining"
  /\ loader \in {"notStarted", "stopped"}
  /\ main' = "exited"
  /\ UNCHANGED <<registryVars, sharedVars, loaderVars, mWindowClosed, toDraw, shown, toReport, waitArch>>

Frame ==
  \/ BeginFrame \/ EndFrame
  \/ \E a \in Archs : DrawLoaderData(a)
  \/ CheckWaitForLoaderData \/ WaitForLoaderDataTimeout

Destroy == LeaveMainLoop \/ CloseJob \/ RequestStop \/ Join

Main ==
  \/ Frame \/ WakeByEvent \/ Destroy
  \/ WindowClosed \/ WakeByInput \/ LinterGetsLoaderData
  \/ \E a \in Archs : BeginWaitForLoaderData(a)

-----------------------------------------------------------------------------
Exited == main = "exited" /\ UNCHANGED vars

Next ==
  \/ \E s \in Stores : RegistryChange(s) \/ NotifyChange(s) \/ Callback(s)
  \/ Loader
  \/ \E a \in Archs : HelperExits(a) \/ HelperHangs(a)
  \/ Main
  \/ Exited

Spec == Init /\ [][Next]_vars

(***************************************************************************)
(* Fairness.  Threads are scheduled, the watchers' callbacks are run, and  *)
(* a helper that does not hang exits.  Nothing obliges the user to close   *)
(* the window, to save a report or to move the mouse, nor anything to      *)
(* change the registry.                                                    *)
(***************************************************************************)
Fairness ==
  /\ \A s \in Stores : WF_vars(NotifyChange(s) \/ Callback(s))
  /\ WF_vars(Loader)
  /\ \A a \in Archs : WF_vars(HelperExits(a) \/ HelperHangs(a))
  /\ WF_vars(Frame \/ WakeByEvent \/ Destroy)

FairSpec == Spec /\ Fairness

-----------------------------------------------------------------------------
(* Safety.                                                                 *)

CallbacksIdle == \A s \in Stores : callback[s] = "idle"

\* LoaderDataThreadMain and the watchers' slots of MainLoop: once the thread
\* has no fetch to make or to publish, every architecture has an entry, read
\* from the registry no earlier than the last change that was handled.  A
\* result that was overtaken by a change is replaced before the thread rests.
FreshWhenSettled ==
  ~mLoaderDataIsStale /\ loader \in {"check", "asleep", "notify", "signal", "setEvent", "stopped"}
    => \A a \in Archs : mLoaderData[a] # Pending /\ mLoaderData[a] >= handled

\* mLoaderDataCondition: a thread sleeps on it while its predicate holds only
\* until a thread that made it hold, and released mMutex, notifies it.
NoLostNotify ==
  /\ loader = "asleep" /\ (mLoaderDataIsStale \/ stopRequested)
       => \E s \in Stores : callback[s] = "notify"
  /\ main = "waitAsleep" /\ mLoaderData[waitArch] # Pending
       => loader = "notify"

\* MainLoop: it resets mNewFrameEvent before a frame asks for loader data, so
\* that when everything is at rest and no event is set, what is on the screen
\* is what GetLoaderData would return.
NoStaleScreen ==
  main = "msgWait" /\ ~mNewFrameEvent /\ loader = "asleep" /\ CallbacksIdle
    => \A a \in Archs : shown[a] = GetLoaderData(a)

\* The order of the members of WindowsPlatform: the handle of the job is closed
\* before the thread is joined, so that by then no process of the job runs.  (A
\* thread that creates the job after that leaves it open.)
KilledBeforeJoin ==
  main \in {"joining", "exited"} /\ job # "open"
    => \A a \in inJob : helper[a] \notin {"running", "hung"}

-----------------------------------------------------------------------------
(* Liveness.                                                               *)

\* The watchers, the thread and MainLoop: when the registry no longer changes,
\* the window stays open and no helper hangs, every architecture's data ends up
\* on the screen and is what a helper read after the last change.
EventuallyShown ==
  <>[](\/ main \in {"closing", "stopping", "joining", "exited"}
       \/ \E a \in Archs : helper[a] = "hung"
       \/ \A a \in Archs : shown[a] = registry)

\* WM_CLOSE to the end of ~WindowsPlatform: the program exits, whatever the
\* loader-data thread is doing.  Only a helper that hangs keeps it at the join,
\* and only if it was not in the job when that was closed.
CloseExits ==
  (main = "closing")
    ~> \/ main = "exited"
       \/ /\ main = "joining"
          /\ \E a \in Archs : helper[a] = "hung" /\ (a \in inJob => job = "open")
=============================================================================
