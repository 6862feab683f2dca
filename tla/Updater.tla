------------------------------- MODULE Updater -------------------------------
(***************************************************************************)
(* The automatic update (windows/CheckForUpdates.cpp): the first frame     *)
(* starts the updater in a job, and every FramesPerCheck frames the main   *)
(* thread asks the job's completion port whether it still runs and brings  *)
(* a window of it to the front (WindowsPlatform::BeforeFrame).             *)
(*                                                                         *)
(* The updater and the children that it starts run beside this.  It has    *)
(* inherited a handle with which it may terminate the program.  Until it   *)
(* is resumed nobody else takes part, so what comes before is one step.    *)
(***************************************************************************)
EXTENDS Integers, Sequences, FiniteSets

CONSTANTS Processes,       \* that the job may come to have
          updater,         \* the one that the program starts
          FramesPerCheck   \* 60 in the code

ASSUME UpdaterAssumption ==
  /\ updater \in Processes
  /\ IsFiniteSet(Processes)
  /\ FramesPerCheck \in Nat \ {0}

VARIABLES
  pc,                    \* of the main thread
  mUpdater,              \* whether the optional has a value
  mJob,                  \* whether that value has a job and its port
  mHaveActivatedWindow,
  mFrameCounter,         \* modulo FramesPerCheck
  state,                 \* of each process
  inJob, windows,        \* processes in the job, and those that have a window
  messages,              \* queued at the completion port
  launches, activations  \* history: how often each was done

members == <<mUpdater, mJob, mHaveActivatedWindow, mFrameCounter>>
processes == <<state, inJob, windows>>
vars == <<pc, members, processes, messages, launches, activations>>

Init ==
  /\ pc = "beforeFrame"
  /\ mUpdater = FALSE /\ mJob = FALSE /\ mHaveActivatedWindow = FALSE
  /\ mFrameCounter = 0
  /\ state = [p \in Processes |-> "none"]
  /\ inJob = {} /\ windows = {}
  /\ messages = <<>>
  /\ launches = 0 /\ activations = 0

\* A message to the port; Windows does not guarantee that it arrives.
Post(message) == messages' \in {messages, Append(messages, message)}

-----------------------------------------------------------------------------
(* CheckForUpdates.                                                        *)

Checking == pc = "beforeFrame" /\ ~mUpdater

\* There is no updater, it is not signed, a file tells not to run it, or
\* CreateProcessW fails: the optional gets a value that has no job.
StartNothing ==
  /\ Checking
  /\ mUpdater' = TRUE
  /\ pc' = "count"
  /\ UNCHANGED <<mJob, mHaveActivatedWindow, mFrameCounter, processes, messages,
                 launches, activations>>

\* CreateProcessW, AssignProcessToJobObject and ResumeThread.
StartUpdater ==
  /\ Checking
  /\ state' = [state EXCEPT ![updater] = "running"]
  /\ inJob' = inJob \cup {updater}
  /\ launches' = launches + 1
  /\ Post("NewProcess")
  /\ mUpdater' = TRUE /\ mJob' = TRUE
  /\ pc' = "count"
  /\ UNCHANGED <<mHaveActivatedWindow, mFrameCounter, windows, activations>>

\* Another call fails, and nobody catches what CheckBOOL throws.
ThrowBeforeStart ==
  /\ Checking
  /\ pc' = "terminated"
  /\ UNCHANGED <<members, processes, messages, launches, activations>>

\* Mutant: the failure is returned, like that of CreateProcessW.
AssignFailsAndReturns ==
  /\ Checking
  /\ state' = [state EXCEPT ![updater] = "suspended"]
  /\ launches' = launches + 1
  /\ mUpdater' = TRUE
  /\ pc' = "count"
  /\ UNCHANGED <<mJob, mHaveActivatedWindow, mFrameCounter, inJob, windows, messages,
                 activations>>

\* AssignProcessToJobObject fails: the updater is left suspended.
AssignFails ==
  /\ Checking
  /\ state' = [state EXCEPT ![updater] = "suspended"]
  /\ launches' = launches + 1
  /\ pc' = "terminated"
  /\ UNCHANGED <<members, inJob, windows, messages, activations>>

-----------------------------------------------------------------------------
(* BeforeFrame, with ActivateWindowIfVisible.                              *)

SkipCheckForUpdates ==
  /\ pc = "beforeFrame" /\ mUpdater
  /\ pc' = "count"
  /\ UNCHANGED <<members, processes, messages, launches, activations>>

\* Whether ActivateWindowIfVisible has something to do.
Looks == mJob /\ ~mHaveActivatedWindow

\* Mutant: the counter is compared with its bound before it is advanced.
CountFrameLate ==
  /\ pc = "count"
  /\ mFrameCounter' = IF mFrameCounter = FramesPerCheck THEN 0 ELSE mFrameCounter + 1
  /\ pc' = IF mFrameCounter' = 0 /\ Looks THEN "check" ELSE "beforeFrame"
  /\ UNCHANGED <<mUpdater, mJob, mHaveActivatedWindow, processes, messages,
                 launches, activations>>

CountFrame ==
  /\ pc = "count"
  /\ mFrameCounter' = (mFrameCounter + 1) % FramesPerCheck
  /\ pc' = IF mFrameCounter' = 0 /\ Looks THEN "check" ELSE "beforeFrame"
  /\ UNCHANGED <<mUpdater, mJob, mHaveActivatedWindow, processes, messages,
                 launches, activations>>

\* GetQueuedCompletionStatus does not wait: an empty queue is a failure.
IsRunning == messages # <<>> /\ Head(messages) # "ActiveProcessZero"

\* Mutant: the message stays in the queue.
PeekMessage == UNCHANGED messages

DequeueMessage == messages' = IF messages = <<>> THEN <<>> ELSE Tail(messages)

\* Mutant: the optional is reset, and not its value.
ForgetUpdater == mUpdater' = FALSE /\ mJob' = FALSE

\* *this = {} closes the handles of the job and of the port.
LetGo == mJob' = FALSE /\ UNCHANGED mUpdater

CheckRunning ==
  /\ pc = "check"
  /\ IF IsRunning
     THEN pc' = "enumerate" /\ UNCHANGED <<mUpdater, mJob>>
     ELSE pc' = "beforeFrame" /\ LetGo
  /\ DequeueMessage
  /\ UNCHANGED <<mHaveActivatedWindow, mFrameCounter, processes, launches, activations>>

\* SetForegroundWindow, for the first window that is found; hidden ones are, too.
Activate ==
  /\ windows \cap inJob # {}
  /\ activations' = activations + 1
  /\ mHaveActivatedWindow' = TRUE

FindNone ==
  /\ windows \cap inJob = {}
  /\ UNCHANGED <<activations, mHaveActivatedWindow>>

EnumWindows ==
  /\ pc = "enumerate"
  /\ Activate \/ FindNone
  /\ pc' = "beforeFrame"
  /\ UNCHANGED <<mUpdater, mJob, mFrameCounter, processes, messages, launches>>

CloseWindow ==
  /\ pc = "beforeFrame" /\ mUpdater
  /\ pc' = "closed"
  /\ UNCHANGED <<members, processes, messages, launches, activations>>

-----------------------------------------------------------------------------
(* The processes of the job.  The port is there until it is let go.        *)

Running(p) == p \in inJob /\ state[p] = "running"

\* A child is in the job of its parent.
StartChild(p) ==
  /\ \E parent \in Processes : Running(parent)
  /\ state[p] = "none"
  /\ state' = [state EXCEPT ![p] = "running"]
  /\ inJob' = inJob \cup {p}
  /\ Post("NewProcess")
  /\ UNCHANGED <<pc, members, windows, launches, activations>>

CreateWindow(p) ==
  /\ Running(p)
  /\ windows' = windows \cup {p}
  /\ UNCHANGED <<pc, members, state, inJob, messages, launches, activations>>

Exit(p) ==
  /\ Running(p)
  /\ state' = [state EXCEPT ![p] = "exited"]
  /\ windows' = windows \ {p}
  /\ IF \E other \in Processes \ {p} : Running(other)
     THEN Post("ExitProcess")
     ELSE messages' \in {messages, Append(messages, "ExitProcess"),
                         messages \o <<"ExitProcess", "ActiveProcessZero">>}
  /\ UNCHANGED <<pc, members, inJob, launches, activations>>

\* To replace its files, the updater terminates the program.
TerminateProgram ==
  /\ Running(updater)
  /\ pc \notin {"terminated", "closed"}
  /\ pc' = "terminated"
  /\ UNCHANGED <<members, processes, messages, launches, activations>>

Next ==
  \/ StartNothing \/ StartUpdater \/ ThrowBeforeStart \/ AssignFails
  \/ SkipCheckForUpdates \/ CountFrame \/ CheckRunning \/ EnumWindows
  \/ CloseWindow \/ TerminateProgram
  \/ \E p \in Processes : StartChild(p) \/ CreateWindow(p) \/ Exit(p)

Spec == Init /\ [][Next]_vars

-----------------------------------------------------------------------------
(* Properties.                                                             *)

UpdaterTypeOK ==
  /\ pc \in {"beforeFrame", "count", "check", "enumerate", "terminated", "closed"}
  /\ {mUpdater, mJob, mHaveActivatedWindow} \subseteq BOOLEAN
  /\ mFrameCounter \in 0..(FramesPerCheck - 1)
  /\ state \in [Processes -> {"none", "suspended", "running", "exited"}]
  /\ windows \subseteq inJob /\ inJob \subseteq Processes
  /\ messages \in Seq({"NewProcess", "ExitProcess", "ActiveProcessZero"})
  /\ launches \in Nat /\ activations \in Nat

\* However the search for its window ends, the updater is not started again, and
\* the user is interrupted by it once: what remembers that is in an optional that
\* is assigned a value with each of these results.
OnceOnly == launches <= 1 /\ activations <= 1

\* While frames are drawn, no process waits for a ResumeThread that has been
\* skipped: the one failure that leaves one ends the program.
NothingLeftSuspended ==
  pc \notin {"terminated", "closed"} => \A p \in Processes : state[p] # "suspended"

\* If the main thread goes on looking, each look takes a message from the port, so
\* it comes to an end: a window was activated, or the job is let go.
LookingEnds ==
  []<><<CountFrame>>_vars => <>[]~Looks
=============================================================================
