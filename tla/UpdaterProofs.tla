---------------------------- MODULE UpdaterProofs ----------------------------
(***************************************************************************)
(* Whatever the updater and its children do, and however many there are:   *)
(* it is started once, it interrupts the user once, and nothing is left    *)
(* suspended while the program runs.                                       *)
(***************************************************************************)
EXTENDS Updater, TLAPS

Ended == pc \in {"terminated", "closed"}

\* Before the optional has a value nothing was started; it keeps its value, and a
\* window is only looked for if none was activated.
StartedOnce ==
  /\ launches \in {0, 1}
  /\ ~mUpdater /\ ~Ended => launches = 0 /\ pc = "beforeFrame"

ActivatedOnce ==
  /\ activations \in {0, 1}
  /\ ~mHaveActivatedWindow => activations = 0
  /\ pc \in {"check", "enumerate"} => ~mHaveActivatedWindow

OnceInv ==
  /\ mUpdater \in BOOLEAN /\ mHaveActivatedWindow \in BOOLEAN
  /\ state \in [Processes -> {"none", "suspended", "running", "exited"}]
  /\ StartedOnce
  /\ ActivatedOnce
  /\ NothingLeftSuspended

LEMMA InitOnce == Init => OnceInv
  BY DEF Init, OnceInv, StartedOnce, ActivatedOnce, NothingLeftSuspended, Ended

LEMMA NextOnce == OnceInv /\ [Next]_vars => OnceInv'
<1> SUFFICES ASSUME OnceInv, [Next]_vars PROVE OnceInv'
  OBVIOUS
<1> USE DEF OnceInv, StartedOnce, ActivatedOnce, NothingLeftSuspended, Ended,
            members, processes
<1>1. CASE StartNothing
  BY <1>1 DEF StartNothing, Checking
<1>2. CASE StartUpdater
  <2>1. launches' = 1 /\ mUpdater' = TRUE
    BY <1>2 DEF StartUpdater, Checking
  <2>2. state' \in [Processes -> {"none", "suspended", "running", "exited"}]
    BY <1>2 DEF StartUpdater
  <2>3. NothingLeftSuspended'
    BY <1>2 DEF StartUpdater, Checking
  <2>4. ActivatedOnce' /\ mHaveActivatedWindow' \in BOOLEAN
    BY <1>2 DEF StartUpdater, Checking
  <2> QED
    BY <2>1, <2>2, <2>3, <2>4
<1>3. CASE ThrowBeforeStart
  BY <1>3 DEF ThrowBeforeStart, Checking
<1>4. CASE AssignFails
  <2>1. launches' = 1 /\ pc' = "terminated" /\ ActivatedOnce'
    BY <1>4 DEF AssignFails, Checking
  <2>2. state' \in [Processes -> {"none", "suspended", "running", "exited"}]
    BY <1>4 DEF AssignFails
  <2> QED
    BY <1>4, <2>1, <2>2 DEF AssignFails
<1>5. CASE SkipCheckForUpdates
  BY <1>5 DEF SkipCheckForUpdates
<1>6. CASE CountFrame
  BY <1>6 DEF CountFrame, Looks
<1>7. CASE CheckRunning
  BY <1>7 DEF CheckRunning, LetGo
<1>8. CASE EnumWindows
  <2>1. ~mHaveActivatedWindow /\ activations = 0
    BY <1>8 DEF EnumWindows
  <2>2. pc' = "beforeFrame" /\ UNCHANGED <<mUpdater, state, launches>>
    BY <1>8 DEF EnumWindows
  <2>3. StartedOnce' /\ NothingLeftSuspended'
    BY <1>8, <2>2 DEF EnumWindows
  <2>4. ActivatedOnce' /\ mHaveActivatedWindow' \in BOOLEAN
    <3>1. CASE Activate
      <4>1. activations' = 1
        BY <2>1, <3>1 DEF Activate
      <4>2. mHaveActivatedWindow' = TRUE
        BY <3>1 DEF Activate
      <4> QED
        BY <2>2, <4>1, <4>2
    <3>2. CASE FindNone
      <4>1. activations' = 0 /\ mHaveActivatedWindow' = FALSE
        BY <2>1, <3>2 DEF FindNone
      <4> QED
        BY <2>2, <4>1
    <3> QED
      BY <1>8, <3>1, <3>2 DEF EnumWindows
  <2> QED
    BY <2>2, <2>3, <2>4
<1>9. CASE CloseWindow
  BY <1>9 DEF CloseWindow
<1>10. CASE TerminateProgram
  BY <1>10 DEF TerminateProgram
<1>11. ASSUME NEW p \in Processes, StartChild(p) PROVE OnceInv'
  BY <1>11 DEF StartChild
<1>12. ASSUME NEW p \in Processes, CreateWindow(p) PROVE OnceInv'
  BY <1>12 DEF CreateWindow
<1>13. ASSUME NEW p \in Processes, Exit(p) PROVE OnceInv'
  BY <1>13 DEF Exit
<1>14. CASE UNCHANGED vars
  BY <1>14 DEF vars
<1> QED
  BY <1>1, <1>2, <1>3, <1>4, <1>5, <1>6, <1>7, <1>8, <1>9, <1>10, <1>11, <1>12,
     <1>13, <1>14 DEF Next

LEMMA OnceInvariant == Spec => []OnceInv
  BY InitOnce, NextOnce, PTL DEF Spec

\* One start and one interruption, for every set of processes and every interval
\* between two looks.
THEOREM Once == Spec => []OnceOnly
<1>1. OnceInv => OnceOnly
  BY DEF OnceInv, StartedOnce, ActivatedOnce, OnceOnly
<1> QED
  BY <1>1, OnceInvariant, PTL

\* No process stays suspended while frames are drawn, for every set of processes.
THEOREM AllResumed == Spec => []NothingLeftSuspended
<1>1. OnceInv => NothingLeftSuspended
  BY DEF OnceInv
<1> QED
  BY <1>1, OnceInvariant, PTL

-----------------------------------------------------------------------------
(* The types.                                                              *)

\* A window belongs to a process of the job, what the port queues are messages of
\* the job, and the frame counter never reaches its bound.
THEOREM UpdaterTypeCorrect == Spec => []UpdaterTypeOK
<1> DEFINE Message == {"NewProcess", "ExitProcess", "ActiveProcessZero"}
<1>1. Init => UpdaterTypeOK
  <2> SUFFICES ASSUME Init
               PROVE  UpdaterTypeOK
    OBVIOUS
  <2> USE DEF Init, UpdaterTypeOK
  <2>1. 0 \in 0..(FramesPerCheck - 1)
    BY UpdaterAssumption
  <2>2. messages \in Seq(Message)
    OBVIOUS
  <2>3. state \in [Processes -> {"none", "suspended", "running", "exited"}]
    OBVIOUS
  <2>4. {mUpdater, mJob, mHaveActivatedWindow} \subseteq BOOLEAN
    OBVIOUS
  <2> QED
    BY <2>1, <2>2, <2>3, <2>4
<1>2. UpdaterTypeOK /\ [Next]_vars => UpdaterTypeOK'
  <2> SUFFICES ASSUME UpdaterTypeOK, [Next]_vars
               PROVE  UpdaterTypeOK'
    OBVIOUS
  <2> USE UpdaterAssumption DEF UpdaterTypeOK, members, processes
  <2>1. ASSUME NEW message \in Message, Post(message)
        PROVE  messages' \in Seq(Message)
    BY <2>1 DEF Post
  <2>2. CASE StartNothing \/ ThrowBeforeStart \/ SkipCheckForUpdates \/ CloseWindow
             \/ TerminateProgram
    BY <2>2 DEF StartNothing, ThrowBeforeStart, SkipCheckForUpdates, CloseWindow,
                TerminateProgram
  <2>3. CASE StartUpdater
    <3>1. messages' \in Seq(Message)
      BY <2>1, <2>3 DEF StartUpdater
    <3> QED
      BY <2>3, <3>1 DEF StartUpdater
  <2>4. CASE AssignFails
    BY <2>4 DEF AssignFails
  <2>5. CASE CountFrame
    <3>1. (mFrameCounter + 1) % FramesPerCheck \in 0..(FramesPerCheck - 1)
      OBVIOUS
    <3>2. mFrameCounter' \in 0..(FramesPerCheck - 1)
      BY <2>5, <3>1 DEF CountFrame
    <3>3. pc' \in {"check", "beforeFrame"}
      BY <2>5 DEF CountFrame
    <3> QED
      BY <2>5, <3>2, <3>3 DEF CountFrame
  <2>6. CASE CheckRunning
    <3>1. messages' \in Seq(Message)
      BY <2>6 DEF CheckRunning, DequeueMessage
    <3> QED
      BY <2>6, <3>1 DEF CheckRunning, LetGo
  <2>7. CASE EnumWindows
    <3>1. activations' \in Nat /\ mHaveActivatedWindow' \in BOOLEAN
      <4>1. CASE Activate
        <5>1. mHaveActivatedWindow' = TRUE /\ activations' \in Nat
          BY <4>1 DEF Activate
        <5> QED
          BY <5>1
      <4>2. CASE FindNone
        BY <4>2 DEF FindNone
      <4> QED
        BY <2>7, <4>1, <4>2 DEF EnumWindows
    <3> QED
      BY <2>7, <3>1 DEF EnumWindows
  <2>8. ASSUME NEW p \in Processes, StartChild(p)
        PROVE  UpdaterTypeOK'
    <3>1. messages' \in Seq(Message)
      BY <2>1, <2>8 DEF StartChild
    <3> QED
      BY <2>8, <3>1 DEF StartChild
  <2>9. ASSUME NEW p \in Processes, CreateWindow(p)
        PROVE  UpdaterTypeOK'
    BY <2>9 DEF CreateWindow, Running
  <2>10. ASSUME NEW p \in Processes, Exit(p)
         PROVE  UpdaterTypeOK'
    <3>1. messages' \in Seq(Message)
      BY <2>1, <2>10 DEF Exit
    <3> QED
      BY <2>10, <3>1 DEF Exit
  <2>11. CASE UNCHANGED vars
    BY <2>11 DEF vars
  <2> QED
    BY <2>2, <2>3, <2>4, <2>5, <2>6, <2>7, <2>8, <2>9, <2>10, <2>11 DEF Next
<1> QED
  BY <1>1, <1>2, PTL DEF Spec
=============================================================================
