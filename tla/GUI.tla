-------------------------------- MODULE GUI --------------------------------
(***************************************************************************)
(* The tabs of the window (GUI::LayerSet, src/GUI.cpp) drawn by the main   *)
(* loop of WindowsPlatform while watchers and the loader-data thread run.  *)
(*                                                                         *)
(* A LayerSet keeps a copy of a store's layers and the errors the linters  *)
(* found in it.  Two flags ask the next frame to renew them; they are      *)
(* plain bools that the main thread, the watchers' threads and the         *)
(* loader-data thread all write.  Here a store's contents, and a copy of   *)
(* it, are the registry version of its last change; errors are the copy    *)
(* and the loader data they were found in.                                 *)
(*                                                                         *)
(* Saving a report and closing the window are WindowsPlatform's and are    *)
(* left out here.                                                          *)
(***************************************************************************)
EXTENDS WindowsPlatform

CONSTANT LayerSets  \* the stores that have a tab: not every store may

ASSUME LayerSetsAssumption == LayerSets \subseteq Stores /\ LayerSets # {}

VARIABLES
  contents,             \* each store's version
  \* the members of each LayerSet
  mLayers,
  mLayerDataIsStale,
  mLintErrors,
  mLintErrorsAreStale,
  \* the frame being drawn
  gui,                  \* control state within DrawFrame
  toVisit,              \* tabs whose turn is to come
  tab,                  \* the tab whose turn it is
  selected,             \* the tab that is open
  drawing,              \* HasErrors has returned, and this is Draw
  read,                 \* what ReloadLayerDataNow or RunAllLinters has read
  \* history
  byUser,               \* flags last set by a click, since the last check
  overwritten           \* requests made while one like them was being served

layerSetVars == <<mLayers, mLayerDataIsStale, mLintErrors, mLintErrorsAreStale>>
turnVars == <<toVisit, tab, selected, drawing>>
frameVars == <<gui, turnVars, read>>
historyVars == <<byUser, overwritten>>
guiVars == <<contents, layerSetVars, frameVars, historyVars>>

Versions == 0..MaxChanges

\* A list edited in place whose values SetAPILayers normalises as it writes
\* them: no version of the key is quite the same.
Edited == -2
Copies == {Pending, Edited} \cup Versions

NoRead == [layers |-> 0, loader |-> NoData]

GUITypeOK ==
  /\ TypeOK
  /\ contents \in [Stores -> Versions]
  /\ mLayers \in [LayerSets -> Copies]
  /\ mLayerDataIsStale \in [LayerSets -> BOOLEAN]
  /\ mLintErrors \in
       [LayerSets -> [layers : Copies,
                      loader : [Archs -> {Pending} \cup Versions]]]
  /\ mLintErrorsAreStale \in [LayerSets -> BOOLEAN]
  /\ gui \in {"tabs", "check", "checkLint", "reloading", "linting", "checked", "draw"}
  /\ toVisit \subseteq LayerSets
  /\ tab \in LayerSets
  /\ selected \in LayerSets
  /\ read \in [layers : Versions, loader : [Archs -> {Pending} \cup Versions]]
  /\ drawing \in BOOLEAN
  /\ byUser \subseteq LayerSets
  /\ overwritten \subseteq LayerSets \X {"layers", "errors"}

GUIInit ==
  /\ Init
  /\ contents = [s \in Stores |-> 0]
  /\ mLayers = [s \in LayerSets |-> Pending]
  /\ mLayerDataIsStale = [s \in LayerSets |-> TRUE]
  /\ mLintErrors = [s \in LayerSets |-> [layers |-> Pending, loader |-> NoData]]
  /\ mLintErrorsAreStale = [s \in LayerSets |-> TRUE]
  /\ gui = "tabs"
  /\ toVisit = {}
  /\ tab \in LayerSets
  /\ selected \in LayerSets
  /\ drawing = FALSE
  /\ read = NoRead
  /\ byUser = {}
  /\ overwritten = {}

-----------------------------------------------------------------------------
(* What other threads do to the LayerSets.                                 *)

\* Another program writes the store.
StoreChange(s) ==
  /\ RegistryChange(s)
  /\ contents' = [contents EXCEPT ![s] = registry']
  /\ UNCHANGED <<layerSetVars, frameVars, historyVars>>

\* Mutant: only the main loop is subscribed to the store.
NotifyNoLayerSet(s) == NotifyChange(s) /\ UNCHANGED guiVars

\* The LayerSet's slot is connected before MainLoop's, so it is called first.
NotifyLayerSet(s) ==
  /\ NotifyChange(s)
  /\ mLayerDataIsStale' =
       [t \in LayerSets |-> IF t = s THEN TRUE ELSE mLayerDataIsStale[t]]
  /\ overwritten' =
       IF gui = "reloading" /\ tab = s
       THEN overwritten \cup {<<s, "layers">>} ELSE overwritten
  /\ UNCHANGED <<contents, mLayers, mLintErrors, mLintErrorsAreStale, frameVars, byUser>>

NotifyLoaderData ==
  /\ OnLoaderDataSignal
  /\ mLintErrorsAreStale' = [s \in LayerSets |-> TRUE]
  /\ overwritten' =
       IF gui = "linting" THEN overwritten \cup {<<tab, "errors">>} ELSE overwritten
  /\ UNCHANGED <<contents, mLayers, mLayerDataIsStale, mLintErrors, frameVars, byUser>>

-----------------------------------------------------------------------------
(* DrawFrame.  Each tab in turn calls HasErrors; the one that is open then *)
(* calls Draw, which makes the same two checks before anything is shown.   *)

\* The user may have opened another tab.
BeginDrawFrame ==
  /\ BeginFrame
  /\ toVisit' = LayerSets
  /\ selected' \in LayerSets
  /\ UNCHANGED <<contents, layerSetVars, gui, tab, drawing, read, historyVars>>

HasErrors(s) ==
  /\ main = "frame"
  /\ gui = "tabs"
  /\ s \in toVisit
  /\ toVisit' = toVisit \ {s}
  /\ tab' = s
  /\ gui' = "check"
  /\ UNCHANGED <<vars, contents, layerSetVars, selected, drawing, read, historyVars>>

CheckLayerData ==
  /\ gui = "check"
  /\ ~mLayerDataIsStale[tab]
  /\ gui' = "checkLint"
  /\ UNCHANGED <<vars, contents, layerSetVars, turnVars, read, historyVars>>

\* ReloadLayerDataNow: GetAPILayers ...
ReadLayers ==
  /\ gui = "check"
  /\ mLayerDataIsStale[tab]
  /\ read' = [read EXCEPT !.layers = contents[tab]]
  /\ gui' = "reloading"
  /\ byUser' = byUser \ {tab}
  /\ overwritten' = overwritten \ {<<tab, "layers">>}
  /\ UNCHANGED <<vars, contents, layerSetVars, turnVars>>

\* Mutant: a reload does not ask for the lint.
ReloadLayerDataNowOnly ==
  /\ gui = "reloading"
  /\ mLayers' = [mLayers EXCEPT ![tab] = read.layers]
  /\ mLayerDataIsStale' = [mLayerDataIsStale EXCEPT ![tab] = FALSE]
  /\ gui' = "checkLint"
  /\ read' = NoRead
  /\ UNCHANGED <<vars, contents, mLintErrors, mLintErrorsAreStale, turnVars, historyVars>>

\* ... then mLayers, and the flag, which may have been set since.
ReloadLayerDataNow ==
  /\ gui = "reloading"
  /\ mLayers' = [mLayers EXCEPT ![tab] = read.layers]
  /\ mLayerDataIsStale' = [mLayerDataIsStale EXCEPT ![tab] = FALSE]
  /\ mLintErrorsAreStale' = [mLintErrorsAreStale EXCEPT ![tab] = TRUE]
  /\ gui' = "checkLint"
  /\ read' = NoRead
  /\ UNCHANGED <<vars, contents, mLintErrors, turnVars, historyVars>>

CheckLintErrors ==
  /\ gui = "checkLint"
  /\ ~mLintErrorsAreStale[tab]
  /\ gui' = "checked"
  /\ UNCHANGED <<vars, contents, layerSetVars, turnVars, read, historyVars>>

\* RunAllLinters calls GetLoaderData ...
RunAllLinters ==
  /\ gui = "checkLint"
  /\ mLintErrorsAreStale[tab]
  /\ LinterGetsLoaderData
  /\ read' = [NoRead EXCEPT !.loader = [a \in Archs |-> GetLoaderData(a)]]
  /\ gui' = "linting"
  /\ overwritten' = overwritten \ {<<tab, "errors">>}
  /\ UNCHANGED <<contents, layerSetVars, turnVars, byUser>>

\* Mutant: the linters only see the architectures that have data.
RunAllLintersNowOnKnown ==
  /\ gui = "linting"
  /\ mLintErrors' =
       [mLintErrors EXCEPT ![tab] =
         [layers |-> mLayers[tab],
          loader |-> [a \in {x \in Archs : read.loader[x] # Pending} |-> read.loader[a]]]]
  /\ mLintErrorsAreStale' = [mLintErrorsAreStale EXCEPT ![tab] = FALSE]
  /\ gui' = "checked"
  /\ read' = NoRead
  /\ UNCHANGED <<vars, contents, mLayers, mLayerDataIsStale, turnVars, historyVars>>

\* ... and only when all of them are done is the flag cleared.
RunAllLintersNow ==
  /\ gui = "linting"
  /\ mLintErrors' =
       [mLintErrors EXCEPT ![tab] = [layers |-> mLayers[tab], loader |-> read.loader]]
  /\ mLintErrorsAreStale' = [mLintErrorsAreStale EXCEPT ![tab] = FALSE]
  /\ gui' = "checked"
  /\ read' = NoRead
  /\ UNCHANGED <<vars, contents, mLayers, mLayerDataIsStale, turnVars, historyVars>>

\* HasErrors has returned; a tab that is open goes on to Draw.
NextTab ==
  /\ gui = "checked"
  /\ ~drawing
  /\ IF tab = selected THEN drawing' = TRUE /\ gui' = "check"
                       ELSE gui' = "tabs" /\ UNCHANGED drawing
  /\ UNCHANGED <<vars, contents, layerSetVars, toVisit, tab, selected, read, historyVars>>

DrawTab ==
  /\ gui = "checked"
  /\ drawing
  /\ gui' = "draw"
  /\ UNCHANGED <<vars, contents, layerSetVars, turnVars, read, historyVars>>

DrawButtons(a) ==
  /\ gui = "draw"
  /\ DrawLoaderData(a)
  /\ UNCHANGED guiVars

LeaveTab ==
  /\ gui = "draw"
  /\ toDraw = {}
  /\ gui' = "tabs"
  /\ drawing' = FALSE

NoClick ==
  /\ LeaveTab
  /\ UNCHANGED <<vars, contents, layerSetVars, toVisit, tab, selected, read, historyVars>>

\* Reload List.
ReloadListClicked ==
  /\ LeaveTab
  /\ mLayerDataIsStale' = [mLayerDataIsStale EXCEPT ![tab] = TRUE]
  /\ byUser' = byUser \cup {tab}
  /\ UNCHANGED <<vars, contents, mLayers, mLintErrors, mLintErrorsAreStale,
                 toVisit, tab, selected, read, overwritten>>

\* SetAPILayers writes the key and returns TRUE, unless the key holds that list
\* already: another program may just have made the same change.
SetAPILayers(changes) ==
  /\ LeaveTab
  /\ IF changes
     THEN RegistryChange(tab) /\ contents' = [contents EXCEPT ![tab] = registry']
     ELSE UNCHANGED <<vars, contents>>
  /\ UNCHANGED <<mLintErrors, toVisit, tab, selected, read, historyVars>>

\* Add, Remove, Move Up, Move Down, a drop, Fix It! and Fix Them! write an
\* edited copy of mLayers.
EditClicked(changes) ==
  /\ SetAPILayers(changes)
  /\ mLayerDataIsStale' = [mLayerDataIsStale EXCEPT ![tab] = @ \/ changes]
  /\ UNCHANGED <<mLayers, mLintErrorsAreStale>>

\* mLayers is edited before the call, and stays so whatever it returns: the key
\* then has that list, with values that were normalised or, if nothing had to be
\* written, as it was.
EditInPlace(changes) ==
  /\ SetAPILayers(changes)
  /\ \E layers \in IF changes THEN {registry', Edited} ELSE {contents[tab]} :
       mLayers' = [mLayers EXCEPT ![tab] = layers]
  /\ mLintErrorsAreStale' = [mLintErrorsAreStale EXCEPT ![tab] = @ \/ changes]

\* A checkbox edits mLayers in place ...
CheckboxClicked(changes) ==
  /\ EditInPlace(changes)
  /\ mLayerDataIsStale' = [mLayerDataIsStale EXCEPT ![tab] = @ \/ changes]

\* ... and so do Enable Layer and Disable Layer, which count on the watcher for
\* the reload.
EnableClicked(changes) ==
  /\ EditInPlace(changes)
  /\ UNCHANGED mLayerDataIsStale

EndDrawFrame ==
  /\ gui = "tabs"
  /\ toVisit = {}
  /\ EndFrame
  /\ UNCHANGED guiVars

DrawFrame ==
  \/ BeginDrawFrame \/ EndDrawFrame
  \/ \E s \in LayerSets : HasErrors(s)
  \/ CheckLayerData \/ ReadLayers \/ ReloadLayerDataNow
  \/ CheckLintErrors \/ RunAllLinters \/ RunAllLintersNow
  \/ NextTab \/ DrawTab \/ NoClick
  \/ \E a \in Archs : DrawButtons(a)

Click ==
  \/ ReloadListClicked
  \/ \E changes \in BOOLEAN :
       EditClicked(changes) \/ CheckboxClicked(changes) \/ EnableClicked(changes)

WatcherNext(s) == NotifyLayerSet(s) \/ (Callback(s) /\ UNCHANGED guiVars)

LoaderNext ==
  \/ NotifyLoaderData
  \/ Fetch /\ UNCHANGED guiVars

GUINext ==
  \/ \E s \in Stores : StoreChange(s) \/ WatcherNext(s)
  \/ LoaderNext
  \/ \E a \in Archs : HelperExits(a) /\ UNCHANGED guiVars
  \/ DrawFrame \/ Click
  \/ (WakeByEvent \/ WakeByInput) /\ UNCHANGED guiVars

GUISpec == GUIInit /\ [][GUINext]_<<vars, guiVars>>

\* As in WindowsPlatform: threads run, helpers exit, and the main thread
\* draws whenever it has a frame to draw.  Nobody has to click.
GUIFairness ==
  /\ \A s \in Stores : WF_<<vars, guiVars>>(WatcherNext(s))
  /\ WF_<<vars, guiVars>>(LoaderNext)
  /\ \A a \in Archs : WF_<<vars, guiVars>>(HelperExits(a) /\ UNCHANGED guiVars)
  /\ WF_<<vars, guiVars>>(DrawFrame \/ (WakeByEvent /\ UNCHANGED guiVars))

GUIFairSpec == GUISpec /\ GUIFairness

-----------------------------------------------------------------------------
(* Properties.                                                             *)

\* The flags and MainLoop: while the main thread sleeps with nothing to wake
\* it, a flag is set only if somebody who will set the event set it, or is
\* about to be told of the change that it is about.  The exception is Reload
\* List, which sets its flag after the frame's check and wakes nobody: it
\* takes effect when the user next moves the mouse.
NoFlagLeftAsleep ==
  main = "msgWait" /\ ~mNewFrameEvent
    => \A s \in LayerSets :
         (mLayerDataIsStale[s] /\ s \notin byUser) \/ mLintErrorsAreStale[s]
           => \/ loader = "setEvent"
              \/ changed # {}
              \/ ~CallbacksIdle

\* A change of the store is on its way to the tab's slot, its reload is asked
\* for, or the request came while one was being served and was overwritten.
LayersMayBeOld(s) ==
  s \in changed \/ mLayerDataIsStale[s] \/ <<s, "layers">> \in overwritten

\* Every edit writes the whole of mLayers back (GUI.cpp:133-134, 359): it undoes
\* what another program changed only while the tab may be old in one of those
\* ways, however watchers, reloads and edits in place follow each other.
LayersAreFollowed ==
  \A s \in LayerSets : mLayers[s] = contents[s] \/ LayersMayBeOld(s)

\* ReloadLayerDataNow, RunAllLintersNow and the edits in place: the errors that
\* a tab has are about the layers that it has, unless it is to be linted again.
\* When an edit in place turns out to be in the key already, SetAPILayers returns
\* FALSE and no lint is asked for (GUI.cpp:134, 204): the reload has to, and the
\* errors are about other layers until then.
ErrorsAreAboutLayers ==
  \A s \in LayerSets :
    \/ mLintErrors[s].layers = mLayers[s]
    \/ mLintErrorsAreStale[s]
    \/ LayersMayBeOld(s)

\* The flags promise a reload and a lint (GUI.hpp:77-80): when the stores no
\* longer change, every tab comes to show its store's layers, and errors that
\* were found with their loader data, unless a click on Reload List still waits
\* for input.
EventuallyCurrent ==
  <>[](byUser = {} =>
         \A s \in LayerSets :
           /\ mLayers[s] = contents[s]
           /\ \A a \in Archs : mLintErrors[s].loader[a] = registry)

\* What the flags do deliver: the layers that a tab shows become its store's, and
\* the errors become those of its layers and of the current loader data, unless a
\* request came while the tab was serving one like it, and was overwritten.
EventuallyCurrentOrOverwritten ==
  <>[](\A s \in LayerSets :
         /\ \/ mLayers[s] = contents[s] /\ mLintErrors[s].layers = mLayers[s]
            \/ <<s, "layers">> \in overwritten
         /\ \/ \A a \in Archs : mLintErrors[s].loader[a] = registry
            \/ <<s, "errors">> \in overwritten)
=============================================================================
