------------------------------- MODULE LayerSet -------------------------------
(***************************************************************************)
(* One tab (GUI::LayerSet, src/GUI.cpp): its copy of a store's layers, the *)
(* selection, the popup and the drag that last several frames, and every   *)
(* edit, while other programs write the store too.                         *)
(*                                                                         *)
(* A frame is two steps: Draw renews mLayers if it was asked to, and then  *)
(* at most one widget is used.  SetAPILayers and a reload are single       *)
(* steps: LayerStore shows what a call does inside, and GUI what a reload  *)
(* races with.  The errors of mLintErrors are fixes, any that LintFixes    *)
(* has for layers of mLayers.                                              *)
(*                                                                         *)
(* The store of a read-only tab is computed from the environment, from     *)
(* files and from keys that it does not watch: it changes without a        *)
(* signal.  Its layers are enabled or not (absent), as "Disabled" here.    *)
(*                                                                         *)
(* AddLayersClicked lints the new list and would fix it, but no Fix makes  *)
(* a list longer, so it always writes the layers where it appended them.   *)
(***************************************************************************)
EXTENDS LayerEdits

CONSTANTS LintFixes,   \* the fixes that linters propose
          ForeignKeys, \* what other programs write
          MaxErrors,   \* bound: fixable errors in a list
          MaxForeign   \* bound: changes made by other programs

ASSUME LintFixesAssumption == LintFixes \subseteq Fixes
ASSUME ForeignKeysAssumption == ForeignKeys \subseteq Keys
ASSUME BoundsAssumption == MaxErrors \in Nat /\ MaxForeign \in Nat

VARIABLES
  readWrite,          \* mReadWriteStore is not null
  key,                \* the registry key, or what the store finds
  changed,            \* its watcher has yet to run OnChange
  mLayers,
  mSelectedLayer,     \* index of the layer it points to; 0 is nullptr
  mLayerDataIsStale,
  pc,                 \* "top" of a frame, "draw", or "terminated"
  popup,              \* the Remove Layer popup is open
  payload,            \* APILayerIndex of the drag, or 0
  \* history
  dragged,            \* paths: the one that was dragged; none from another tab
  disturbed,          \* the store came to differ from mLayers behind its back
  foreign             \* changes by other programs so far

vars == <<readWrite, key, changed, mLayers, mSelectedLayer, mLayerDataIsStale, pc,
          popup, payload, dragged, disturbed, foreign>>

TypeOK ==
  /\ readWrite \in BOOLEAN
  /\ IsKey(key)
  /\ changed \in BOOLEAN
  /\ IsKey(mLayers)
  /\ mSelectedLayer \in 0..Len(mLayers)
  /\ mLayerDataIsStale \in BOOLEAN
  /\ pc \in {"top", "draw", "terminated"}
  /\ popup \in BOOLEAN
  /\ payload \in 0..Cardinality(Paths)
  /\ dragged \subseteq Paths
  /\ disturbed \in BOOLEAN
  /\ foreign \in 0..MaxForeign

IsReadOnlyKey(layers) == \A i \in DOMAIN layers : layers[i].value # "NotDWORD"

Init ==
  /\ readWrite \in BOOLEAN
  /\ key \in {layers \in Keys : readWrite \/ IsReadOnlyKey(layers)}
  /\ changed = FALSE
  /\ mLayers = <<>>
  /\ mSelectedLayer = 0
  /\ mLayerDataIsStale = TRUE
  /\ pc = "top"
  /\ popup = FALSE
  /\ payload = 0
  /\ dragged = {}
  /\ disturbed = FALSE
  /\ foreign = 0

InGesture == popup \/ payload # 0

-----------------------------------------------------------------------------
ForeignChange(newKey) ==
  /\ foreign < MaxForeign
  /\ key # newKey
  /\ readWrite \/ IsReadOnlyKey(newKey)
  /\ key' = newKey
  /\ changed' = readWrite
  /\ foreign' = foreign + 1
  /\ disturbed' = TRUE
  /\ UNCHANGED <<readWrite, mLayers, mSelectedLayer, mLayerDataIsStale, pc, popup, payload,
                 dragged>>

OnChange ==
  /\ changed
  /\ changed' = FALSE
  /\ mLayerDataIsStale' = TRUE
  /\ UNCHANGED <<readWrite, key, mLayers, mSelectedLayer, pc, popup, payload, dragged,
                 disturbed, foreign>>

\* Mutant: the pointer into the old list is kept, as an index.
ReloadLayerDataKeepingIndex ==
  /\ pc = "top"
  /\ mLayerDataIsStale
  /\ mLayers' = key
  /\ mLayerDataIsStale' = FALSE
  /\ pc' = "draw"
  /\ disturbed' = (disturbed /\ InGesture)
  /\ UNCHANGED <<readWrite, key, changed, mSelectedLayer, popup, payload, dragged, foreign>>

\* The selected layer is looked up in the new list, value and all.
ReloadLayerDataNow ==
  /\ pc = "top"
  /\ mLayerDataIsStale
  /\ mSelectedLayer' =
       IF mSelectedLayer = 0 THEN 0 ELSE Find(key, mLayers[mSelectedLayer])
  /\ mLayers' = key
  /\ mLayerDataIsStale' = FALSE
  /\ pc' = "draw"
  /\ disturbed' = (disturbed /\ InGesture)
  /\ UNCHANGED <<readWrite, key, changed, popup, payload, dragged, foreign>>

NotStale ==
  /\ pc = "top"
  /\ ~mLayerDataIsStale
  /\ pc' = "draw"
  /\ UNCHANGED <<readWrite, key, changed, mLayers, mSelectedLayer, mLayerDataIsStale, popup,
                 payload, dragged, disturbed, foreign>>

-----------------------------------------------------------------------------
(* The widgets.  The popup is modal, and a drag keeps the mouse.           *)

Draw == pc = "draw" /\ pc' = "top" /\ UNCHANGED readWrite
Idle == Draw /\ ~InGesture

\* Where a widget is not disabled for want of a store to write to.
IdleReadWrite == Idle /\ readWrite

\* SetAPILayers(newLayers).
Write(newLayers) ==
  /\ key' = IF key = newLayers THEN key ELSE Written(newLayers)
  /\ changed' = (changed \/ key # newLayers)

\* Mutant: the edit counts on the watcher for the reload.
WriteOnly(newLayers) ==
  /\ Write(newLayers)
  /\ UNCHANGED <<mLayers, mSelectedLayer, mLayerDataIsStale, dragged, disturbed, foreign>>

WriteAndReload(newLayers) ==
  /\ Write(newLayers)
  /\ mLayerDataIsStale' = (mLayerDataIsStale \/ key # newLayers)
  /\ UNCHANGED <<mLayers, mSelectedLayer, dragged, disturbed, foreign>>

\* An edit of mLayers itself; SetAPILayers may write other values too.
EditInPlace(i, value) ==
  /\ mLayers' = SetValue(mLayers, i, value)
  /\ Write(mLayers')
  /\ disturbed' = (disturbed \/ mLayers' # key')
  /\ UNCHANGED <<mSelectedLayer, popup, payload, dragged, foreign>>

NothingUsed ==
  /\ Idle
  /\ UNCHANGED <<key, changed, mLayers, mSelectedLayer, mLayerDataIsStale, popup, payload,
                 dragged, disturbed, foreign>>

LayerSelected(i) ==
  /\ Idle
  /\ i \in DOMAIN mLayers
  /\ mSelectedLayer' = i
  /\ UNCHANGED <<key, changed, mLayers, mLayerDataIsStale, popup, payload, dragged,
                 disturbed, foreign>>

CheckboxClicked(i) ==
  /\ IdleReadWrite
  /\ i \in DOMAIN mLayers
  /\ EditInPlace(i, IF IsEnabled(mLayers[i]) THEN "Disabled" ELSE "Enabled")
  /\ mLayerDataIsStale' = (mLayerDataIsStale \/ key # mLayers')

\* Both buttons are disabled together, while the layer is enabled.
EnableOrDisableClicked(value) ==
  /\ IdleReadWrite
  /\ mSelectedLayer # 0
  /\ ~IsEnabled(mLayers[mSelectedLayer])
  /\ EditInPlace(mSelectedLayer, value)
  /\ UNCHANGED mLayerDataIsStale

ReloadListClicked ==
  /\ Idle
  /\ mLayerDataIsStale' = TRUE
  /\ UNCHANGED <<key, changed, mLayers, mSelectedLayer, popup, payload, dragged,
                 disturbed, foreign>>

AddLayersClicked(paths) ==
  /\ IdleReadWrite
  /\ AddLayers(mLayers, paths) # mLayers
  /\ WriteAndReload(AddLayers(mLayers, paths))
  /\ UNCHANGED <<popup, payload>>

MoveUpClicked ==
  /\ IdleReadWrite
  /\ mSelectedLayer # 0
  /\ mLayers[mSelectedLayer] # mLayers[1]
  /\ WriteAndReload(MoveUp(mLayers, mLayers[mSelectedLayer]))
  /\ UNCHANGED <<popup, payload>>

MoveDownClicked ==
  /\ IdleReadWrite
  /\ mSelectedLayer # 0
  /\ mLayers[mSelectedLayer] # mLayers[Len(mLayers)]
  /\ WriteAndReload(MoveDown(mLayers, mLayers[mSelectedLayer]))
  /\ UNCHANGED <<popup, payload>>

\* Fix It! is Fix Them! of one error.
FixThemClicked(fixes) ==
  /\ IdleReadWrite
  /\ fixes # <<>>
  /\ \A i \in DOMAIN fixes : fixes[i].path \in PathsOf(mLayers)
  /\ WriteAndReload(FixThem(mLayers, fixes))
  /\ UNCHANGED <<popup, payload>>

\* Remove Layer...
OpenPopup ==
  /\ IdleReadWrite
  /\ mSelectedLayer # 0
  /\ popup' = TRUE
  /\ UNCHANGED <<key, changed, mLayers, mSelectedLayer, mLayerDataIsStale, payload,
                 dragged, disturbed, foreign>>

\* The popup shows mSelectedLayer->mManifestPath.
PopupOpen ==
  /\ Draw
  /\ popup
  /\ mSelectedLayer # 0

\* Mutant: the popup deselects the layer, and is drawn once more.
LeavePopupDeselected ==
  /\ PopupOpen
  /\ popup' \in BOOLEAN
  /\ mSelectedLayer' = 0
  /\ UNCHANGED <<key, changed, mLayers, mLayerDataIsStale, payload, dragged, disturbed,
                 foreign>>

LeavePopup ==
  /\ PopupOpen
  /\ popup' \in BOOLEAN
  /\ UNCHANGED <<key, changed, mLayers, mSelectedLayer, mLayerDataIsStale, payload,
                 dragged, disturbed, foreign>>

RemoveClicked ==
  /\ PopupOpen
  /\ WriteAndReload(RemoveLayer(mLayers, mLayers[mSelectedLayer]))
  /\ popup' = FALSE
  /\ UNCHANGED payload

BeginDragDropSource(i) ==
  /\ Idle
  /\ i \in DOMAIN mLayers
  /\ payload' = i
  /\ dragged' = {mLayers[i].path}
  /\ UNCHANGED <<key, changed, mLayers, mSelectedLayer, mLayerDataIsStale, popup,
                 disturbed, foreign>>

\* A drag goes on over another tab, which opens under it, and all tabs have the
\* same type of payload.
DragFromOtherTab(i) ==
  /\ Idle
  /\ payload' = i
  /\ dragged' = {}
  /\ UNCHANGED <<key, changed, mLayers, mSelectedLayer, mLayerDataIsStale, popup,
                 disturbed, foreign>>

\* The payload is kept until the mouse is released, though the widget that it came
\* from may be gone.
DragOn ==
  /\ Draw
  /\ payload # 0
  /\ \/ payload' = 0 /\ dragged' = {}
     \/ UNCHANGED <<payload, dragged>>
  /\ UNCHANGED <<key, changed, mLayers, mSelectedLayer, mLayerDataIsStale, popup,
                 disturbed, foreign>>

\* The mouse is released on layer j.  DragDropReorder is called, which asks for
\* the store to write to before it looks at anything, unless ImGui sees that the
\* layer is where the drag began.
Drop(j) ==
  /\ Draw
  /\ payload \in DOMAIN mLayers
  /\ j \in DOMAIN mLayers
  /\ readWrite \/ (payload = j /\ dragged # {})
  /\ payload' = 0
  /\ UNCHANGED popup
  /\ IF payload = j
     THEN UNCHANGED <<key, changed, mLayers, mSelectedLayer, mLayerDataIsStale, dragged,
                      disturbed, foreign>>
     ELSE WriteAndReload(DragDropReorder(mLayers, mLayers[payload], mLayers[j]))

\* A layer is dropped on one of a read-only tab.
DropReadOnly ==
  /\ ~readWrite
  /\ payload \in DOMAIN mLayers
  /\ \E j \in DOMAIN mLayers : payload # j \/ dragged = {}

\* A null pointer is dereferenced, or at() or GetReadWriteStore() throws and nobody
\* catches.
Terminate ==
  /\ pc = "draw"
  /\ \/ popup /\ mSelectedLayer = 0
     \/ payload > Len(mLayers) /\ mLayers # <<>>
     \/ DropReadOnly
  /\ pc' = "terminated"
  /\ UNCHANGED <<readWrite, key, changed, mLayers, mSelectedLayer, mLayerDataIsStale, popup,
                 payload, dragged, disturbed, foreign>>

-----------------------------------------------------------------------------
Terminated == pc = "terminated" /\ UNCHANGED vars

\* Lists of distinct things, with an order.
ListsOf(S) == {s \in BoundedSeq(S, MaxErrors) : IsInjective(s)}
FixLists == ListsOf(LintFixes)
PathLists == ListsOf(Paths)

Click ==
  \/ NothingUsed \/ ReloadListClicked
  \/ \E i \in DOMAIN mLayers :
       LayerSelected(i) \/ CheckboxClicked(i) \/ BeginDragDropSource(i) \/ Drop(i)
  \/ EnableOrDisableClicked("Enabled") \/ EnableOrDisableClicked("Disabled")
  \/ MoveUpClicked \/ MoveDownClicked
  \/ \E paths \in PathLists : AddLayersClicked(paths)
  \/ \E fixes \in FixLists : FixThemClicked(fixes)
  \/ \E i \in 1..Cardinality(Paths) : DragFromOtherTab(i)
  \/ OpenPopup \/ LeavePopup \/ RemoveClicked \/ DragOn

Next ==
  \/ \E newKey \in ForeignKeys : ForeignChange(newKey)
  \/ OnChange
  \/ ReloadLayerDataNow \/ NotStale
  \/ Click
  \/ Terminate \/ Terminated

Spec == Init /\ [][Next]_vars

-----------------------------------------------------------------------------
(* Properties.                                                             *)

\* The stale flag: what a widget is used on is what the store holds, unless
\* the store changed behind mLayers' back: another program wrote it, or an edit
\* in place made SetAPILayers rewrite a value that was no DWORD.
InSync == pc = "draw" /\ ~disturbed => mLayers = key

\* "Attempted to get read-write store from read-only store" (GUI.hpp:53) is a
\* logic_error: no widget of a read-only tab asks for it.  (Whatever else terminates
\* the program has no payload, or an index that is out of range.)
ReadOnlyTabsKeepOut ==
  pc = "terminated" /\ payload \in DOMAIN mLayers => readWrite

\* GUIRemoveLayerPopup and AcceptDragDropPayload use a selection and an index
\* from an earlier frame: in a read-write tab, what they refer to is gone only if
\* the store changed behind mLayers' back, or the index is one of another tab.
TerminatesOnlyIfDisturbed ==
  pc = "terminated" /\ readWrite => disturbed \/ (payload # 0 /\ dragged = {})

\* A list without the layer of a path: paths are unique in keys and in mLayers.
Without(list, path) == RegDeleteValue(list, path)

\* Checkboxes, Enable, Disable, Move Up, Move Down and Remove: nothing happens
\* to any layer but one, except that a value that was no DWORD becomes one, and
\* the others keep their order.
OneLayerPerClick ==
  [][/\ ~disturbed
     /\ key' # key
     /\ \/ \E i \in DOMAIN mLayers : CheckboxClicked(i)
        \/ \E value \in Values : EnableOrDisableClicked(value)
        \/ MoveUpClicked \/ MoveDownClicked \/ RemoveClicked
    => \E p \in Paths : Without(key', p) = Written(Without(key, p))]_vars

\* DragDropReorder, and its assertions (GUI.cpp:718, 724): no layer is lost or
\* doubled, the layer that was dragged, unless from another tab, ends where its
\* target was, and the others keep their order.
DropLandsOnTarget ==
  [][readWrite /\ ~disturbed /\ dragged # {} =>
       \A j \in DOMAIN mLayers :
         Drop(j)
           => /\ key'[j].path \in dragged
              /\ \A p \in dragged : PathsOf(Without(key', p)) = PathsOf(Without(key, p))
              /\ key' = key
                   \/ \A p \in dragged : Without(key', p) = Written(Without(key, p))]_vars

\* Fix Them!: applying one fix after another loses no layer but those that an
\* error asks to remove, though a fix may have removed what a later one refers to.
FixesLoseNothing ==
  [][key' # key =>
       \A fixes \in FixLists :
         FixThemClicked(fixes)
           => \A p \in PathsOf(mLayers) \ PathsOf(key') :
                \E i \in DOMAIN fixes : fixes[i].kind = "remove" /\ fixes[i].path = p]_vars
=============================================================================
