---------------------------- MODULE LayerSetProofs ----------------------------
(***************************************************************************)
(* Proofs about LayerSet, for any paths, any fixes and any number of       *)
(* changes by other programs.                                              *)
(***************************************************************************)
EXTENDS LayerSet, LayerEditsProofs

-----------------------------------------------------------------------------
(* mLayers and the store.                                                  *)

SyncInv ==
  ~disturbed /\ (pc = "draw" \/ ~mLayerDataIsStale) => mLayers = key

LEMMA SyncInvariant == Spec => []SyncInv
<1>1. Init => SyncInv
  BY DEF Init, SyncInv
<1>2. SyncInv /\ [Next]_vars => SyncInv'
  <2> SUFFICES ASSUME SyncInv, [Next]_vars
               PROVE  SyncInv'
    OBVIOUS
  <2> USE DEF SyncInv, IdleReadWrite, Idle, Draw
  <2>1. CASE UNCHANGED vars
    BY <2>1 DEF vars
  <2>2. ASSUME NEW newKey \in ForeignKeys, ForeignChange(newKey)
        PROVE  SyncInv'
    BY <2>2 DEF ForeignChange
  <2>3. CASE OnChange
    BY <2>3 DEF OnChange
  <2>4. CASE ReloadLayerDataNow
    BY <2>4 DEF ReloadLayerDataNow
  <2>5. CASE NotStale
    BY <2>5 DEF NotStale
  <2>6. ASSUME NEW newLayers, Draw, WriteAndReload(newLayers)
        PROVE  SyncInv'
    BY <2>6 DEF WriteAndReload, Write
  <2>7. ASSUME NEW i, NEW value, Idle, EditInPlace(i, value)
        PROVE  SyncInv'
    BY <2>7 DEF EditInPlace
  <2>8. ASSUME Draw, UNCHANGED <<key, mLayers, mLayerDataIsStale, disturbed>>
        PROVE  SyncInv'
    BY <2>8
  <2>9. CASE Click
    <3>1. CASE NothingUsed \/ OpenPopup \/ LeavePopup \/ DragOn
      BY <3>1, <2>8 DEF NothingUsed, OpenPopup, LeavePopup, PopupOpen, DragOn
    <3>2. CASE ReloadListClicked
      BY <3>2 DEF ReloadListClicked
    <3>3. ASSUME NEW i \in DOMAIN mLayers,
                 LayerSelected(i) \/ CheckboxClicked(i) \/ BeginDragDropSource(i) \/ Drop(i)
          PROVE  SyncInv'
      <4>1. CASE LayerSelected(i) \/ BeginDragDropSource(i)
        BY <4>1, <2>8 DEF LayerSelected, BeginDragDropSource
      <4>2. CASE CheckboxClicked(i)
        BY <4>2, <2>7 DEF CheckboxClicked
      <4>3. CASE Drop(i)
        BY <4>3, <2>6, <2>8 DEF Drop
      <4> QED
        BY <3>3, <4>1, <4>2, <4>3
    <3>4. CASE EnableOrDisableClicked("Enabled") \/ EnableOrDisableClicked("Disabled")
      BY <3>4, <2>7 DEF EnableOrDisableClicked
    <3>5. CASE MoveUpClicked \/ MoveDownClicked \/ RemoveClicked
      BY <3>5, <2>6 DEF MoveUpClicked, MoveDownClicked, RemoveClicked, PopupOpen
    <3>6. ASSUME NEW paths \in PathLists, AddLayersClicked(paths)
          PROVE  SyncInv'
      BY <3>6, <2>6 DEF AddLayersClicked
    <3>7. ASSUME NEW fixes \in FixLists, FixThemClicked(fixes)
          PROVE  SyncInv'
      BY <3>7, <2>6 DEF FixThemClicked
    <3>8. ASSUME NEW i \in 1..Cardinality(Paths), DragFromOtherTab(i)
          PROVE  SyncInv'
      BY <3>8, <2>8 DEF DragFromOtherTab
    <3> HIDE DEF SyncInv, IdleReadWrite, Idle, Draw
    <3> QED
      BY <2>9, <3>1, <3>2, <3>3, <3>4, <3>5, <3>6, <3>7, <3>8 DEF Click
  <2>10. CASE Terminate
    BY <2>10 DEF Terminate
  <2>11. CASE Terminated
    BY <2>11 DEF Terminated, vars
  <2> QED
    BY <2>1, <2>2, <2>3, <2>4, <2>5, <2>9, <2>10, <2>11 DEF Next
<1> QED
  BY <1>1, <1>2, PTL DEF Spec

\* What a widget is used on is what the store holds: an edit that the store
\* takes sets the flag before the next frame looks at it.
THEOREM Sync == Spec => []InSync
<1>1. SyncInv => InSync
  BY DEF SyncInv, InSync
<1> QED
  BY <1>1, SyncInvariant, PTL

-----------------------------------------------------------------------------
(* Paths are unique in every list.                                         *)

LEMMA ListsAre ==
  ASSUME NEW S, NEW list \in ListsOf(S)
  PROVE  /\ list \in Seq(S)
         /\ \A i, j \in DOMAIN list : list[i] = list[j] => i = j
<1>1. PICK m \in 0..MaxErrors : list \in [1..m -> S]
  BY DEF ListsOf, BoundedSeq, SeqOf
<1>2. m \in Nat
  BY BoundsAssumption
<1> QED
  BY <1>1, <1>2 DEF ListsOf, IsInjective

\* The buttons move the selected layer by one place, or nothing.
LEMMA MoveUpMoves ==
  ASSUME NEW layers, IsKey(layers), NEW i \in DOMAIN layers
  PROVE  \/ MoveUp(layers, layers[i]) = layers
         \/ \E j \in DOMAIN layers : MoveUp(layers, layers[i]) = Moved(layers, i, j)
<1>1. layers \in Seq(Layer) /\ Len(layers) \in Nat /\ DOMAIN layers = 1..Len(layers)
  BY DEF IsKey
<1>2. MoveUp(layers, layers[i]) = IF i > 1 THEN Swap(layers, i - 1, i) ELSE layers
  BY FoundWhereItIs DEF MoveUp
<1>3. CASE i > 1
  <2>1. i - 1 \in DOMAIN layers
    BY <1>1, <1>3
  <2> QED
    BY <1>2, <1>3, <2>1, SwapMoves
<1> QED
  BY <1>2, <1>3

LEMMA MoveDownMoves ==
  ASSUME NEW layers, IsKey(layers), NEW i \in DOMAIN layers
  PROVE  \/ MoveDown(layers, layers[i]) = layers
         \/ \E j \in DOMAIN layers : MoveDown(layers, layers[i]) = Moved(layers, i, j)
<1>1. layers \in Seq(Layer) /\ Len(layers) \in Nat /\ DOMAIN layers = 1..Len(layers)
  BY DEF IsKey
<1>2. MoveDown(layers, layers[i]) =
        IF i # 0 /\ i # Len(layers) THEN Swap(layers, i, i + 1) ELSE layers
  BY FoundWhereItIs DEF MoveDown
<1>3. CASE i # 0 /\ i # Len(layers)
  <2>1. i + 1 \in DOMAIN layers
    BY <1>1, <1>3
  <2> QED
    BY <1>2, <1>3, <2>1, SwapMoves
<1> QED
  BY <1>2, <1>3

LEMMA RemoveLayerRemoves ==
  ASSUME NEW layers, IsKey(layers), NEW i \in DOMAIN layers
  PROVE  RemoveLayer(layers, layers[i]) = RemoveAt(layers, i)
<1>1. i # 0
  BY DEF IsKey
<1> QED
  BY <1>1, FoundWhereItIs DEF RemoveLayer

LEMMA WriteKeepsPathsUnique ==
  ASSUME IsKey(key), NEW newLayers, IsKey(newLayers), Write(newLayers)
  PROVE  IsKey(key')
<1>1. newLayers \in Seq(Layer)
  BY DEF IsKey
<1>2. IsKey(Written(newLayers))
  BY <1>1, WrittenProperties
<1> QED
  BY <1>2 DEF Write

\* Every edit makes a list that can be a key.
LEMMA EditsAreKeys ==
  ASSUME NEW layers, IsKey(layers), NEW i \in DOMAIN layers
  PROVE  /\ IsKey(MoveUp(layers, layers[i]))
         /\ IsKey(MoveDown(layers, layers[i]))
         /\ IsKey(RemoveLayer(layers, layers[i]))
         /\ \A j \in DOMAIN layers \ {i} : IsKey(DragDropReorder(layers, layers[i], layers[j]))
<1>1. \A j \in DOMAIN layers : IsKey(Moved(layers, i, j))
  BY MovedProperties
<1>2. IsKey(MoveUp(layers, layers[i]))
  BY <1>1, MoveUpMoves
<1>3. IsKey(MoveDown(layers, layers[i]))
  BY <1>1, MoveDownMoves
<1>4. IsKey(RemoveLayer(layers, layers[i]))
  BY RemoveIsDelete, RemoveLayerRemoves
<1>5. ASSUME NEW j \in DOMAIN layers \ {i}
      PROVE  IsKey(DragDropReorder(layers, layers[i], layers[j]))
  BY <1>1, DragDropReorderMoves
<1> QED
  BY <1>2, <1>3, <1>4, <1>5

\* The lists that the two dialogs of several steps make.
LEMMA AddedIsKey ==
  ASSUME IsKey(mLayers), NEW paths \in PathLists
  PROVE  IsKey(AddLayers(mLayers, paths))
<1>1. /\ paths \in Seq(Paths)
      /\ \A i, j \in DOMAIN paths : paths[i] = paths[j] => i = j
  BY ListsAre DEF PathLists
<1> QED
  BY <1>1, AddLayersProperties

LEMMA FixListsAre ==
  ASSUME NEW fixes \in FixLists
  PROVE  fixes \in Seq(Fixes)
<1>1. fixes \in Seq(LintFixes)
  BY ListsAre DEF FixLists
<1> QED
  BY <1>1, LintFixesAssumption

LEMMA FixedIsKey ==
  ASSUME IsKey(mLayers), NEW fixes \in FixLists
  PROVE  IsKey(FixThem(mLayers, fixes))
<1>1. fixes \in Seq(Fixes)
  BY FixListsAre
<1> QED
  BY <1>1, FixThemProperties

\* A tab's list and its store never have the same path twice, and its selection
\* is a layer of its list: a reload and every edit keep it so.
THEOREM LayerSetTypeCorrect == Spec => []TypeOK
<1>1. Init => TypeOK
  <2> SUFFICES ASSUME Init
               PROVE  TypeOK
    OBVIOUS
  <2>1. IsKey(key)
    BY DEF Init, Keys
  <2>2. IsKey(<<>>) /\ Len(<<>>) = 0
    BY DEF IsKey
  <2>3. Cardinality(Paths) \in Nat
    BY <2>1, KeysFit
  <2>4. IsKey(mLayers) /\ Len(mLayers) = 0
    BY <2>2 DEF Init
  <2>5. payload \in 0..Cardinality(Paths) /\ mSelectedLayer \in 0..Len(mLayers)
    BY <2>3, <2>4 DEF Init
  <2>6. foreign \in 0..MaxForeign /\ dragged \subseteq Paths
    BY BoundsAssumption DEF Init
  <2> QED
    BY <2>1, <2>4, <2>5, <2>6 DEF Init, TypeOK
<1>2. TypeOK /\ [Next]_vars => TypeOK'
  <2> SUFFICES ASSUME TypeOK, [Next]_vars
               PROVE  TypeOK'
    OBVIOUS
  <2>a. /\ Len(mLayers) \in Nat /\ DOMAIN mLayers = 1..Len(mLayers)
        /\ mLayers \in Seq(Layer) /\ key \in Seq(Layer)
        /\ Cardinality(Paths) \in Nat /\ Len(mLayers) <= Cardinality(Paths)
    BY KeysFit DEF TypeOK, IsKey
  <2>1. CASE UNCHANGED vars
    BY <2>1 DEF vars, TypeOK, IsKey
  <2>2. ASSUME NEW newKey \in ForeignKeys, ForeignChange(newKey)
        PROVE  TypeOK'
    <3>1. IsKey(key')
      BY <2>2, ForeignKeysAssumption DEF ForeignChange, Keys
    <3>2. IsKey(mLayers')
      BY <2>2 DEF ForeignChange, TypeOK
    <3> QED
      BY <2>2, <3>1, <3>2, BoundsAssumption DEF ForeignChange, TypeOK
  <2>3. CASE OnChange
    BY <2>3 DEF OnChange, TypeOK, IsKey
  <2>4. CASE ReloadLayerDataNow
    <3>1. Find(key, mLayers[mSelectedLayer]) \in 0..Len(key)
      BY <2>a, FindRange
    <3>2. IsKey(key') /\ IsKey(mLayers') /\ Len(mLayers') \in Nat
      BY <2>4, <2>a DEF ReloadLayerDataNow, TypeOK
    <3>3. mSelectedLayer' \in 0..Len(mLayers')
      BY <2>4, <2>a, <3>1, <3>2 DEF ReloadLayerDataNow
    <3> QED
      BY <2>4, <3>2, <3>3 DEF ReloadLayerDataNow, TypeOK
  <2>5. CASE NotStale
    BY <2>5 DEF NotStale, TypeOK, IsKey
  <2>6. ASSUME NEW newLayers, IsKey(newLayers), Draw, WriteAndReload(newLayers),
               popup' \in BOOLEAN, payload' \in {payload, 0}
        PROVE  TypeOK'
    <3>1. IsKey(key')
      BY <2>6, WriteKeepsPathsUnique DEF WriteAndReload, TypeOK
    <3>2. IsKey(mLayers') /\ changed' \in BOOLEAN
      BY <2>6 DEF WriteAndReload, Write, TypeOK
    <3> QED
      BY <2>6, <2>a, <3>1, <3>2 DEF WriteAndReload, TypeOK, Draw
  <2>7. ASSUME NEW i \in DOMAIN mLayers, NEW value \in Values, Idle, EditInPlace(i, value),
               mLayerDataIsStale' \in BOOLEAN
        PROVE  TypeOK'
    <3>1. IsKey(mLayers') /\ Len(mLayers') = Len(mLayers)
      BY <2>7, SetValueProperties DEF EditInPlace, TypeOK
    <3>2. IsKey(key')
      BY <2>7, <3>1, WriteKeepsPathsUnique DEF EditInPlace, TypeOK
    <3>3. changed' \in BOOLEAN /\ disturbed' \in BOOLEAN
      BY <2>7 DEF EditInPlace, Write, TypeOK
    <3> QED
      BY <2>7, <2>a, <3>1, <3>2, <3>3 DEF EditInPlace, TypeOK, Idle, Draw
  <2>8. ASSUME Draw, UNCHANGED <<key, changed, mLayers, disturbed, foreign>>,
               mSelectedLayer' \in 0..Len(mLayers), mLayerDataIsStale' \in BOOLEAN,
               popup' \in BOOLEAN, payload' \in 0..Cardinality(Paths), dragged' \subseteq Paths
        PROVE  TypeOK'
    BY <2>8 DEF TypeOK, Draw, IsKey
  <2>9. CASE Click
    <3>1. CASE NothingUsed \/ ReloadListClicked \/ OpenPopup \/ LeavePopup \/ DragOn
      <4>1. /\ Draw
            /\ UNCHANGED <<key, changed, mLayers, mSelectedLayer, disturbed, foreign>>
            /\ mLayerDataIsStale' \in BOOLEAN /\ popup' \in BOOLEAN
            /\ payload' \in {payload, 0} /\ dragged' \in {dragged, {}}
        BY <3>1 DEF NothingUsed, ReloadListClicked, OpenPopup, LeavePopup, PopupOpen, DragOn,
                    IdleReadWrite, Idle, TypeOK
      <4>2. /\ mSelectedLayer' \in 0..Len(mLayers)
            /\ payload' \in 0..Cardinality(Paths) /\ dragged' \subseteq Paths
        BY <4>1, <2>a DEF TypeOK
      <4> QED
        BY <4>1, <4>2, <2>8
    <3>2. ASSUME NEW i \in DOMAIN mLayers,
                 LayerSelected(i) \/ CheckboxClicked(i) \/ BeginDragDropSource(i) \/ Drop(i)
          PROVE  TypeOK'
      <4>1. CASE LayerSelected(i)
        BY <4>1, <2>8, <2>a DEF LayerSelected, Idle, TypeOK
      <4>2. CASE CheckboxClicked(i)
        <5>1. (IF IsEnabled(mLayers[i]) THEN "Disabled" ELSE "Enabled") \in Values
          BY DEF Values
        <5>2. mLayerDataIsStale' \in BOOLEAN
          BY <4>2 DEF CheckboxClicked, TypeOK
        <5> QED
          BY <4>2, <5>1, <5>2, <2>7 DEF CheckboxClicked, IdleReadWrite
      <4>3. CASE BeginDragDropSource(i)
        <5>1. mLayers[i] \in Layer
          BY <2>a
        <5>2. mLayers[i].path \in Paths
          BY <5>1 DEF Layer
        <5>3. payload' \in 0..Cardinality(Paths) /\ dragged' \subseteq Paths
          BY <4>3, <5>2, <2>a DEF BeginDragDropSource
        <5> QED
          BY <4>3, <5>3, <2>8, <2>a DEF BeginDragDropSource, Idle, TypeOK
      <4>4. CASE Drop(i)
        <5>1. CASE payload = i
          BY <4>4, <5>1, <2>8, <2>a DEF Drop, TypeOK
        <5>2. CASE payload # i
          <6>1. IsKey(DragDropReorder(mLayers, mLayers[payload], mLayers[i]))
            BY <4>4, <5>2, EditsAreKeys DEF Drop, TypeOK
          <6> QED
            BY <4>4, <5>2, <6>1, <2>6 DEF Drop, TypeOK
        <5> QED
          BY <5>1, <5>2
      <4> QED
        BY <3>2, <4>1, <4>2, <4>3, <4>4
    <3>3. ASSUME NEW value \in {"Enabled", "Disabled"}, EnableOrDisableClicked(value)
          PROVE  TypeOK'
      <4>1. value \in Values
        BY DEF Values
      <4>2. mSelectedLayer \in DOMAIN mLayers /\ mLayerDataIsStale' \in BOOLEAN
        BY <3>3, <2>a DEF EnableOrDisableClicked, TypeOK
      <4> QED
        BY <3>3, <4>1, <4>2, <2>7 DEF EnableOrDisableClicked, IdleReadWrite
    <3>4. CASE MoveUpClicked \/ MoveDownClicked \/ RemoveClicked
      <4>1. mSelectedLayer \in DOMAIN mLayers
        BY <3>4, <2>a DEF MoveUpClicked, MoveDownClicked, RemoveClicked, PopupOpen, TypeOK
      <4>2. /\ IsKey(MoveUp(mLayers, mLayers[mSelectedLayer]))
            /\ IsKey(MoveDown(mLayers, mLayers[mSelectedLayer]))
            /\ IsKey(RemoveLayer(mLayers, mLayers[mSelectedLayer]))
        BY <4>1, EditsAreKeys DEF TypeOK
      <4> QED
        BY <3>4, <4>2, <2>6
           DEF MoveUpClicked, MoveDownClicked, RemoveClicked, PopupOpen, IdleReadWrite, Idle,
               TypeOK
    <3>5. ASSUME NEW paths \in PathLists, AddLayersClicked(paths)
          PROVE  TypeOK'
      <4>1. IsKey(AddLayers(mLayers, paths))
        BY AddedIsKey DEF TypeOK
      <4> QED
        BY <3>5, <4>1, <2>6 DEF AddLayersClicked, IdleReadWrite, Idle, TypeOK
    <3>6. ASSUME NEW fixes \in FixLists, FixThemClicked(fixes)
          PROVE  TypeOK'
      <4>1. IsKey(FixThem(mLayers, fixes))
        BY FixedIsKey DEF TypeOK
      <4> QED
        BY <3>6, <4>1, <2>6 DEF FixThemClicked, IdleReadWrite, Idle, TypeOK
    <3>7. ASSUME NEW i \in 1..Cardinality(Paths), DragFromOtherTab(i)
          PROVE  TypeOK'
      BY <3>7, <2>8, <2>a DEF DragFromOtherTab, Idle, TypeOK
    <3> QED
      BY <2>9, <3>1, <3>2, <3>3, <3>4, <3>5, <3>6, <3>7 DEF Click
  <2>10. CASE Terminate
    BY <2>10 DEF Terminate, TypeOK, IsKey
  <2>11. CASE Terminated
    BY <2>11 DEF Terminated, vars, TypeOK, IsKey
  <2> QED
    BY <2>1, <2>2, <2>3, <2>4, <2>5, <2>9, <2>10, <2>11 DEF Next
<1> QED
  BY <1>1, <1>2, PTL DEF Spec

-----------------------------------------------------------------------------
(* What lasts several frames.                                              *)

\* A popup and a drag exclude one another.  While either goes on and the store
\* has not changed behind the tab's back, no edit can come between, so mLayers
\* is the store's list at every reload too, and what the popup or the drag
\* refers to stays in it.
GestureInv ==
  /\ ~(popup /\ payload # 0)
  /\ InGesture /\ ~disturbed => mLayers = key
  /\ popup /\ ~disturbed => mSelectedLayer # 0
  /\ payload # 0 /\ dragged # {} /\ ~disturbed =>
       payload \in DOMAIN mLayers /\ dragged = {mLayers[payload].path}
  /\ TerminatesOnlyIfDisturbed

LEMMA GestureInvariant == Spec => []GestureInv
<1>1. Init => GestureInv
  BY DEF Init, GestureInv, InGesture, TerminatesOnlyIfDisturbed
<1>2. TypeOK /\ SyncInv /\ GestureInv /\ [Next]_vars => GestureInv'
  <2> SUFFICES ASSUME TypeOK, SyncInv, GestureInv, [Next]_vars
               PROVE  GestureInv'
    OBVIOUS
  <2> USE DEF GestureInv, InGesture, TerminatesOnlyIfDisturbed
  <2>a. popup \in BOOLEAN /\ disturbed \in BOOLEAN /\ Len(mLayers) \in Nat
        /\ DOMAIN mLayers = 1..Len(mLayers) /\ payload \in Nat
    BY KeysFit DEF TypeOK, IsKey
  <2>1. CASE UNCHANGED vars
    BY <2>1 DEF vars
  <2>2. ASSUME NEW newKey \in ForeignKeys, ForeignChange(newKey)
        PROVE  GestureInv'
    BY <2>2 DEF ForeignChange
  <2>3. CASE OnChange
    BY <2>3 DEF OnChange
  <2>4. CASE ReloadLayerDataNow
    <3>1. ASSUME popup, ~disturbed
          PROVE  mSelectedLayer' # 0
      <4>1. mLayers = key /\ mSelectedLayer \in DOMAIN mLayers /\ IsKey(mLayers)
        BY <3>1, <2>a DEF TypeOK
      <4>2. Find(mLayers, mLayers[mSelectedLayer]) = mSelectedLayer
        BY <4>1, FoundWhereItIs
      <4> QED
        BY <2>4, <4>1, <4>2, <3>1 DEF ReloadLayerDataNow
    <3> QED
      BY <2>4, <2>a, <3>1 DEF ReloadLayerDataNow
  <2>5. CASE NotStale
    BY <2>5 DEF NotStale
  <2>6. ASSUME Draw, popup' = FALSE, payload' = 0
        PROVE  GestureInv'
    BY <2>6 DEF Draw
  <2>7. ASSUME Idle, popup' = popup, payload' = payload
        PROVE  GestureInv'
    BY <2>7, <2>a DEF Idle, Draw
  <2>8. CASE Click
    <3>1. CASE NothingUsed \/ ReloadListClicked
      BY <3>1, <2>7 DEF NothingUsed, ReloadListClicked
    <3>2. ASSUME NEW i \in DOMAIN mLayers,
                 LayerSelected(i) \/ CheckboxClicked(i) \/ BeginDragDropSource(i) \/ Drop(i)
          PROVE  GestureInv'
      <4>1. CASE LayerSelected(i)
        BY <4>1, <2>7 DEF LayerSelected
      <4>2. CASE CheckboxClicked(i)
        BY <4>2, <2>7 DEF CheckboxClicked, EditInPlace, IdleReadWrite
      <4>3. CASE BeginDragDropSource(i)
        <5>1. mLayers' = mLayers /\ key' = key /\ disturbed' = disturbed /\ popup' = popup
              /\ ~popup /\ pc' = "top" /\ payload' = i /\ dragged' = {mLayers[i].path}
              /\ pc = "draw"
          BY <4>3 DEF BeginDragDropSource, Idle, Draw
        <5>2. ~disturbed => mLayers = key
          BY <5>1 DEF SyncInv
        <5> QED
          BY <5>1, <5>2
      <4>4. CASE Drop(i)
        <5>1. ~popup /\ popup' = FALSE /\ payload' = 0
          BY <4>4, <2>a DEF Drop
        <5> QED
          BY <4>4, <5>1, <2>6 DEF Drop
      <4> QED
        BY <3>2, <4>1, <4>2, <4>3, <4>4
    <3>3. CASE EnableOrDisableClicked("Enabled") \/ EnableOrDisableClicked("Disabled")
      BY <3>3, <2>7 DEF EnableOrDisableClicked, EditInPlace, IdleReadWrite
    <3>4. CASE MoveUpClicked \/ MoveDownClicked
      BY <3>4, <2>7 DEF MoveUpClicked, MoveDownClicked, IdleReadWrite
    <3>5. ASSUME NEW paths \in PathLists, AddLayersClicked(paths)
          PROVE  GestureInv'
      BY <3>5, <2>7 DEF AddLayersClicked, IdleReadWrite
    <3>6. ASSUME NEW fixes \in FixLists, FixThemClicked(fixes)
          PROVE  GestureInv'
      BY <3>6, <2>7 DEF FixThemClicked, IdleReadWrite
    <3>7. ASSUME NEW i \in 1..Cardinality(Paths), DragFromOtherTab(i)
          PROVE  GestureInv'
      <4>1. ~disturbed => mLayers = key
        BY <3>7 DEF DragFromOtherTab, Idle, Draw, SyncInv
      <4> QED
        BY <3>7, <4>1 DEF DragFromOtherTab, Idle, Draw
    <3>8. CASE OpenPopup
      <4>1. ~disturbed => mLayers = key
        BY <3>8 DEF OpenPopup, IdleReadWrite, Idle, Draw, SyncInv
      <4> QED
        BY <3>8, <4>1 DEF OpenPopup, IdleReadWrite, Idle, Draw
    <3>9. CASE LeavePopup
      <4>1. payload = 0
        BY <3>9, <2>a DEF LeavePopup, PopupOpen
      <4> QED
        BY <3>9, <4>1 DEF LeavePopup, PopupOpen, Draw
    <3>10. CASE RemoveClicked
      <4>1. payload' = 0
        BY <3>10, <2>a DEF RemoveClicked, PopupOpen
      <4> QED
        BY <3>10, <4>1, <2>6 DEF RemoveClicked, PopupOpen
    <3>11. CASE DragOn
      <4>1. ~popup
        BY <3>11, <2>a DEF DragOn
      <4> QED
        BY <3>11, <4>1 DEF DragOn, Draw
    <3> HIDE DEF GestureInv
    <3> QED
      BY <2>8, <3>1, <3>2, <3>3, <3>4, <3>5, <3>6, <3>7, <3>8, <3>9, <3>10, <3>11 DEF Click
  <2>9. CASE Terminate
    <3>1. ASSUME readWrite, ~disturbed
          PROVE  payload # 0 /\ dragged = {}
      <4>1. ~(popup /\ mSelectedLayer = 0)
        BY <3>1
      <4>2. ~DropReadOnly
        BY <3>1 DEF DropReadOnly
      <4>3. payload > Len(mLayers)
        BY <2>9, <4>1, <4>2 DEF Terminate
      <4> QED
        BY <3>1, <4>3, <2>a
    <3> QED
      BY <2>9, <3>1 DEF Terminate
  <2>10. CASE Terminated
    BY <2>10 DEF Terminated, vars
  <2> QED
    BY <2>1, <2>2, <2>3, <2>4, <2>5, <2>8, <2>9, <2>10 DEF Next
<1> QED
  BY <1>1, <1>2, LayerSetTypeCorrect, SyncInvariant, PTL DEF Spec

\* A selection and an index that are used frames after they were taken still refer
\* to what they were taken from, in a read-write tab, unless the store changed
\* behind mLayers' back or the drag came from another tab.
THEOREM GesturesAreSafe == Spec => []TerminatesOnlyIfDisturbed
<1>1. GestureInv => TerminatesOnlyIfDisturbed
  BY DEF GestureInv
<1> QED
  BY <1>1, GestureInvariant, PTL

-----------------------------------------------------------------------------
(* What an edit may do to the store.                                       *)

\* Normalising the values and removing a layer do not disturb one another.
LEMMA WrittenWithout ==
  ASSUME NEW layers, IsKey(layers), NEW path
  PROVE  Without(Written(layers), path) = Written(Without(layers, path))
<1> DEFINE written == Written(layers)
           i == FindKey(layers, path)
<1>1. layers \in Seq(Layer) /\ Len(layers) \in Nat /\ DOMAIN layers = 1..Len(layers)
  BY DEF IsKey
<1>2. /\ written \in Seq(Layer) /\ Len(written) = Len(layers)
      /\ \A j \in DOMAIN layers : written[j].path = layers[j].path
      /\ PathsOf(written) = PathsOf(layers)
      /\ IsKey(written)
  BY <1>1, WrittenProperties
<1>3. i \in 0..Len(layers) /\ (i # 0 => layers[i].path = path)
      /\ (path \in PathsOf(layers) <=> i # 0)
  BY <1>1, FindKeyProperties
<1>4. FindKey(written, path) = i
  <2>1. CASE i = 0
    <3>1. path \notin PathsOf(written)
      BY <1>2, <1>3, <2>1
    <3> QED
      BY <1>2, <2>1, <3>1, FindKeyProperties
  <2>2. CASE i # 0
    <3>1. i \in DOMAIN written /\ written[i].path = path
      BY <1>1, <1>2, <1>3, <2>2
    <3>2. FindKey(written, written[i].path) = i
      BY <1>2, <3>1, FoundWhereItIs
    <3> QED
      BY <3>1, <3>2
  <2> QED
    BY <2>1, <2>2
<1>5. CASE i = 0
  <2>1. RegDeleteValue(written, path) = written /\ RegDeleteValue(layers, path) = layers
    BY <1>4, <1>5 DEF RegDeleteValue
  <2> QED
    BY <2>1 DEF Without
<1>6. CASE i # 0
  <2> DEFINE left == RemoveAt(written, i)
             rest == RemoveAt(layers, i)
             one(layer) == [layer EXCEPT !.value = IF IsEnabled(layer) THEN "Enabled" ELSE "Disabled"]
  <2>1. i \in DOMAIN layers /\ i \in DOMAIN written
    BY <1>1, <1>2, <1>3, <1>6
  <2>2. /\ left \in Seq(Layer) /\ Len(left) = Len(layers) - 1
        /\ \A j \in 1..(Len(layers) - 1) : left[j] = IF j < i THEN written[j] ELSE written[j + 1]
    BY <1>2, <2>1, RemoveAtProperties
  <2>3. /\ rest \in Seq(Layer) /\ Len(rest) = Len(layers) - 1
        /\ \A j \in 1..(Len(layers) - 1) : rest[j] = IF j < i THEN layers[j] ELSE layers[j + 1]
    BY <1>1, <2>1, RemoveAtProperties
  <2>4. \A j \in DOMAIN layers : written[j] = one(layers[j])
    BY DEF Written
  <2>5. Written(rest) = [j \in DOMAIN rest |-> one(rest[j])]
    BY DEF Written
  <2> HIDE DEF left, rest, one, written, i
  <2>6. DOMAIN rest = 1..(Len(layers) - 1) /\ DOMAIN left = 1..(Len(layers) - 1)
    BY <1>1, <2>2, <2>3
  <2>7. ASSUME NEW j \in 1..(Len(layers) - 1)
        PROVE  left[j] = one(rest[j])
    <3>1. j \in DOMAIN layers /\ j + 1 \in DOMAIN layers
      BY <1>1
    <3> QED
      BY <2>2, <2>3, <2>4, <3>1
  <2>8. left = [j \in DOMAIN left |-> left[j]]
    BY <2>2
  <2>9. left = Written(rest)
    BY <2>5, <2>6, <2>7, <2>8
  <2> QED
    BY <1>4, <1>6, <2>9 DEF Without, RegDeleteValue, left, rest, written, i
<1> QED
  BY <1>5, <1>6

\* Each button, and a drop, leaves what is around one layer as it was.
LEMMA EditsAreLocal ==
  ASSUME NEW layers, IsKey(layers), NEW i \in DOMAIN layers
  PROVE  /\ Without(MoveUp(layers, layers[i]), layers[i].path) = Without(layers, layers[i].path)
         /\ Without(MoveDown(layers, layers[i]), layers[i].path) = Without(layers, layers[i].path)
         /\ Without(RemoveLayer(layers, layers[i]), layers[i].path)
              = Without(layers, layers[i].path)
         /\ \A value \in Values :
              Without(SetValue(layers, i, value), layers[i].path) = Without(layers, layers[i].path)
<1> DEFINE path == layers[i].path
<1>1. RegDeleteValue(layers, path) = RemoveAt(layers, i)
  BY RemoveIsDelete
<1>2. \A j \in DOMAIN layers : RegDeleteValue(Moved(layers, i, j), path) = RemoveAt(layers, i)
  BY MovedProperties
<1>3. Without(MoveUp(layers, layers[i]), path) = Without(layers, path)
  BY <1>1, <1>2, MoveUpMoves DEF Without
<1>4. Without(MoveDown(layers, layers[i]), path) = Without(layers, path)
  BY <1>1, <1>2, MoveDownMoves DEF Without
<1>5. Without(RemoveLayer(layers, layers[i]), path) = Without(layers, path)
  <2>1. IsKey(RemoveAt(layers, i)) /\ path \notin PathsOf(RemoveAt(layers, i))
    BY RemoveIsDelete
  <2>2. RegDeleteValue(RemoveAt(layers, i), path) = RemoveAt(layers, i)
    BY <2>1, RegDeleteValueProperties
  <2> QED
    BY <1>1, <2>2, RemoveLayerRemoves DEF Without
<1>6. ASSUME NEW value \in Values
      PROVE  Without(SetValue(layers, i, value), path) = Without(layers, path)
  <2> DEFINE set == SetValue(layers, i, value)
             left == RemoveAt(set, i)
             rest == RemoveAt(layers, i)
  <2>1. layers \in Seq(Layer) /\ Len(layers) \in Nat /\ DOMAIN layers = 1..Len(layers)
    BY DEF IsKey
  <2>2. /\ IsKey(set) /\ Len(set) = Len(layers) /\ set[i].path = path
        /\ \A j \in DOMAIN layers \ {i} : set[j] = layers[j]
    BY SetValueProperties
  <2> HIDE DEF set
  <2>3. set \in Seq(Layer) /\ i \in DOMAIN set
    BY <2>1, <2>2 DEF IsKey
  <2>4. RegDeleteValue(set, set[i].path) = left
    BY <2>2, <2>3, RemoveIsDelete
  <2>5. /\ left \in Seq(Layer) /\ Len(left) = Len(layers) - 1
        /\ \A j \in 1..(Len(layers) - 1) : left[j] = IF j < i THEN set[j] ELSE set[j + 1]
    BY <2>2, <2>3, RemoveAtProperties
  <2>6. /\ rest \in Seq(Layer) /\ Len(rest) = Len(layers) - 1
        /\ \A j \in 1..(Len(layers) - 1) : rest[j] = IF j < i THEN layers[j] ELSE layers[j + 1]
    BY <2>1, RemoveAtProperties
  <2>7. ASSUME NEW j \in 1..(Len(layers) - 1)
        PROVE  left[j] = rest[j]
    <3> HIDE DEF left, rest
    <3>1. CASE j < i
      <4>1. j \in DOMAIN layers \ {i}
        BY <2>1, <3>1
      <4> QED
        BY <2>2, <2>5, <2>6, <3>1, <4>1
    <3>2. CASE ~(j < i)
      <4>1. j + 1 \in DOMAIN layers \ {i}
        BY <2>1, <3>2
      <4> QED
        BY <2>2, <2>5, <2>6, <3>2, <4>1
    <3> QED
      BY <3>1, <3>2
  <2>8. left = rest
    <3> HIDE DEF left, rest
    <3>1. DOMAIN left = 1..(Len(layers) - 1) /\ DOMAIN rest = 1..(Len(layers) - 1)
      BY <2>1, <2>5, <2>6
    <3>2. left = [j \in DOMAIN left |-> left[j]] /\ rest = [j \in DOMAIN rest |-> rest[j]]
      BY <2>5, <2>6
    <3> QED
      BY <2>7, <3>1, <3>2
  <2>9. RegDeleteValue(set, path) = RegDeleteValue(layers, path)
    BY <1>1, <2>2, <2>4, <2>8
  <2> QED
    BY <2>9 DEF Without, set
<1> QED
  BY <1>3, <1>4, <1>5, <1>6

\* What is left without the layer of an edit is the same before and after it, so
\* SetAPILayers only normalises the values of the others.
LEMMA WriteIsLocal ==
  ASSUME IsKey(key), NEW newLayers, IsKey(newLayers), Write(newLayers), key' # key,
         NEW path, Without(newLayers, path) = Without(key, path)
  PROVE  Without(key', path) = Written(Without(key, path))
<1>1. key' = Written(newLayers)
  BY DEF Write
<1>2. Without(Written(newLayers), path) = Written(Without(newLayers, path))
  BY WrittenWithout
<1> QED
  BY <1>1, <1>2

\* One click on a checkbox or a button never changes, loses or moves any layer but the
\* one it is about, and normalises values.
THEOREM ClicksAreLocal == Spec => OneLayerPerClick
<1> DEFINE Clicked == \/ \E i \in DOMAIN mLayers : CheckboxClicked(i)
                      \/ \E value \in Values : EnableOrDisableClicked(value)
                      \/ MoveUpClicked \/ MoveDownClicked \/ RemoveClicked
           Local == \E p \in Paths : Without(key', p) = Written(Without(key, p))
<1>1. TypeOK /\ SyncInv => (~disturbed /\ key' # key /\ Clicked => Local)
  <2> SUFFICES ASSUME TypeOK, SyncInv, ~disturbed, key' # key, Clicked
               PROVE  Local
    OBVIOUS
  <2>1. pc = "draw"
    BY DEF CheckboxClicked, EnableOrDisableClicked, MoveUpClicked, MoveDownClicked,
           RemoveClicked, PopupOpen, IdleReadWrite, Idle, Draw
  <2>2. mLayers = key /\ IsKey(key)
    BY <2>1 DEF SyncInv, TypeOK
  <2>3. \A i \in DOMAIN key : key[i].path \in Paths
    <3> SUFFICES ASSUME NEW i \in DOMAIN key
                 PROVE  key[i].path \in Paths
      OBVIOUS
    <3>1. key[i] \in Layer
      BY <2>2 DEF IsKey
    <3> QED
      BY <3>1 DEF Layer
  <2>4. ASSUME mSelectedLayer # 0
        PROVE  mSelectedLayer \in DOMAIN key
    BY <2>2, <2>4 DEF TypeOK, IsKey
  <2>5. ASSUME NEW i \in DOMAIN key, NEW newLayers, IsKey(newLayers), Write(newLayers),
               Without(newLayers, key[i].path) = Without(key, key[i].path)
        PROVE  Local
    <3>1. Without(key', key[i].path) = Written(Without(key, key[i].path))
      BY <2>2, <2>5, WriteIsLocal
    <3> QED
      BY <2>3, <3>1
  <2>6. ASSUME NEW i \in DOMAIN key, NEW value \in Values, EditInPlace(i, value)
        PROVE  Local
    <3>1. IsKey(SetValue(key, i, value))
      BY <2>2, SetValueProperties
    <3>2. Without(SetValue(key, i, value), key[i].path) = Without(key, key[i].path)
      BY <2>2, EditsAreLocal
    <3>3. Write(SetValue(key, i, value))
      BY <2>2, <2>6 DEF EditInPlace, Write
    <3> QED
      BY <2>5, <3>1, <3>2, <3>3
  <2>7. ASSUME NEW i \in DOMAIN mLayers, CheckboxClicked(i)
        PROVE  Local
    <3>1. (IF IsEnabled(mLayers[i]) THEN "Disabled" ELSE "Enabled") \in Values
      BY DEF Values
    <3> QED
      BY <2>2, <2>6, <2>7, <3>1 DEF CheckboxClicked
  <2>8. ASSUME NEW value \in Values, EnableOrDisableClicked(value)
        PROVE  Local
    BY <2>4, <2>6, <2>8 DEF EnableOrDisableClicked
  <2>9. CASE MoveUpClicked \/ MoveDownClicked \/ RemoveClicked
    <3> DEFINE i == mSelectedLayer
    <3>1. i \in DOMAIN key
      BY <2>4, <2>9 DEF MoveUpClicked, MoveDownClicked, RemoveClicked, PopupOpen
    <3>2. /\ IsKey(MoveUp(key, key[i])) /\ IsKey(MoveDown(key, key[i]))
          /\ IsKey(RemoveLayer(key, key[i]))
      BY <2>2, <3>1, EditsAreKeys
    <3>3. /\ Without(MoveUp(key, key[i]), key[i].path) = Without(key, key[i].path)
          /\ Without(MoveDown(key, key[i]), key[i].path) = Without(key, key[i].path)
          /\ Without(RemoveLayer(key, key[i]), key[i].path) = Without(key, key[i].path)
      BY <2>2, <3>1, EditsAreLocal
    <3>4. \/ Write(MoveUp(key, key[i])) \/ Write(MoveDown(key, key[i]))
          \/ Write(RemoveLayer(key, key[i]))
      BY <2>2, <2>9 DEF MoveUpClicked, MoveDownClicked, RemoveClicked, WriteAndReload
    <3> HIDE DEF Local
    <3> QED
      BY <2>5, <3>1, <3>2, <3>3, <3>4
  <2> QED
    BY <2>7, <2>8, <2>9
<1>2. TypeOK /\ SyncInv => (~disturbed /\ key' # key
        /\ (\/ \E i \in DOMAIN mLayers : CheckboxClicked(i)
            \/ \E value \in Values : EnableOrDisableClicked(value)
            \/ MoveUpClicked \/ MoveDownClicked \/ RemoveClicked)
        => \E p \in Paths : Without(key', p) = Written(Without(key, p)))
  BY <1>1
<1> QED
  BY <1>2, LayerSetTypeCorrect, SyncInvariant, PTL DEF OneLayerPerClick

\* A drop neither loses nor doubles a layer, and puts the dragged layer where its target
\* was, frames after the drag began.
THEOREM DropsLand == Spec => DropLandsOnTarget
<1>1. TypeOK /\ GestureInv => (readWrite /\ ~disturbed /\ dragged # {} =>
        \A j \in DOMAIN mLayers :
          Drop(j)
            => /\ key'[j].path \in dragged
               /\ \A p \in dragged : PathsOf(Without(key', p)) = PathsOf(Without(key, p))
               /\ key' = key
                    \/ \A p \in dragged : Without(key', p) = Written(Without(key, p)))
  <2> SUFFICES ASSUME TypeOK, GestureInv, readWrite, ~disturbed, dragged # {},
                      NEW j \in DOMAIN mLayers, Drop(j)
               PROVE  /\ key'[j].path \in dragged
                      /\ \A p \in dragged : PathsOf(Without(key', p)) = PathsOf(Without(key, p))
                      /\ key' = key
                           \/ \A p \in dragged : Without(key', p) = Written(Without(key, p))
    OBVIOUS
  <2> DEFINE i == payload
             path == key[i].path
             new == DragDropReorder(key, key[i], key[j])
  <2>1. payload # 0 /\ payload \in DOMAIN mLayers
    BY DEF Drop, TypeOK, IsKey
  <2>2. mLayers = key /\ IsKey(key) /\ dragged = {path}
    BY <2>1 DEF GestureInv, InGesture, TypeOK
  <2>3. CASE payload = j
    <3>1. key' = key
      BY <2>3 DEF Drop
    <3> QED
      BY <2>2, <2>3, <3>1
  <2>4. CASE payload # j
    <3>1. new = Moved(key, i, j)
      BY <2>1, <2>2, <2>4, DragDropReorderMoves
    <3>2. /\ IsKey(new) /\ Len(new) = Len(key) /\ PathsOf(new) = PathsOf(key)
          /\ new[j] = key[i] /\ RegDeleteValue(new, path) = RemoveAt(key, i)
      BY <2>1, <2>2, <3>1, MovedProperties
    <3>3. RegDeleteValue(key, path) = RemoveAt(key, i)
      BY <2>1, <2>2, RemoveIsDelete
    <3>4. Write(new)
      BY <2>2, <2>4 DEF Drop, WriteAndReload
    <3>5. key' = IF key = new THEN key ELSE Written(new)
      BY <3>4 DEF Write
    <3> HIDE DEF new
    <3>6. new \in Seq(Layer) /\ j \in DOMAIN new
      BY <2>2, <3>2 DEF IsKey
    <3>7. Written(new)[j].path = path /\ PathsOf(Written(new)) = PathsOf(new)
      BY <3>2, <3>6, WrittenProperties
    <3>8. key'[j].path = path /\ PathsOf(key') = PathsOf(key)
      BY <3>2, <3>5, <3>7
    <3>9. IsKey(key')
      BY <2>2, <3>2, <3>4, WriteKeepsPathsUnique
    <3>10. PathsOf(Without(key', path)) = PathsOf(Without(key, path))
      <4>1. PathsOf(RegDeleteValue(key, path)) = PathsOf(key) \ {path}
        BY ONLY <2>2, RegDeleteValueProperties
      <4>2. PathsOf(RegDeleteValue(key', path)) = PathsOf(key') \ {path}
        BY ONLY <3>9, RegDeleteValueProperties
      <4> QED
        BY <3>8, <4>1, <4>2 DEF Without
    <3>11. Without(new, path) = Without(key, path)
      BY <3>2, <3>3 DEF Without
    <3>12. key' = key \/ Without(key', path) = Written(Without(key, path))
      BY <2>2, <3>2, <3>4, <3>11, WriteIsLocal
    <3> QED
      BY <2>2, <3>8, <3>10, <3>12
  <2> QED
    BY <2>3, <2>4
<1> QED
  BY <1>1, LayerSetTypeCorrect, GestureInvariant, PTL DEF DropLandsOnTarget

\* Whatever the errors and their order, Fix Them! loses no layer that no error asks to
\* remove.
THEOREM FixesKeepLayers == Spec => FixesLoseNothing
<1>1. TypeOK => (key' # key =>
        \A fixes \in FixLists :
          FixThemClicked(fixes)
            => \A p \in PathsOf(mLayers) \ PathsOf(key') :
                 \E i \in DOMAIN fixes : fixes[i].kind = "remove" /\ fixes[i].path = p)
  <2> SUFFICES ASSUME TypeOK, key' # key, NEW fixes \in FixLists, FixThemClicked(fixes),
                      NEW p \in PathsOf(mLayers) \ PathsOf(key')
               PROVE  \E i \in DOMAIN fixes : fixes[i].kind = "remove" /\ fixes[i].path = p
    OBVIOUS
  <2> DEFINE new == FixThem(mLayers, fixes)
  <2>1. fixes \in Seq(Fixes) /\ IsKey(mLayers)
    BY FixListsAre DEF TypeOK
  <2>2. /\ IsKey(new)
        /\ \A q \in PathsOf(mLayers) \ PathsOf(new) :
             \E i \in DOMAIN fixes : fixes[i].kind = "remove" /\ fixes[i].path = q
    BY <2>1, FixThemProperties
  <2>3. key' = Written(new)
    BY DEF FixThemClicked, WriteAndReload, Write
  <2> HIDE DEF new
  <2>4. PathsOf(key') = PathsOf(new)
    BY <2>2, <2>3, WrittenProperties DEF IsKey
  <2> QED
    BY <2>2, <2>4
<1> QED
  BY <1>1, LayerSetTypeCorrect, PTL DEF FixesLoseNothing
=============================================================================
