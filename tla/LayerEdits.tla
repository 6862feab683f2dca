----------------------------- MODULE LayerEdits -----------------------------
(***************************************************************************)
(* The edits of a list of API layers (GUI.cpp, Linter.cpp and              *)
(* UltraleapLastLinter.cpp): what the buttons and the automatic fixes      *)
(* compute from a copy of mLayers, before anything is written.             *)
(*                                                                         *)
(* A layer is its manifest path, which is also its key, and its value.     *)
(* Paths are distinct in a store, but nothing here depends on it: like the *)
(* code, an edit acts on the first layer that it finds.                    *)
(***************************************************************************)
EXTENDS Integers, Sequences, FiniteSets, SequencesExt

CONSTANT Paths

ASSUME PathsAssumption == IsFiniteSet(Paths)

Values == {"Enabled", "Disabled", "NotDWORD"}
Layer == [path : Paths, value : Values]

IsEnabled(layer) == layer.value = "Enabled"

PathsOf(layers) == {layers[i].path : i \in DOMAIN layers}

\* std::ranges::find for a layer (full equality) and for a key; 0 is end().
Find(layers, layer) == SelectInSeq(layers, LAMBDA l : l = layer)
FindKey(layers, path) == SelectInSeq(layers, LAMBDA l : l.path = path)

Swap(layers, i, j) == [layers EXCEPT ![i] = layers[j], ![j] = layers[i]]

-----------------------------------------------------------------------------
(* GUIButtons, GUIRemoveLayerPopup and AddLayersClicked.                   *)

SetValue(layers, i, value) == [layers EXCEPT ![i].value = value]

\* Mutant: the layer changes places with the first one.
MoveToTop(layers, layer) ==
  LET i == Find(layers, layer)
  IN  IF i > 1 THEN Swap(layers, 1, i) ELSE layers

MoveUp(layers, layer) ==
  LET i == Find(layers, layer)
  IN  IF i > 1 THEN Swap(layers, i - 1, i) ELSE layers

MoveDown(layers, layer) ==
  LET i == Find(layers, layer)
  IN  IF i # 0 /\ i # Len(layers) THEN Swap(layers, i, i + 1) ELSE layers

RemoveLayer(layers, layer) ==
  LET i == Find(layers, layer)
  IN  IF i # 0 THEN RemoveAt(layers, i) ELSE layers

\* The paths the user picked, in order; those that are there already are
\* dropped, and the others are appended, enabled.
AddLayers(layers, paths) ==
  LET nextLayers[n \in 0..Len(paths)] ==
        IF n = 0 THEN layers
        ELSE IF paths[n] \in PathsOf(layers) THEN nextLayers[n - 1]
        ELSE Append(nextLayers[n - 1], [path |-> paths[n], value |-> "Enabled"])
  IN  nextLayers[Len(paths)]

\* Mutant: the direction of the drag is not considered.
DragDropReorderBefore(layers, source, target) ==
  LET s == Find(layers, source)
      t == Find(layers, target)
      without == RemoveAt(layers, s)
  IN  IF s = 0 \/ t = 0 \/ s = t THEN layers
      ELSE InsertAt(without, Find(without, target), source)

\* The source is removed and put where the target is: before it if it comes
\* from below, after it if it comes from above.
DragDropReorder(layers, source, target) ==
  LET s == Find(layers, source)
      t == Find(layers, target)
      without == RemoveAt(layers, s)
      u == Find(without, target)
  IN  IF s = 0 \/ t = 0 \/ s = t THEN layers
      ELSE InsertAt(without, IF s > t THEN u ELSE u + 1, source)

-----------------------------------------------------------------------------
(* The Fix of each kind of FixableLintError.                               *)

\* Mutant: when the anchor is gone, the copy is returned as it is by then.
OrderingFixLosing(layers, moved, position, anchor) ==
  LET moveIt == FindKey(layers, moved)
      without == RemoveAt(layers, moveIt)
      anchorIt == FindKey(without, anchor)
  IN  IF moveIt = 0 THEN layers
      ELSE IF anchorIt = 0 THEN without
      ELSE InsertAt(without, IF position = "Above" THEN anchorIt ELSE anchorIt + 1, layers[moveIt])

OrderingFix(layers, moved, position, anchor) ==
  LET moveIt == FindKey(layers, moved)
      without == RemoveAt(layers, moveIt)
      anchorIt == FindKey(without, anchor)
  IN  IF moveIt = 0 \/ anchorIt = 0 THEN layers
      ELSE InsertAt(without, IF position = "Above" THEN anchorIt ELSE anchorIt + 1, layers[moveIt])

\* KnownBadLayerLintError and InvalidLayerStateLintError.
DisableFix(layers, path) ==
  LET i == FindKey(layers, path)
  IN  IF i # 0 THEN SetValue(layers, i, "Disabled") ELSE layers

\* InvalidLayerLintError.
RemoveFix(layers, path) ==
  LET i == FindKey(layers, path)
  IN  IF i # 0 THEN RemoveAt(layers, i) ELSE layers

\* MustBeLastLayerLintError: the layer changes places with the last one.
LastFix(layers, path) ==
  LET i == FindKey(layers, path)
  IN  IF i # 0 THEN Swap(layers, i, Len(layers)) ELSE layers

Fixes ==
  [kind : {"ordering"}, path : Paths, position : {"Above", "Below"}, anchor : Paths]
    \cup [kind : {"disable", "remove", "last"}, path : Paths]

Fix(layers, fix) ==
  CASE fix.kind = "ordering" -> OrderingFix(layers, fix.path, fix.position, fix.anchor)
    [] fix.kind = "disable" -> DisableFix(layers, fix.path)
    [] fix.kind = "remove" -> RemoveFix(layers, fix.path)
    [] fix.kind = "last" -> LastFix(layers, fix.path)

\* Fix Them! applies every error's fix to what the last one returned.
FixThem(layers, fixes) ==
  LET fixed[n \in 0..Len(fixes)] ==
        IF n = 0 THEN layers ELSE Fix(fixed[n - 1], fixes[n])
  IN  fixed[Len(fixes)]

-----------------------------------------------------------------------------
(* A registry key, as RegEnumValueW lists it.                              *)

\* Names are unique.
IsKey(layers) ==
  /\ layers \in Seq(Layer)
  /\ \A i, j \in DOMAIN layers : layers[i].path = layers[j].path => i = j

\* Every list with these layers and no others that can be a key.
Keys ==
  UNION {{layers \in [1..n -> Layer] : IsKey(layers)} : n \in 0..Cardinality(Paths)}

\* A new name goes to the end; one that is there already keeps its place.
RegSetValue(key, layer) ==
  LET i == FindKey(key, layer.path)
  IN  IF i # 0 THEN [key EXCEPT ![i] = layer] ELSE Append(key, layer)

RegDeleteValue(key, path) ==
  LET i == FindKey(key, path)
  IN  IF i # 0 THEN RemoveAt(key, i) ELSE key

\* What SetAPILayers leaves if nothing interferes: every value is a DWORD.
Written(layers) ==
  [i \in DOMAIN layers |->
     [layers[i] EXCEPT !.value = IF IsEnabled(layers[i]) THEN "Enabled" ELSE "Disabled"]]
=============================================================================
