--------------------------- MODULE LayerStoreProofs ---------------------------
(***************************************************************************)
(* Proofs about LayerStore: for any set of paths, any list that is written *)
(* and any number of writes by other programs and of restarts.             *)
(***************************************************************************)
EXTENDS LayerStore, LayerEditsProofs

-----------------------------------------------------------------------------
(* Inductive invariants.                                                   *)

\* Paths that are in a backup, or that this run's backup cannot have.
Safe == saved \cup recent \cup skipped

\* While the backup is made, what was enumerated is in layers; once it was made,
\* everything in the key is safe.
SavedInv ==
  /\ pc \in {"compare", "delete", "set"} => mHaveBackup
  /\ pc = "backup" =>
       \A j \in DOMAIN key : j < index => key[j].path \in PathsOf(layers) \cup recent \cup skipped
  /\ mHaveBackup => PathsOf(key) \subseteq Safe
  /\ pc \in {"compare", "delete"} => PathsOf(layers) \subseteq Safe

\* What others wrote during the call, or made an enumeration pass over.
Disturbed == touched \cup skipped

\* How far the call has come, as far as paths go: those read, those that are left
\* to be deleted, and those that were set.
DifferInv ==
  /\ pc = "compare" =>
       \A j \in DOMAIN key : j < index => key[j].path \in PathsOf(layers) \cup Disturbed
  /\ pc = "delete" =>
       \A p \in PathsOf(key) \ Disturbed :
         \E i \in index..Len(layers) : layers[i].path = p
  /\ pc = "set" =>
       /\ \A p \in PathsOf(key) \ Disturbed :
            \E i \in 1..(index - 1) : wanted[i].path = p
       /\ \A i \in 1..(index - 1) : wanted[i].path \in PathsOf(key) \cup touched
  /\ OnlyTouchedDiffer

\* If nobody else wrote during the call, the key is what the call has made of it:
\* what it has read so far, the end of the old list, the beginning of the new one.
AloneInv ==
  touched = {} =>
    /\ Enumerating => /\ Len(layers) <= Len(key)
                      /\ \A j \in DOMAIN layers : layers[j] = key[j]
    /\ pc \in {"delete", "set"} => IsKey(layers) /\ layers # wanted
    /\ pc = "delete" => /\ Len(key) = Len(layers) - (index - 1)
                        /\ \A j \in DOMAIN key : key[j] = layers[(index - 1) + j]
    /\ pc = "set" => /\ Len(key) = index - 1
                     /\ \A j \in DOMAIN key : key[j] = Written(wanted)[j]

-----------------------------------------------------------------------------
(* Types.                                                                  *)

LEMMA EmptyKey == IsKey(<<>>) /\ PathsOf(<<>>) = {} /\ <<>> \in Seq(Layer) /\ Len(<<>>) = 0
  BY DEF IsKey, PathsOf

LEMMA IsKeyOfKeys == \A list \in Keys : IsKey(list)
  BY DEF Keys

\* What SetNext writes is a layer with the path of the wanted one.
LEMMA WrittenLayer ==
  ASSUME IsKey(wanted), NEW i \in 1..Len(wanted)
  PROVE  Written(wanted)[i] \in Layer /\ Written(wanted)[i].path = wanted[i].path
<1>1. wanted \in Seq(Layer)
  BY DEF IsKey
<1>2. Written(wanted) \in Seq(Layer) /\ Len(Written(wanted)) = Len(wanted)
  BY <1>1, WrittenProperties
<1>3. Written(wanted)[i].path = wanted[i].path
  BY <1>1, WrittenProperties
<1> QED
  BY <1>1, <1>2, <1>3, ElementOfSeq

LEMMA PathsOfKey ==
  ASSUME NEW list \in Seq(Layer)
  PROVE  /\ \A i \in DOMAIN list : list[i] \in Layer /\ list[i].path \in Paths
         /\ PathsOf(list) \subseteq Paths
<1>1. \A i \in DOMAIN list : list[i] \in Layer
  OBVIOUS
<1>2. \A l \in Layer : l.path \in Paths
  BY DEF Layer
<1> QED
  BY <1>1, <1>2 DEF PathsOf

\* Every variable keeps its type, and a key has each name once, in every reachable
\* state.
THEOREM StoreTypeCorrect == Spec => []TypeOK
<1>1. Init => TypeOK
  <2> SUFFICES ASSUME Init PROVE TypeOK
    OBVIOUS
  <2>1. IsKey(key) /\ IsKey(wanted) /\ layers \in Seq(Layer)
    BY EmptyKey, IsKeyOfKeys DEF Init
  <2>2. mHaveBackup \in BOOLEAN /\ result \in BOOLEAN
    BY DEF Init
  <2>3. foreign \in 0..MaxForeign /\ restarts \in 0..MaxRestarts
    BY BoundsAssumption DEF Init
  <2> QED
    BY <2>1, <2>2, <2>3 DEF Init, TypeOK, Enumerating
<1>2. TypeOK /\ [Next]_vars => TypeOK'
  <2> SUFFICES ASSUME TypeOK, [Next]_vars PROVE TypeOK'
    OBVIOUS
  <2> USE BoundsAssumption DEF TypeOK, Enumerating
  <2>0. key \in Seq(Layer) /\ wanted \in Seq(Layer) /\ Len(layers) \in Nat
    BY DEF IsKey
  <2>1. ASSUME NEW newLayers \in Keys, Call(newLayers) PROVE TypeOK'
    BY <2>1, IsKeyOfKeys, EmptyKey DEF Call, Enumerate
  <2>2. CASE EnumValue
    <3>1. key[index] \in Layer
      BY <2>0, <2>2, ElementOfSeq DEF EnumValue
    <3>2. layers' \in Seq(Layer) /\ Len(layers') = Len(layers) + 1
      BY <2>2, <3>1, AppendProperties DEF EnumValue
    <3> QED
      BY <2>0, <2>2, <3>2 DEF EnumValue
  <2>3. CASE SaveBackup
    <3>1. PathsOf(layers) \subseteq Paths
      BY PathsOfKey
    <3> QED
      BY <2>3, <3>1, EmptyKey DEF SaveBackup, Enumerate
  <2>4. CASE NothingToWrite
    BY <2>4 DEF NothingToWrite
  <2>5. CASE SomethingToWrite
    BY <2>0, <2>5 DEF SomethingToWrite
  <2>6. CASE DeleteValue
    <3>1. IsKey(key')
      BY <2>6, RegDeleteValueProperties DEF DeleteValue
    <3> QED
      BY <2>0, <2>6, <3>1 DEF DeleteValue
  <2>7. CASE AllDeleted
    BY <2>0, <2>7 DEF AllDeleted
  <2>8. CASE SetNext
    <3>1. index \in 1..Len(wanted)
      BY <2>0, <2>8 DEF SetNext
    <3>2. IsKey(key')
      BY <2>8, <3>1, WrittenLayer, RegSetValueProperties DEF SetNext
    <3>3. wanted[index].path \in Paths
      BY <2>0, <3>1, PathsOfKey
    <3> QED
      BY <2>0, <2>8, <3>1, <3>2, <3>3 DEF SetNext
  <2>9. CASE Return
    BY <2>9 DEF Return
  <2>10. ASSUME NEW layer \in Layer, ForeignSet(layer) PROVE TypeOK'
    <3>1. IsKey(key')
      BY <2>10, RegSetValueProperties DEF ForeignSet
    <3>2. layer.path \in Paths
      BY DEF Layer
    <3> QED
      BY <2>10, <3>1, <3>2 DEF ForeignSet, Foreign, call
  <2>11. ASSUME NEW path \in Paths, ForeignDelete(path) PROVE TypeOK'
    <3>1. IsKey(key')
      BY <2>11, RegDeleteValueProperties DEF ForeignDelete
    <3>2. skipped' \subseteq Paths
      <4>1. index <= Len(key) => key[index].path \in Paths
        BY <2>0, PathsOfKey
      <4> QED
        BY <2>11, <4>1 DEF ForeignDelete
    <3> QED
      BY <2>11, <3>1, <3>2 DEF ForeignDelete, Foreign, call
  <2>12. CASE Restart
    <3>1. /\ IsKey(key') /\ IsKey(wanted') /\ saved' \subseteq Paths /\ recent' \subseteq Paths
          /\ skipped' \subseteq Paths /\ touched' \subseteq Paths
      BY <2>12 DEF Restart
    <3>2. foreign' \in 0..MaxForeign /\ restarts' \in 0..MaxRestarts
      BY <2>12 DEF Restart
    <3>3. layers' \in Seq(Layer) /\ index' = 1 /\ pc' = "idle"
      BY <2>12, EmptyKey DEF Restart
    <3>4. mHaveBackup' \in BOOLEAN /\ result' \in BOOLEAN
      BY <2>12 DEF Restart
    <3> QED
      BY <3>1, <3>2, <3>3, <3>4
  <2>13. CASE UNCHANGED vars
    BY <2>13 DEF vars, call
  <2> QED
    BY <2>1, <2>2, <2>3, <2>4, <2>5, <2>6, <2>7, <2>8, <2>9, <2>10, <2>11, <2>12, <2>13
       DEF Next, Write
<1> QED
  BY <1>1, <1>2, PTL DEF Spec

\* A value that is enumerated adds its path to those that were read.
LEMMA AppendPaths ==
  ASSUME NEW list \in Seq(Layer), NEW layer \in Layer
  PROVE  PathsOf(Append(list, layer)) = PathsOf(list) \cup {layer.path}
<1>1. /\ DOMAIN Append(list, layer) = DOMAIN list \cup {Len(list) + 1}
      /\ Append(list, layer)[Len(list) + 1] = layer
      /\ \A j \in DOMAIN list : Append(list, layer)[j] = list[j]
  BY AppendProperties
<1> QED
  BY <1>1 DEF PathsOf

\* A value that is set keeps the paths at all places and may add one at the end.
LEMMA SetPaths ==
  ASSUME IsKey(key), NEW layer \in Layer, NEW j \in DOMAIN RegSetValue(key, layer)
  PROVE  \/ RegSetValue(key, layer)[j].path = layer.path
         \/ j \in DOMAIN key /\ RegSetValue(key, layer)[j].path = key[j].path
<1>1. key \in Seq(Layer) /\ DOMAIN key = 1..Len(key)
  BY DEF IsKey
<1>2. CASE layer.path \notin PathsOf(key)
  <2>1. RegSetValue(key, layer) = Append(key, layer)
    BY <1>2, RegSetValueProperties
  <2> QED
    BY <1>1, <2>1, AppendProperties
<1>3. CASE layer.path \in PathsOf(key)
  <2>1. /\ RegSetValue(key, layer) \in Seq(Layer)
        /\ Len(RegSetValue(key, layer)) = Len(key)
        /\ \A k \in DOMAIN key : RegSetValue(key, layer)[k].path = key[k].path
    BY <1>3, RegSetValueProperties DEF IsKey
  <2>2. DOMAIN RegSetValue(key, layer) = 1..Len(key)
    BY <2>1
  <2> QED
    BY <1>1, <2>1, <2>2
<1> QED
  BY <1>2, <1>3

\* When another program deletes a value, the one that is at a place that was
\* enumerated already was enumerated too, or counts as passed over.
LEMMA MovedUp ==
  ASSUME TypeOK, Enumerating, NEW path \in Paths, ForeignDelete(path),
         NEW j \in DOMAIN key', j < index
  PROVE  \/ j \in DOMAIN key /\ key'[j].path = key[j].path
         \/ key'[j].path \in skipped'
         \/ j + 1 \in DOMAIN key /\ j + 1 < index /\ key'[j].path = key[j + 1].path
<1> DEFINE i == FindKey(key, path)
<1>1. /\ key \in Seq(Layer) /\ Len(key) \in Nat /\ DOMAIN key = 1..Len(key)
      /\ index \in Nat \ {0} /\ IsKey(key)
  BY DEF TypeOK, IsKey
<1>2. key' = RegDeleteValue(key, path) /\ path \in PathsOf(key)
  BY DEF ForeignDelete
<1>3. /\ IsKey(key')
      /\ Len(key') = Len(key) - 1
      /\ \A k \in 1..(Len(key) - 1) : key'[k] = IF k < i THEN key[k] ELSE key[k + 1]
  BY <1>1, <1>2, RegDeleteValueProperties
<1>4. j \in 1..(Len(key) - 1)
  BY <1>3 DEF IsKey
<1>5. i \in Nat
  BY <1>1, FindKeyProperties
<1>6. skipped' = IF i < index /\ index <= Len(key)
                 THEN skipped \cup {key[index].path} ELSE skipped
  BY DEF ForeignDelete
<1> HIDE DEF i
<1>7. CASE j < i
  BY <1>1, <1>3, <1>4, <1>7
<1>8. CASE ~(j < i)
  <2>1. key'[j] = key[j + 1] /\ j + 1 \in DOMAIN key
    BY <1>1, <1>3, <1>4, <1>8
  <2>2. CASE j + 1 < index
    BY <2>1, <2>2
  <2>3. CASE ~(j + 1 < index)
    <3>1. j + 1 = index /\ i < index /\ index <= Len(key)
      BY <1>1, <1>4, <1>5, <1>8, <2>3
    <3> QED
      BY <1>6, <2>1, <3>1
  <2> QED
    BY <2>2, <2>3
<1> QED
  BY <1>7, <1>8

-----------------------------------------------------------------------------
(* What is deleted is in a backup.                                         *)

LEMMA InitSaved == Init => SavedInv
  BY DEF Init, SavedInv

LEMMA NextSaved == TypeOK /\ SavedInv /\ [Next]_vars => SavedInv'
<1> SUFFICES ASSUME TypeOK, SavedInv, [Next]_vars PROVE SavedInv'
  OBVIOUS
<1> USE DEF SavedInv, Safe
<1>0. /\ IsKey(key) /\ key \in Seq(Layer) /\ wanted \in Seq(Layer) /\ layers \in Seq(Layer)
      /\ Len(key) \in Nat /\ Len(layers) \in Nat /\ Len(wanted) \in Nat
      /\ index \in Nat \ {0}
      /\ pc \in {"idle", "backup", "compare", "delete", "set"}
      /\ DOMAIN key = 1..Len(key) /\ DOMAIN layers = 1..Len(layers)
  BY DEF TypeOK, IsKey
<1>1. ASSUME NEW newLayers \in Keys, Call(newLayers) PROVE SavedInv'
  <2>1. PathsOf(layers') = {}
    BY <1>1, EmptyKey DEF Call, Enumerate
  <2>2. \A j \in DOMAIN key : ~(j < 1)
    BY <1>0
  <2> QED
    BY <1>1, <2>1, <2>2 DEF Call, Enumerate
<1>2. CASE EnumValue
  <2>1. PathsOf(layers') = PathsOf(layers) \cup {key[index].path}
    BY <1>0, <1>2, AppendPaths DEF EnumValue
  <2>2. \A j \in DOMAIN key : j < index + 1 => j < index \/ j = index
    BY <1>0
  <2>3. key[index].path \in PathsOf(key)
    <3>1. index \in DOMAIN key
      BY <1>0, <1>2 DEF EnumValue
    <3> QED
      BY <3>1 DEF PathsOf
  <2> QED
    BY <1>2, <2>1, <2>2, <2>3 DEF EnumValue
<1>3. CASE SaveBackup
  <2>1. \A j \in DOMAIN key : j < index
    BY <1>0, <1>3 DEF SaveBackup
  <2>2. PathsOf(key) \subseteq PathsOf(layers) \cup recent \cup skipped
    BY <1>3, <2>1 DEF SaveBackup, PathsOf
  <2>3. PathsOf(key') \subseteq Safe'
    BY <1>3, <2>2 DEF SaveBackup
  <2>4. PathsOf(layers') = {}
    BY <1>3, EmptyKey DEF SaveBackup, Enumerate
  <2> QED
    BY <1>3, <2>3, <2>4 DEF SaveBackup
<1>4. CASE NothingToWrite
  BY <1>4 DEF NothingToWrite
<1>5. CASE SomethingToWrite
  BY <1>5 DEF SomethingToWrite
<1>6. CASE DeleteValue
  <2>1. PathsOf(key') \subseteq PathsOf(key)
    BY <1>0, <1>6, RegDeleteValueProperties DEF DeleteValue
  <2> QED
    BY <1>6, <2>1 DEF DeleteValue
<1>7. CASE AllDeleted
  BY <1>7 DEF AllDeleted
<1>8. CASE SetNext
  <2>1. index \in 1..Len(wanted)
    BY <1>0, <1>8 DEF SetNext
  <2>2. Written(wanted)[index] \in Layer /\ Written(wanted)[index].path = wanted[index].path
    BY <2>1, WrittenLayer DEF TypeOK
  <2>3. PathsOf(key') = PathsOf(key) \cup {wanted[index].path}
    <3> DEFINE layer == Written(wanted)[index]
    <3>1. key' = RegSetValue(key, layer)
      BY <1>8 DEF SetNext
    <3>2. layer \in Layer /\ layer.path = wanted[index].path
      BY <2>2
    <3> HIDE DEF layer
    <3>3. PathsOf(RegSetValue(key, layer)) = PathsOf(key) \cup {layer.path}
      BY <1>0, <3>2, RegSetValueProperties
    <3> QED
      BY <3>1, <3>2, <3>3
  <2> QED
    BY <1>8, <2>3 DEF SetNext
<1>9. CASE Return
  BY <1>9 DEF Return
<1>10. ASSUME NEW layer \in Layer, ForeignSet(layer) PROVE SavedInv'
  <2>1. PathsOf(key') = PathsOf(key) \cup {layer.path}
    BY <1>0, <1>10, RegSetValueProperties DEF ForeignSet
  <2>2. ASSUME NEW j \in DOMAIN key'
        PROVE  key'[j].path = layer.path \/ (j \in DOMAIN key /\ key'[j].path = key[j].path)
    BY <1>0, <1>10, SetPaths DEF ForeignSet
  <2>3. recent' = recent \cup {layer.path} /\ UNCHANGED <<saved, skipped, mHaveBackup, call>>
    BY <1>10 DEF ForeignSet, Foreign
  <2> QED
    BY <2>1, <2>2, <2>3 DEF call
<1>11. ASSUME NEW path \in Paths, ForeignDelete(path) PROVE SavedInv'
  <2>1. PathsOf(key') \subseteq PathsOf(key)
    BY <1>0, <1>11, RegDeleteValueProperties DEF ForeignDelete
  <2>2. UNCHANGED <<saved, recent, mHaveBackup, call>> /\ skipped \subseteq skipped'
    BY <1>11 DEF ForeignDelete, Foreign
  <2>3. ASSUME pc = "backup", NEW j \in DOMAIN key', j < index
        PROVE  key'[j].path \in PathsOf(layers) \cup recent \cup skipped'
    <3>1. \/ j \in DOMAIN key /\ key'[j].path = key[j].path
          \/ key'[j].path \in skipped'
          \/ j + 1 \in DOMAIN key /\ j + 1 < index /\ key'[j].path = key[j + 1].path
      BY <1>11, <2>3, MovedUp DEF Enumerating
    <3> QED
      BY <2>2, <2>3, <3>1
  <2> QED
    BY <2>1, <2>2, <2>3 DEF call
<1>12. CASE Restart
  BY <1>12 DEF Restart
<1>13. CASE UNCHANGED vars
  BY <1>13 DEF vars, call
<1> QED
  BY <1>1, <1>2, <1>3, <1>4, <1>5, <1>6, <1>7, <1>8, <1>9, <1>10, <1>11, <1>12, <1>13
     DEF Next, Write

LEMMA SavedInvariant == Spec => []SavedInv
  BY InitSaved, NextSaved, StoreTypeCorrect, PTL DEF Spec

\* A value is not deleted before a backup has it, unless no backup could: whatever
\* others write meanwhile, and wherever the program dies.
THEOREM Saved == Spec => []SavedBeforeDeleted
<1>1. TypeOK /\ SavedInv => SavedBeforeDeleted
  <2> SUFFICES ASSUME TypeOK, SavedInv, pc = "delete", NEW i \in index..Len(layers)
               PROVE  layers[i].path \in saved \cup recent \cup skipped
    BY DEF SavedBeforeDeleted
  <2>1. i \in DOMAIN layers
    BY DEF TypeOK
  <2>2. layers[i].path \in PathsOf(layers)
    BY <2>1 DEF PathsOf
  <2> QED
    BY <2>2 DEF SavedInv, Safe
<1> QED
  BY <1>1, StoreTypeCorrect, SavedInvariant, PTL

-----------------------------------------------------------------------------
(* What SetAPILayers leaves.                                               *)

LEMMA InitDiffer == Init => DifferInv
  BY DEF Init, DifferInv, OnlyTouchedDiffer

LEMMA NextDiffer == TypeOK /\ DifferInv /\ [Next]_vars => DifferInv'
<1> SUFFICES ASSUME TypeOK, DifferInv, [Next]_vars PROVE DifferInv'
  OBVIOUS
<1> USE DEF DifferInv, Disturbed, OnlyTouchedDiffer
<1>0. /\ IsKey(key) /\ key \in Seq(Layer) /\ wanted \in Seq(Layer) /\ layers \in Seq(Layer)
      /\ Len(key) \in Nat /\ Len(layers) \in Nat /\ Len(wanted) \in Nat
      /\ index \in Nat \ {0}
      /\ pc \in {"idle", "backup", "compare", "delete", "set"}
      /\ DOMAIN key = 1..Len(key) /\ DOMAIN layers = 1..Len(layers)
  BY DEF TypeOK, IsKey
<1>1. ASSUME NEW newLayers \in Keys, Call(newLayers) PROVE DifferInv'
  <2>1. \A j \in DOMAIN key : ~(j < 1)
    BY <1>0
  <2> QED
    BY <1>1, <2>1 DEF Call, Enumerate
<1>2. CASE EnumValue
  <2>1. PathsOf(layers') = PathsOf(layers) \cup {key[index].path}
    BY <1>0, <1>2, AppendPaths DEF EnumValue
  <2>2. \A j \in DOMAIN key : j < index + 1 => j < index \/ j = index
    BY <1>0
  <2> QED
    BY <1>2, <2>1, <2>2 DEF EnumValue, Enumerating
<1>3. CASE SaveBackup
  <2>1. \A j \in DOMAIN key : ~(j < 1)
    BY <1>0
  <2> QED
    BY <1>3, <2>1 DEF SaveBackup, Enumerate
<1>4. CASE NothingToWrite
  BY <1>4 DEF NothingToWrite
<1>5. CASE SomethingToWrite
  <2>1. \A j \in DOMAIN key : j < index
    BY <1>0, <1>5 DEF SomethingToWrite
  <2>2. PathsOf(key) \subseteq PathsOf(layers) \cup Disturbed
    BY <1>5, <2>1 DEF SomethingToWrite, PathsOf
  <2>3. \A p \in PathsOf(layers) : \E i \in 1..Len(layers) : layers[i].path = p
    BY <1>0 DEF PathsOf
  <2> QED
    BY <1>5, <2>2, <2>3 DEF SomethingToWrite
<1>6. CASE DeleteValue
  <2>1. PathsOf(key') = PathsOf(key) \ {layers[index].path}
    BY <1>0, <1>6, RegDeleteValueProperties DEF DeleteValue
  <2>2. ASSUME NEW p \in PathsOf(key') \ Disturbed
        PROVE  \E i \in (index + 1)..Len(layers) : layers[i].path = p
    <3>1. PICK i \in index..Len(layers) : layers[i].path = p
      BY <1>6, <2>1 DEF DeleteValue
    <3>2. i # index
      BY <2>1, <3>1
    <3> QED
      BY <1>0, <3>1, <3>2
  <2> QED
    BY <1>6, <2>2 DEF DeleteValue
<1>7. CASE AllDeleted
  <2>1. PathsOf(key) \subseteq Disturbed
    <3>1. \A i \in index..Len(layers) : FALSE
      BY <1>0, <1>7 DEF AllDeleted
    <3> QED
      BY <1>7, <3>1 DEF AllDeleted
  <2>2. \A i \in 1..(1 - 1) : FALSE
    OBVIOUS
  <2> QED
    BY <1>7, <2>1, <2>2 DEF AllDeleted
<1>8. CASE SetNext
  <2>1. index \in 1..Len(wanted)
    BY <1>0, <1>8 DEF SetNext
  <2>2. Written(wanted)[index] \in Layer /\ Written(wanted)[index].path = wanted[index].path
    BY <2>1, WrittenLayer DEF TypeOK
  <2>3. PathsOf(key') = PathsOf(key) \cup {wanted[index].path}
    <3> DEFINE layer == Written(wanted)[index]
    <3>1. key' = RegSetValue(key, layer)
      BY <1>8 DEF SetNext
    <3>2. layer \in Layer /\ layer.path = wanted[index].path
      BY <2>2
    <3> HIDE DEF layer
    <3>3. PathsOf(RegSetValue(key, layer)) = PathsOf(key) \cup {layer.path}
      BY <1>0, <3>2, RegSetValueProperties
    <3> QED
      BY <3>1, <3>2, <3>3
  <2>4. 1..((index + 1) - 1) = 1..(index - 1) \cup {index}
    BY <1>0
  <2> QED
    BY <1>8, <2>3, <2>4 DEF SetNext
<1>9. CASE Return
  <2>1. PathsOf(wanted) = {wanted[i].path : i \in 1..(index - 1)}
    <3>1. index = Len(wanted) + 1
      BY <1>0, <1>9 DEF Return, TypeOK
    <3>2. DOMAIN wanted = 1..(index - 1)
      BY <1>0, <3>1
    <3> QED
      BY <3>2 DEF PathsOf
  <2> QED
    BY <1>9, <2>1 DEF Return
<1>10. ASSUME NEW layer \in Layer, ForeignSet(layer) PROVE DifferInv'
  <2>1. PathsOf(key') = PathsOf(key) \cup {layer.path}
    BY <1>0, <1>10, RegSetValueProperties DEF ForeignSet
  <2>2. ASSUME NEW j \in DOMAIN key'
        PROVE  key'[j].path = layer.path \/ (j \in DOMAIN key /\ key'[j].path = key[j].path)
    BY <1>0, <1>10, SetPaths DEF ForeignSet
  <2>3. /\ touched' = touched \cup {layer.path}
        /\ UNCHANGED <<skipped, pc, wanted, layers, index, result>>
    BY <1>10 DEF ForeignSet, Foreign, call
  <2> QED
    BY <2>1, <2>2, <2>3
<1>11. ASSUME NEW path \in Paths, ForeignDelete(path) PROVE DifferInv'
  <2>1. PathsOf(key') = PathsOf(key) \ {path}
    BY <1>0, <1>11, RegDeleteValueProperties DEF ForeignDelete
  <2>2. /\ touched' = touched \cup {path} /\ skipped \subseteq skipped'
        /\ UNCHANGED <<pc, wanted, layers, index, result>>
    BY <1>11 DEF ForeignDelete, Foreign, call
  <2>3. ASSUME pc = "compare", NEW j \in DOMAIN key', j < index
        PROVE  key'[j].path \in PathsOf(layers) \cup Disturbed'
    <3>1. \/ j \in DOMAIN key /\ key'[j].path = key[j].path
          \/ key'[j].path \in skipped'
          \/ j + 1 \in DOMAIN key /\ j + 1 < index /\ key'[j].path = key[j + 1].path
      BY <1>11, <2>3, MovedUp DEF Enumerating
    <3> QED
      BY <2>2, <2>3, <3>1
  <2> QED
    BY <2>1, <2>2, <2>3
<1>12. CASE Restart
  BY <1>12 DEF Restart
<1>13. CASE UNCHANGED vars
  BY <1>13 DEF vars, call
<1> QED
  BY <1>1, <1>2, <1>3, <1>4, <1>5, <1>6, <1>7, <1>8, <1>9, <1>10, <1>11, <1>12, <1>13
     DEF Next, Write

\* When SetAPILayers says that it wrote, the key has the layers that it was given and
\* no others, but for those that other programs wrote or made it pass over.
THEOREM OnlyDisturbedDiffer == Spec => []OnlyTouchedDiffer
<1>1. DifferInv => OnlyTouchedDiffer
  BY DEF DifferInv
<1> QED
  BY <1>1, InitDiffer, NextDiffer, StoreTypeCorrect, PTL DEF Spec

-----------------------------------------------------------------------------
(* While nobody else writes.                                               *)

LEMMA InitAlone == Init => AloneInv
  BY DEF Init, AloneInv, Enumerating

LEMMA NextAlone == TypeOK /\ AloneInv /\ [Next]_vars => AloneInv'
<1> SUFFICES ASSUME TypeOK, AloneInv, [Next]_vars, touched' = {} PROVE AloneInv'
  BY DEF AloneInv
<1> USE DEF AloneInv, Enumerating
<1>0. /\ IsKey(key) /\ key \in Seq(Layer) /\ wanted \in Seq(Layer) /\ layers \in Seq(Layer)
      /\ Len(key) \in Nat /\ Len(layers) \in Nat /\ Len(wanted) \in Nat
      /\ index \in Nat \ {0}
      /\ pc \in {"idle", "backup", "compare", "delete", "set"}
      /\ Enumerating => index = Len(layers) + 1
      /\ DOMAIN key = 1..Len(key) /\ DOMAIN layers = 1..Len(layers)
  BY DEF TypeOK, IsKey
<1>1. ASSUME NEW newLayers \in Keys, Call(newLayers) PROVE AloneInv'
  BY <1>0, <1>1, EmptyKey DEF Call, Enumerate
<1>2. CASE EnumValue
  <2>1. key[index] \in Layer
    BY <1>0, <1>2, ElementOfSeq DEF EnumValue
  <2>2. /\ Len(layers') = Len(layers) + 1
        /\ DOMAIN layers' = DOMAIN layers \cup {Len(layers) + 1}
        /\ layers'[Len(layers) + 1] = key[index]
        /\ \A j \in DOMAIN layers : layers'[j] = layers[j]
    BY <1>0, <1>2, <2>1, AppendProperties DEF EnumValue
  <2> QED
    BY <1>0, <1>2, <2>2 DEF EnumValue
<1>3. CASE SaveBackup
  BY <1>0, <1>3, EmptyKey DEF SaveBackup, Enumerate
<1>4. CASE NothingToWrite
  BY <1>4 DEF NothingToWrite
<1>5. CASE SomethingToWrite
  <2>1. Len(key) = Len(layers) /\ layers = key
    <3>1. pc = "compare" /\ index > Len(key) /\ touched = {}
      BY <1>5 DEF SomethingToWrite
    <3>2. Len(layers) <= Len(key) /\ \A j \in DOMAIN layers : layers[j] = key[j]
      BY <3>1
    <3>3. index = Len(layers) + 1
      BY <1>0, <3>1
    <3>4. Len(key) = Len(layers)
      <4> HIDE DEF AloneInv, Enumerating
      <4>1. Len(key) \in Nat /\ Len(layers) \in Nat
        BY <1>0
      <4>2. index > Len(key) /\ Len(layers) <= Len(key)
        BY <3>1, <3>2
      <4> QED
        BY ONLY <3>3, <4>1, <4>2
    <3> QED
      BY ONLY <1>0, <3>2, <3>4, SeqEqual
  <2> QED
    BY <1>0, <1>5, <2>1 DEF SomethingToWrite
<1>6. CASE DeleteValue
  <2>1. /\ pc = "delete" /\ pc' = "delete" /\ UNCHANGED <<layers, wanted>> /\ touched = {}
        /\ index' = index + 1 /\ index <= Len(layers)
        /\ key' = RegDeleteValue(key, layers[index].path)
    BY <1>6 DEF DeleteValue
  <2>2. /\ 1 \in DOMAIN key /\ key[1] = layers[index]
    BY <1>0, <2>1
  <2>3. layers[index].path \in PathsOf(key)
    BY <2>2 DEF PathsOf
  <2>4. FindKey(key, layers[index].path) = 1
    <3>1. /\ FindKey(key, layers[index].path) \in DOMAIN key
          /\ key[FindKey(key, layers[index].path)].path = key[1].path
      BY <1>0, <2>2, <2>3, FindKeyProperties
    <3> QED
      BY <1>0, <2>2, <3>1 DEF IsKey
  <2>5. /\ Len(key') = Len(key) - 1
        /\ \A j \in 1..(Len(key) - 1) : key'[j] = key[j + 1]
        /\ DOMAIN key' = 1..(Len(key) - 1)
    <3>1. /\ Len(key') = Len(key) - 1 /\ IsKey(key')
          /\ \A j \in 1..(Len(key) - 1) : key'[j] = IF j < 1 THEN key[j] ELSE key[j + 1]
      <4> DEFINE path == layers[index].path
      <4>1. key' = RegDeleteValue(key, path) /\ path \in PathsOf(key) /\ FindKey(key, path) = 1
        BY <2>1, <2>3, <2>4
      <4> HIDE DEF path
      <4>2. /\ IsKey(RegDeleteValue(key, path))
            /\ Len(RegDeleteValue(key, path)) = Len(key) - 1
            /\ \A j \in 1..(Len(key) - 1) :
                 RegDeleteValue(key, path)[j]
                   = IF j < FindKey(key, path) THEN key[j] ELSE key[j + 1]
        BY ONLY <1>0, <4>1, RegDeleteValueProperties
      <4> QED
        BY ONLY <4>1, <4>2
    <3> QED
      BY <1>0, <3>1 DEF IsKey
  <2>6. /\ Len(key) = Len(layers) - (index - 1)
        /\ \A j \in DOMAIN key : key[j] = layers[(index - 1) + j]
    BY <2>1
  <2>7. Len(key') = Len(layers) - (index' - 1)
    BY <1>0, <2>1, <2>5, <2>6
  <2>8. ASSUME NEW j \in DOMAIN key' PROVE key'[j] = layers[(index' - 1) + j]
    <3>1. j + 1 \in DOMAIN key /\ (index - 1) + (j + 1) = (index' - 1) + j
      BY <1>0, <2>1, <2>5
    <3> QED
      BY <2>5, <2>6, <3>1
  <2> QED
    BY <2>1, <2>7, <2>8
<1>7. CASE AllDeleted
  <2>1. pc = "delete" /\ pc' = "set" /\ index' = 1 /\ touched = {} /\ index > Len(layers)
        /\ UNCHANGED <<key, layers, wanted>>
    BY <1>7 DEF AllDeleted
  <2>2. Len(key) = 0
    BY <1>0, <2>1
  <2> QED
    BY <1>0, <2>1, <2>2
<1>8. CASE SetNext
  <2>1. /\ pc = "set" /\ pc' = "set" /\ UNCHANGED <<layers, wanted>> /\ touched = {}
        /\ index' = index + 1 /\ index \in 1..Len(wanted)
        /\ key' = RegSetValue(key, Written(wanted)[index])
    BY <1>0, <1>8 DEF SetNext
  <2>2. Written(wanted)[index] \in Layer /\ Written(wanted)[index].path = wanted[index].path
    BY <2>1, WrittenLayer DEF TypeOK
  <2>3. Written(wanted)[index].path \notin PathsOf(key)
    <3>1. SUFFICES ASSUME NEW j \in DOMAIN key, key[j].path = wanted[index].path PROVE FALSE
      BY <2>2 DEF PathsOf
    <3>2. j \in DOMAIN wanted /\ j # index /\ key[j] = Written(wanted)[j]
      BY <1>0, <2>1
    <3>3. wanted[j].path = wanted[index].path
      BY <1>0, <3>1, <3>2, WrittenProperties
    <3> QED
      BY <1>0, <2>1, <3>2, <3>3 DEF TypeOK, IsKey
  <2>4. key' = Append(key, Written(wanted)[index])
    <3> DEFINE layer == Written(wanted)[index]
    <3> HIDE DEF layer
    <3>1. layer \in Layer /\ layer.path \notin PathsOf(key) /\ key' = RegSetValue(key, layer)
      BY <2>1, <2>2, <2>3 DEF layer
    <3>2. key' = Append(key, layer)
      BY <1>0, <3>1, RegSetValueProperties
    <3> QED
      BY <3>2 DEF layer
  <2>5. /\ Len(key') = Len(key) + 1
        /\ DOMAIN key' = DOMAIN key \cup {Len(key) + 1}
        /\ key'[Len(key) + 1] = Written(wanted)[index]
        /\ \A j \in DOMAIN key : key'[j] = key[j]
    BY <1>0, <2>2, <2>4, AppendProperties
  <2>6. Len(key) = index - 1 /\ \A j \in DOMAIN key : key[j] = Written(wanted)[j]
    BY <2>1
  <2> QED
    BY <1>0, <2>1, <2>5, <2>6
<1>9. CASE Return
  BY <1>9 DEF Return
<1>10. ASSUME NEW layer \in Layer, ForeignSet(layer) PROVE AloneInv'
  BY <1>10 DEF ForeignSet, Foreign
<1>11. ASSUME NEW path \in Paths, ForeignDelete(path) PROVE AloneInv'
  BY <1>11 DEF ForeignDelete, Foreign
<1>12. CASE Restart
  BY <1>12 DEF Restart
<1>13. CASE UNCHANGED vars
  BY <1>13 DEF vars, call
<1> QED
  BY <1>1, <1>2, <1>3, <1>4, <1>5, <1>6, <1>7, <1>8, <1>9, <1>10, <1>11, <1>12, <1>13
     DEF Next, Write

LEMMA AloneInvariant == Spec => []AloneInv
  BY InitAlone, NextAlone, StoreTypeCorrect, PTL DEF Spec

-----------------------------------------------------------------------------
(* SetAPILayers is one step of an atomic store.                            *)

\* The two modules mean the same by a key and by what is written.
LEMMA SameKeys ==
  /\ \A list : Atomic!IsKey(list) <=> IsKey(list)
  /\ \A list : Atomic!Written(list) = Written(list)
<1>1. ASSUME NEW list PROVE Atomic!IsKey(list) <=> IsKey(list)
  BY DEF Atomic!IsKey, IsKey, Atomic!Layer, Layer, Atomic!Values, Values
<1>2. ASSUME NEW list PROVE Atomic!Written(list) = Written(list)
  BY DEF Atomic!Written, Written, Atomic!IsEnabled, IsEnabled
<1> QED
  BY <1>1, <1>2

\* What is left of a list from some place on is a suffix.
LEMMA RestIsSuffix ==
  ASSUME NEW s \in Seq(Layer), NEW t \in Seq(Layer), NEW n \in Nat,
         Len(s) = Len(t) - n, \A j \in DOMAIN s : s[j] = t[n + j]
  PROVE  Atomic!IsSuffix(s, t)
<1> DEFINE r == Atomic!Reverse(s)
           q == Atomic!Reverse(t)
<1>0. Len(s) \in Nat /\ Len(t) \in Nat /\ DOMAIN s = 1..Len(s) /\ DOMAIN t = 1..Len(t)
  OBVIOUS
<1>1. /\ r = [i \in 1..Len(s) |-> s[(Len(s) - i) + 1]]
      /\ q = [i \in 1..Len(t) |-> t[(Len(t) - i) + 1]]
  BY DEF Atomic!Reverse
<1>2. \A i \in 1..Len(s) : r[i] = s[(Len(s) - i) + 1] /\ s[(Len(s) - i) + 1] \in Layer
  BY <1>0, <1>1
<1>3. \A i \in 1..Len(t) : q[i] = t[(Len(t) - i) + 1] /\ t[(Len(t) - i) + 1] \in Layer
  BY <1>0, <1>1
<1> HIDE DEF r, q
<1>4. r \in Seq(Layer) /\ Len(r) = Len(s) /\ q \in Seq(Layer) /\ Len(q) = Len(t)
  BY <1>0, <1>1, <1>2, <1>3
<1>5. \A i \in 1..Len(s) : r[i] = q[i]
  <2> TAKE i \in 1..Len(s)
  <2>1. (Len(s) - i) + 1 \in DOMAIN s /\ i \in 1..Len(t)
    BY <1>0
  <2>2. s[(Len(s) - i) + 1] = t[n + ((Len(s) - i) + 1)]
    BY <2>1
  <2>3. n + ((Len(s) - i) + 1) = (Len(t) - i) + 1
    BY <1>0
  <2> QED
    BY <1>2, <1>3, <2>1, <2>2, <2>3
<1>6. /\ SubSeq(r, 1, Len(r)) \in Seq(Layer) /\ SubSeq(q, 1, Len(r)) \in Seq(Layer)
      /\ Len(SubSeq(r, 1, Len(r))) = Len(s) /\ Len(SubSeq(q, 1, Len(r))) = Len(s)
      /\ \A i \in 1..Len(s) : SubSeq(r, 1, Len(r))[i] = r[i] /\ SubSeq(q, 1, Len(r))[i] = q[i]
  <2>1. \A i \in 1..Len(r) : r[i] \in Layer /\ q[i] \in Layer
    BY <1>0, <1>2, <1>4, <1>5
  <2> QED
    BY <1>0, <1>4, <2>1, SubSeqProperties
<1>7. SubSeq(r, 1, Len(r)) = SubSeq(q, 1, Len(r))
  BY <1>5, <1>6, SeqEqual
<1>8. Len(r) <= Len(q)
  BY <1>0, <1>4
<1> QED
  BY <1>7, <1>8 DEF Atomic!IsSuffix, Atomic!IsPrefix, r, q

\* A list that agrees with another as far as it goes is a prefix.
LEMMA BeginningIsPrefix ==
  ASSUME NEW s \in Seq(Layer), NEW t \in Seq(Layer),
         Len(s) <= Len(t), \A j \in DOMAIN s : s[j] = t[j]
  PROVE  Atomic!IsPrefix(s, t)
<1>0. Len(s) \in Nat /\ Len(t) \in Nat /\ DOMAIN s = 1..Len(s)
  OBVIOUS
<1>1. \A i \in 1..Len(s) : s[i] \in Layer /\ t[i] \in Layer
  BY <1>0
<1>2. /\ SubSeq(s, 1, Len(s)) \in Seq(Layer) /\ SubSeq(t, 1, Len(s)) \in Seq(Layer)
      /\ Len(SubSeq(s, 1, Len(s))) = Len(s) /\ Len(SubSeq(t, 1, Len(s))) = Len(s)
      /\ \A i \in 1..Len(s) : SubSeq(s, 1, Len(s))[i] = s[i] /\ SubSeq(t, 1, Len(s))[i] = t[i]
  BY <1>0, <1>1, SubSeqProperties
<1>3. SubSeq(s, 1, Len(s)) = SubSeq(t, 1, Len(s))
  BY <1>0, <1>2, SeqEqual
<1> QED
  BY <1>3 DEF Atomic!IsPrefix

\* What the atomic store has for the key.
storeKey == IF pc \in {"delete", "set"} /\ ~Interfered THEN layers ELSE key

LEMMA InitImplements == Init => Atomic!Init
<1> SUFFICES ASSUME Init PROVE Atomic!Init
  OBVIOUS
<1>1. IsKey(key) /\ pc = "idle" /\ wanted = <<>> /\ result = FALSE
  BY IsKeyOfKeys DEF Init
<1>2. ~Interfered
  BY <1>1 DEF Interfered
<1> QED
  BY <1>1, <1>2, SameKeys DEF Atomic!Init

\* A step of the call in which another program has written may change the key to
\* any other.
LEMMA InterferedStep ==
  ASSUME pc # "idle", pc' # "idle", Interfered', IsKey(key'), UNCHANGED <<wanted, result>>
  PROVE  Atomic!Interfere
<1>1. (IF pc' \in {"delete", "set"} /\ ~Interfered' THEN layers' ELSE key') = key'
  OBVIOUS
<1> QED
  BY <1>1, SameKeys DEF Atomic!Interfere

LEMMA StepImplements ==
  TypeOK /\ TypeOK' /\ AloneInv /\ [Next]_vars => [Atomic!Next]_(Atomic!vars)
<1> SUFFICES ASSUME TypeOK, TypeOK', AloneInv, [Next]_vars
             PROVE  Atomic!Next \/ UNCHANGED <<storeKey, pc # "idle", Interfered, wanted, result>>
  BY DEF Atomic!vars, storeKey
<1>0. /\ IsKey(key) /\ IsKey(key') /\ result \in BOOLEAN /\ result' \in BOOLEAN
      /\ key \in Seq(Layer) /\ layers \in Seq(Layer) /\ wanted \in Seq(Layer)
      /\ Len(key) \in Nat /\ Len(layers) \in Nat /\ Len(wanted) \in Nat
      /\ index \in Nat \ {0}
  BY DEF TypeOK, IsKey
<1>1. ASSUME NEW newLayers \in Keys, Call(newLayers) PROVE Atomic!Call
  <2>1. /\ pc = "idle" /\ pc' \in {"compare", "backup"} /\ touched' = {}
        /\ UNCHANGED <<key, result>> /\ wanted' = newLayers
    BY <1>1 DEF Call
  <2>2. Interfered = FALSE /\ Interfered' = FALSE
    BY <2>1 DEF Interfered
  <2>3. Atomic!IsKey(wanted')
    BY <2>1, IsKeyOfKeys, SameKeys
  <2>4. storeKey = key /\ storeKey' = key
    BY <2>1 DEF storeKey
  <2> QED
    BY <2>1, <2>2, <2>3, <2>4 DEF Atomic!Call, storeKey
<1>2. CASE EnumValue \/ SaveBackup
  <2>1. pc \in {"backup", "compare"} /\ pc' \in {"backup", "compare"}
        /\ UNCHANGED <<key, touched, wanted, result>>
    BY <1>2 DEF EnumValue, SaveBackup, Enumerating
  <2> QED
    BY <2>1 DEF storeKey, Interfered
<1>3. CASE NothingToWrite
  <2>1. /\ pc = "compare" /\ pc' = "idle" /\ result' = FALSE /\ layers = wanted
        /\ index > Len(key) /\ UNCHANGED <<key, wanted, touched>>
    BY <1>3 DEF NothingToWrite
  <2>2. Interfered' = FALSE
    BY <2>1 DEF Interfered
  <2>3. ASSUME ~Interfered PROVE key = wanted
    <3>1. Len(layers) <= Len(key) /\ \A j \in DOMAIN layers : layers[j] = key[j]
      BY <2>1, <2>3 DEF AloneInv, Interfered, Enumerating
    <3>2. index = Len(layers) + 1
      BY <2>1 DEF TypeOK, Enumerating
    <3>3. Len(layers) = Len(key)
      BY ONLY <1>0, <2>1, <3>1, <3>2
    <3>4. layers = key
      BY <1>0, <3>1, <3>3, SeqEqual
    <3> QED
      BY <2>1, <3>4
  <2>4. CASE ~Interfered
    BY <2>1, <2>2, <2>3, <2>4 DEF Atomic!Return, Atomic!Next
  <2>5. CASE Interfered
    BY <1>0, <2>1, <2>2, <2>5, SameKeys DEF Atomic!Return, Atomic!Next
  <2> QED
    BY <2>4, <2>5
<1>4. CASE SomethingToWrite
  <2>1. /\ pc = "compare" /\ pc' = "delete" /\ index > Len(key)
        /\ UNCHANGED <<key, layers, wanted, result, touched>>
    BY <1>4 DEF SomethingToWrite
  <2>2. ASSUME ~Interfered PROVE layers = key
    <3>1. Len(layers) <= Len(key) /\ \A j \in DOMAIN layers : layers[j] = key[j]
      BY <2>1, <2>2 DEF AloneInv, Interfered, Enumerating
    <3>2. index = Len(layers) + 1
      BY <2>1 DEF TypeOK, Enumerating
    <3>3. Len(layers) = Len(key)
      BY ONLY <1>0, <2>1, <3>1, <3>2
    <3> QED
      BY <1>0, <3>1, <3>3, SeqEqual
  <2> QED
    BY <2>1, <2>2 DEF storeKey, Interfered
<1>5. CASE DeleteValue \/ SetNext
  <2>1. /\ pc \in {"delete", "set"} /\ pc' = pc
        /\ UNCHANGED <<layers, wanted, result, touched>>
    BY <1>5 DEF DeleteValue, SetNext
  <2>2. CASE Interfered
    BY <1>0, <2>1, <2>2, InterferedStep DEF Interfered, Atomic!Next
  <2>3. CASE ~Interfered
    BY <2>1, <2>3 DEF storeKey, Interfered
  <2> QED
    BY <2>2, <2>3
<1>6. CASE AllDeleted
  BY <1>6 DEF AllDeleted, storeKey, Interfered
<1>7. CASE Return
  <2>1. /\ pc = "set" /\ pc' = "idle" /\ result' = TRUE /\ index > Len(wanted)
        /\ UNCHANGED <<key, layers, wanted, touched>>
    BY <1>7 DEF Return
  <2>2. Interfered' = FALSE
    BY <2>1 DEF Interfered
  <2>3. ASSUME ~Interfered PROVE layers # wanted /\ key = Written(wanted)
    <3>1. /\ layers # wanted /\ Len(key) = index - 1
          /\ \A j \in DOMAIN key : key[j] = Written(wanted)[j]
      BY <2>1, <2>3 DEF AloneInv, Interfered
    <3>2. index <= Len(wanted) + 1
      BY <2>1 DEF TypeOK
    <3>3. Len(key) = Len(wanted)
      BY ONLY <1>0, <2>1, <3>1, <3>2
    <3>4. Written(wanted) \in Seq(Layer) /\ Len(Written(wanted)) = Len(wanted)
      BY <1>0, WrittenProperties
    <3> QED
      BY <1>0, <3>1, <3>3, <3>4, SeqEqual
  <2>4. CASE ~Interfered
    BY <2>1, <2>2, <2>3, <2>4, SameKeys DEF Atomic!Return, Atomic!Next
  <2>5. CASE Interfered
    BY <1>0, <2>1, <2>2, <2>5, SameKeys DEF Atomic!Return, Atomic!Next
  <2> QED
    BY <2>4, <2>5
<1>8. CASE \/ \E layer \in Layer : ForeignSet(layer)
           \/ \E path \in Paths : ForeignDelete(path)
  <2>1. touched' # {} /\ UNCHANGED <<pc, wanted, result>>
    BY <1>8 DEF ForeignSet, ForeignDelete, Foreign, call
  <2>2. CASE pc = "idle"
    <3>1. Interfered = FALSE /\ Interfered' = FALSE /\ pc' = "idle"
      BY <2>1, <2>2 DEF Interfered
    <3>2. storeKey' = key'
      BY <3>1 DEF storeKey
    <3>3. Atomic!IsKey(storeKey')
      BY <1>0, <3>2, SameKeys
    <3> QED
      BY <2>1, <2>2, <3>1, <3>3 DEF Atomic!Change, Atomic!Next, storeKey
  <2>3. CASE pc # "idle"
    <3>1. pc' # "idle" /\ Interfered'
      BY <2>1, <2>3 DEF Interfered
    <3> QED
      BY <1>0, <2>1, <2>3, <3>1, InterferedStep DEF Atomic!Next
  <2> QED
    BY <2>2, <2>3
<1>9. CASE Restart
  <2>1. pc' = "idle" /\ result' = FALSE /\ UNCHANGED <<key, wanted, touched>>
    BY <1>9 DEF Restart
  <2>2. Interfered' = FALSE
    BY <2>1 DEF Interfered
  <2>3. CASE Interfered
    BY <1>0, <2>1, <2>2, <2>3, SameKeys DEF Atomic!Restart, Atomic!Next
  <2>4. CASE pc \notin {"delete", "set"}
    <3>1. storeKey = key /\ storeKey' = key
      BY <2>1, <2>4 DEF storeKey
    <3> QED
      BY <2>1, <2>2, <3>1 DEF Atomic!Restart, Atomic!Next, storeKey
  <2>5. CASE pc = "delete" /\ ~Interfered
    <3>1. /\ Len(key) = Len(layers) - (index - 1)
          /\ \A j \in DOMAIN key : key[j] = layers[(index - 1) + j]
      BY <2>5 DEF AloneInv, Interfered
    <3>2. index - 1 \in Nat
      BY <1>0
    <3>3. Atomic!IsSuffix(key, layers)
      BY ONLY <1>0, <3>1, <3>2, RestIsSuffix
    <3> QED
      BY <2>1, <2>2, <2>5, <3>3 DEF Atomic!Restart, Atomic!Next
  <2>6. CASE pc = "set" /\ ~Interfered
    <3>1. /\ Len(key) = index - 1
          /\ \A j \in DOMAIN key : key[j] = Written(wanted)[j]
      BY <2>6 DEF AloneInv, Interfered
    <3>2. Written(wanted) \in Seq(Layer) /\ Len(Written(wanted)) = Len(wanted)
      BY <1>0, WrittenProperties
    <3>3. Len(key) <= Len(Written(wanted))
      BY <1>0, <2>6, <3>1, <3>2 DEF TypeOK
    <3>4. Atomic!IsPrefix(key, Written(wanted))
      BY <1>0, <3>1, <3>2, <3>3, BeginningIsPrefix
    <3> QED
      BY <2>1, <2>2, <2>6, <3>4, SameKeys DEF Atomic!Restart, Atomic!Next
  <2> QED
    BY <2>3, <2>4, <2>5, <2>6
<1>10. CASE UNCHANGED vars
  BY <1>10 DEF vars, call, storeKey, Interfered
<1> QED
  BY <1>1, <1>2, <1>3, <1>4, <1>5, <1>6, <1>7, <1>8, <1>9, <1>10
     DEF Next, Write, Atomic!Next

\* SetAPILayers, many registry calls though it is, implements the atomic store: what
\* its callers see is the old list until it returns and the new one after, also
\* where the program dies in the middle.
THEOREM StoreIsAtomic == Spec => ImplementsAtomicStore
  BY InitImplements, StepImplements, StoreTypeCorrect, AloneInvariant, PTL
     DEF Spec, ImplementsAtomicStore, Atomic!Spec
=============================================================================
