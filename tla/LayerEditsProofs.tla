--------------------------- MODULE LayerEditsProofs ---------------------------
(***************************************************************************)
(* What the edits of a list and of a registry key do to any list: the      *)
(* lemmas that the proofs about stores and tabs rest on, and the           *)
(* assertions of DragDropReorder.                                          *)
(***************************************************************************)
EXTENDS LayerEdits, TLAPS, WellFoundedInduction, SequenceTheorems, FiniteSetTheorems

-----------------------------------------------------------------------------
(* std::ranges::find.                                                      *)

\* A set of natural numbers that is not empty has a least element.
LEMMA MinOfNats ==
  ASSUME NEW S \in SUBSET Nat, S # {}
  PROVE  Min(S) \in S
<1> DEFINE R == OpToRel(<, Nat)
<1>1. IsWellFoundedOn(R, Nat)
  BY NatLessThanWellFounded
<1>2. \A m, n \in Nat : m < n => <<m, n>> \in R
  BY DEF OpToRel
<1> HIDE DEF R
<1>3. PICK x \in S : \A y \in S : ~(<<y, x>> \in R)
  BY <1>1, WFMin
<1>4. ASSUME NEW y \in S
      PROVE  x =< y
  <2>1. ~(y < x)
    BY <1>2, <1>3
  <2> QED
    BY <2>1
<1> QED
  BY <1>3, <1>4 DEF Min

\* A layer of the list is found in it.
LEMMA FindFinds ==
  ASSUME NEW layers \in Seq(Layer), NEW i \in DOMAIN layers
  PROVE  Find(layers, layers[i]) \in DOMAIN layers
<1> DEFINE I == {j \in 1..Len(layers) : layers[j] = layers[i]}
<1>1. i \in I
  OBVIOUS
<1>2. I \in SUBSET Nat /\ I # {} => Min(I) \in I
  BY MinOfNats
<1>3. I # {} => Find(layers, layers[i]) = Min(I)
  BY DEF Find, SelectInSeq
<1> HIDE DEF I
<1>4. I \in SUBSET (DOMAIN layers) /\ DOMAIN layers \in SUBSET Nat
  BY DEF I
<1> QED
  BY <1>1, <1>2, <1>3, <1>4

\* What is found is equal to what was looked for.
LEMMA FoundIsEqual ==
  ASSUME NEW layers \in Seq(Layer), NEW layer, Find(layers, layer) \in DOMAIN layers
  PROVE  layers[Find(layers, layer)] = layer
<1> DEFINE I == {j \in 1..Len(layers) : layers[j] = layer}
<1>1. I # {} => Find(layers, layer) = Min(I)
  BY DEF Find, SelectInSeq
<1>2. I = {} => Find(layers, layer) = 0
  BY DEF Find, SelectInSeq
<1>3. I \in SUBSET Nat /\ I # {} => Min(I) \in I
  BY MinOfNats
<1>4. I \in SUBSET Nat /\ \A j \in I : layers[j] = layer
  OBVIOUS
<1> HIDE DEF I
<1>5. DOMAIN layers = 1..Len(layers)
  OBVIOUS
<1> QED
  BY <1>1, <1>2, <1>3, <1>4, <1>5

-----------------------------------------------------------------------------
(* std::vector::erase and insert.                                          *)

\* vector::erase: one element less, those before it stay, those behind it move up.
LEMMA RemoveAtProperties ==
  ASSUME NEW layers \in Seq(Layer), NEW i \in DOMAIN layers
  PROVE  /\ RemoveAt(layers, i) \in Seq(Layer)
         /\ Len(RemoveAt(layers, i)) = Len(layers) - 1
         /\ \A j \in 1..(Len(layers) - 1) :
              RemoveAt(layers, i)[j] = IF j < i THEN layers[j] ELSE layers[j + 1]
<1> DEFINE before == SubSeq(layers, 1, i - 1)
           after == SubSeq(layers, i + 1, Len(layers))
<1>1. /\ before \in Seq(Layer)
      /\ Len(before) = i - 1
      /\ \A j \in 1..(i - 1) : before[j] = layers[j]
  <2>1. \A j \in 1..(i - 1) : layers[j] \in Layer
    OBVIOUS
  <2> QED
    BY <2>1, SubSeqProperties
<1>2. /\ after \in Seq(Layer)
      /\ Len(after) = Len(layers) - i
      /\ \A j \in 1..(Len(layers) - i) : after[j] = layers[i + j]
  <2>1. \A j \in (i + 1)..Len(layers) : layers[j] \in Layer
    OBVIOUS
  <2> QED
    BY <2>1, SubSeqProperties
<1>3. RemoveAt(layers, i) = before \o after
  BY DEF RemoveAt
<1> HIDE DEF before, after
<1>4. Len(before) + Len(after) = Len(layers) - 1
  BY <1>1, <1>2
<1> QED
  BY <1>1, <1>2, <1>3, <1>4, ConcatProperties

\* vector::insert: one element more, those before it stay, those behind it move down.
LEMMA InsertAtProperties ==
  ASSUME NEW layers \in Seq(Layer), NEW i \in 1..(Len(layers) + 1), NEW layer \in Layer
  PROVE  /\ InsertAt(layers, i, layer) \in Seq(Layer)
         /\ Len(InsertAt(layers, i, layer)) = Len(layers) + 1
         /\ InsertAt(layers, i, layer)[i] = layer
         /\ \A j \in 1..(Len(layers) + 1) :
              InsertAt(layers, i, layer)[j]
                = IF j < i THEN layers[j] ELSE IF j = i THEN layer ELSE layers[j - 1]
<1> DEFINE before == SubSeq(layers, 1, i - 1)
           after == SubSeq(layers, i, Len(layers))
<1>1. /\ before \in Seq(Layer) /\ Len(before) = i - 1
      /\ \A j \in 1..(i - 1) : before[j] = layers[j]
  <2>1. \A j \in 1..(i - 1) : layers[j] \in Layer
    OBVIOUS
  <2> QED
    BY <2>1, SubSeqProperties
<1>2. /\ after \in Seq(Layer) /\ Len(after) = Len(layers) - i + 1
      /\ \A j \in 1..(Len(layers) - i + 1) : after[j] = layers[i + j - 1]
  <2>1. \A j \in i..Len(layers) : layers[j] \in Layer
    OBVIOUS
  <2> QED
    BY <2>1, SubSeqProperties
<1>3. InsertAt(layers, i, layer) = (before \o <<layer>>) \o after
  BY DEF InsertAt
<1> HIDE DEF before, after
<1> DEFINE front == before \o <<layer>>
<1>4. /\ front \in Seq(Layer)
      /\ Len(front) = i
      /\ \A j \in 1..i : front[j] = IF j < i THEN layers[j] ELSE layer
  BY <1>1, ConcatProperties
<1> HIDE DEF front
<1>5. /\ front \o after \in Seq(Layer)
      /\ Len(front \o after) = Len(layers) + 1
      /\ \A j \in 1..(Len(layers) + 1) :
           (front \o after)[j] = IF j <= i THEN front[j] ELSE after[j - i]
  BY <1>2, <1>4, ConcatProperties
<1>6. ASSUME NEW j \in 1..(Len(layers) + 1), j > i
      PROVE  after[j - i] = layers[j - 1]
  <2>1. j - i \in 1..(Len(layers) - i + 1) /\ i + (j - i) - 1 = j - 1
    BY <1>6
  <2> QED
    BY <1>2, <2>1
<1> QED
  BY <1>3, <1>4, <1>5, <1>6 DEF front

-----------------------------------------------------------------------------
(* DragDropReorder.                                                        *)

\* Its two assertions hold for every list, doubled layers or not, and every
\* source and target in it (GUI.cpp:718, 724): the target is still found once
\* the source is erased, and the new list is as long as the old one.
THEOREM DragDropReorderAssertions ==
  ASSUME NEW layers \in Seq(Layer),
         NEW source \in Layer, NEW target \in Layer,
         Find(layers, source) \in DOMAIN layers,
         Find(layers, target) \in DOMAIN layers,
         Find(layers, source) # Find(layers, target)
  PROVE  /\ Find(RemoveAt(layers, Find(layers, source)), target) # 0
         /\ Len(DragDropReorder(layers, source, target)) = Len(layers)
<1> DEFINE s == Find(layers, source)
           t == Find(layers, target)
           without == RemoveAt(layers, s)
           u == Find(without, target)
<1>1. layers[t] = target
  BY FoundIsEqual
<1>2. /\ without \in Seq(Layer)
      /\ Len(without) = Len(layers) - 1
      /\ \A j \in 1..(Len(layers) - 1) : without[j] = IF j < s THEN layers[j] ELSE layers[j + 1]
  BY RemoveAtProperties
<1>3. \E j \in DOMAIN without : without[j] = target
  <2>1. t \in 1..Len(layers) /\ s \in 1..Len(layers) /\ s # t
    OBVIOUS
  <2> HIDE DEF s, t, without
  <2>2. CASE t < s
    BY <1>1, <1>2, <2>1, <2>2
  <2>3. CASE t > s
    <3>1. t - 1 \in DOMAIN without /\ without[t - 1] = layers[t]
      BY <1>2, <2>1, <2>3
    <3> QED
      BY <1>1, <3>1
  <2> QED
    BY <2>1, <2>2, <2>3
<1>4. u \in DOMAIN without
  BY <1>2, <1>3, FindFinds
<1>5. Len(InsertAt(without, IF s > t THEN u ELSE u + 1, source)) = Len(layers)
  <2> DEFINE place == IF s > t THEN u ELSE u + 1
  <2> HIDE DEF s, t, u, without
  <2>1. place \in 1..(Len(without) + 1)
    BY <1>2, <1>4
  <2> HIDE DEF place
  <2>2. Len(InsertAt(without, place, source)) = Len(without) + 1
    BY <1>2, <2>1, InsertAtProperties
  <2>3. Len(layers) \in Nat
    OBVIOUS
  <2> QED
    BY <1>2, <2>2, <2>3 DEF place
<1>6. DragDropReorder(layers, source, target)
        = InsertAt(without, IF s > t THEN u ELSE u + 1, source)
  BY DEF DragDropReorder
<1> QED
  BY <1>2, <1>4, <1>5, <1>6

-----------------------------------------------------------------------------
(* A registry key.                                                         *)

\* The lookup by path: what is found has the path, and a path that is there is
\* found.
LEMMA FindKeyProperties ==
  ASSUME NEW layers \in Seq(Layer), NEW path
  PROVE  /\ FindKey(layers, path) \in 0..Len(layers)
         /\ FindKey(layers, path) # 0 => layers[FindKey(layers, path)].path = path
         /\ path \in PathsOf(layers) <=> FindKey(layers, path) # 0
<1> DEFINE I == {j \in 1..Len(layers) : layers[j].path = path}
<1>1. /\ I # {} => FindKey(layers, path) = Min(I)
      /\ I = {} => FindKey(layers, path) = 0
  BY DEF FindKey, SelectInSeq
<1>2. I \in SUBSET Nat /\ I # {} => Min(I) \in I
  BY MinOfNats
<1>3. I \in SUBSET Nat
  OBVIOUS
<1>4. path \in PathsOf(layers) <=> I # {}
  BY DEF PathsOf
<1>5. \A j \in I : j \in 1..Len(layers) /\ j # 0 /\ layers[j].path = path
  OBVIOUS
<1>6. Len(layers) \in Nat
  OBVIOUS
<1> HIDE DEF I
<1>7. CASE I = {}
  BY <1>1, <1>4, <1>6, <1>7
<1>8. CASE I # {}
  <2>1. FindKey(layers, path) \in I
    BY <1>1, <1>2, <1>3, <1>8
  <2> QED
    BY <1>4, <1>5, <1>6, <1>8, <2>1
<1> QED
  BY <1>7, <1>8

\* RegDeleteValueW: the value goes, those behind it move up, and no other does.
LEMMA RegDeleteValueProperties ==
  ASSUME NEW key, IsKey(key), NEW path
  PROVE  /\ IsKey(RegDeleteValue(key, path))
         /\ PathsOf(RegDeleteValue(key, path)) = PathsOf(key) \ {path}
         /\ path \notin PathsOf(key) => RegDeleteValue(key, path) = key
         /\ path \in PathsOf(key) =>
              /\ Len(RegDeleteValue(key, path)) = Len(key) - 1
              /\ \A j \in 1..(Len(key) - 1) :
                   RegDeleteValue(key, path)[j]
                     = IF j < FindKey(key, path) THEN key[j] ELSE key[j + 1]
<1> DEFINE i == FindKey(key, path)
           new == RegDeleteValue(key, path)
<1>1. key \in Seq(Layer) /\ \A j, k \in DOMAIN key : key[j].path = key[k].path => j = k
  BY DEF IsKey
<1>2. /\ i \in 0..Len(key)
      /\ i # 0 => key[i].path = path
      /\ path \in PathsOf(key) <=> i # 0
  BY <1>1, FindKeyProperties
<1>3. CASE i = 0
  <2>1. new = key
    BY <1>3 DEF RegDeleteValue
  <2> QED
    BY <1>2, <1>3, <2>1
<1>4. CASE i # 0
  <2>1. i \in DOMAIN key /\ key[i].path = path /\ path \in PathsOf(key) /\ Len(key) \in Nat
    BY <1>1, <1>2, <1>4
  <2>2. new = RemoveAt(key, i)
    BY <1>4 DEF RegDeleteValue
  <2>3. /\ new \in Seq(Layer)
        /\ Len(new) = Len(key) - 1
        /\ \A j \in 1..(Len(key) - 1) : new[j] = IF j < i THEN key[j] ELSE key[j + 1]
    BY <1>1, <2>1, <2>2, RemoveAtProperties
  <2> HIDE DEF new, i
  <2>4. DOMAIN new = 1..(Len(key) - 1) /\ DOMAIN key = 1..Len(key) /\ i \in 1..Len(key)
    BY <1>1, <2>1, <2>3
  <2>5. IsKey(new)
    <3>1. ASSUME NEW j \in DOMAIN new, NEW k \in DOMAIN new, new[j].path = new[k].path
          PROVE  j = k
      <4> DEFINE at(n) == IF n < i THEN n ELSE n + 1
      <4>1. /\ at(j) \in DOMAIN key /\ new[j] = key[at(j)]
            /\ at(k) \in DOMAIN key /\ new[k] = key[at(k)]
        BY <2>1, <2>3, <2>4
      <4>2. at(j) = at(k)
        BY <1>1, <3>1, <4>1
      <4> QED
        BY <2>1, <2>4, <4>2
    <3> QED
      BY <2>3, <3>1 DEF IsKey
  <2>6. ASSUME NEW p \in PathsOf(new)
        PROVE  p \in PathsOf(key) \ {path}
    <3>1. PICK j \in DOMAIN new : p = new[j].path
      BY DEF PathsOf
    <3>2. PICK k \in DOMAIN key : k # i /\ new[j] = key[k]
      BY <2>1, <2>3, <2>4
    <3>3. key[k].path # path
      BY <1>1, <2>1, <3>2
    <3> QED
      BY <3>1, <3>2, <3>3 DEF PathsOf
  <2>7. ASSUME NEW p \in PathsOf(key) \ {path}
        PROVE  p \in PathsOf(new)
    <3>1. PICK j \in DOMAIN key : p = key[j].path /\ j # i
      BY <2>1 DEF PathsOf
    <3>2. \E k \in DOMAIN new : new[k] = key[j]
      <4>1. CASE j < i
        BY <2>1, <2>3, <2>4, <4>1
      <4>2. CASE j > i
        <5>1. j - 1 \in DOMAIN new /\ ~(j - 1 < i) /\ (j - 1) + 1 = j
          BY <2>1, <2>4, <4>2
        <5> QED
          BY <2>3, <2>4, <5>1
      <4> QED
        BY <2>1, <2>4, <3>1, <4>1, <4>2
    <3> QED
      BY <3>1, <3>2 DEF PathsOf
  <2> QED
    BY <2>1, <2>3, <2>5, <2>6, <2>7 DEF new, i
<1> QED
  BY <1>3, <1>4

\* RegSetValueExW: the value is there, in its old place or at the end, and no other
\* value is touched.
LEMMA RegSetValueProperties ==
  ASSUME NEW key, IsKey(key), NEW layer \in Layer
  PROVE  /\ IsKey(RegSetValue(key, layer))
         /\ PathsOf(RegSetValue(key, layer)) = PathsOf(key) \cup {layer.path}
         /\ layer.path \notin PathsOf(key) =>
              RegSetValue(key, layer) = Append(key, layer)
         /\ layer.path \in PathsOf(key) =>
              /\ Len(RegSetValue(key, layer)) = Len(key)
              /\ \A j \in DOMAIN key : RegSetValue(key, layer)[j].path = key[j].path
<1> DEFINE i == FindKey(key, layer.path)
           new == RegSetValue(key, layer)
<1>1. key \in Seq(Layer) /\ \A j, k \in DOMAIN key : key[j].path = key[k].path => j = k
  BY DEF IsKey
<1>2. /\ i \in 0..Len(key)
      /\ i # 0 => key[i].path = layer.path
      /\ layer.path \in PathsOf(key) <=> i # 0
  BY <1>1, FindKeyProperties
<1>3. CASE i = 0
  <2>1. new = Append(key, layer)
    BY <1>3 DEF RegSetValue
  <2> HIDE DEF i, new
  <2>2. /\ new \in Seq(Layer) /\ Len(new) = Len(key) + 1 /\ new[Len(key) + 1] = layer
        /\ \A j \in DOMAIN key : new[j] = key[j]
        /\ DOMAIN new = DOMAIN key \cup {Len(key) + 1}
    BY <1>1, <2>1, AppendProperties
  <2>3. \A j \in DOMAIN key : key[j].path # layer.path
    BY <1>2, <1>3 DEF PathsOf
  <2>4. IsKey(new)
    BY <1>1, <2>2, <2>3 DEF IsKey
  <2>5. PathsOf(new) = PathsOf(key) \cup {layer.path}
    BY <2>2 DEF PathsOf
  <2> QED
    BY <1>2, <1>3, <2>1, <2>4, <2>5 DEF new
<1>4. CASE i # 0
  <2>1. new = [key EXCEPT ![i] = layer]
    BY <1>4 DEF RegSetValue
  <2>2. i \in DOMAIN key /\ key[i].path = layer.path
    BY <1>1, <1>2, <1>4
  <2> HIDE DEF i, new
  <2>3. /\ new \in Seq(Layer) /\ Len(new) = Len(key) /\ DOMAIN new = DOMAIN key
        /\ \A j \in DOMAIN key : new[j] = IF j = i THEN layer ELSE key[j]
    BY <1>1, <2>1, <2>2, ExceptSeq
  <2>4. \A j \in DOMAIN key : new[j].path = key[j].path
    BY <2>2, <2>3
  <2>5. IsKey(new)
    BY <1>1, <2>3, <2>4 DEF IsKey
  <2>6. PathsOf(new) = PathsOf(key) \cup {layer.path}
    BY <2>2, <2>3, <2>4 DEF PathsOf
  <2> QED
    BY <1>2, <1>4, <2>3, <2>4, <2>5, <2>6 DEF new
<1> QED
  BY <1>3, <1>4

\* What is written has the layers of the list, in its order.
LEMMA WrittenProperties ==
  ASSUME NEW layers \in Seq(Layer)
  PROVE  /\ Written(layers) \in Seq(Layer)
         /\ Len(Written(layers)) = Len(layers)
         /\ \A j \in DOMAIN layers :
              /\ Written(layers)[j].path = layers[j].path
              /\ Written(layers)[j].value
                   = IF IsEnabled(layers[j]) THEN "Enabled" ELSE "Disabled"
         /\ IsKey(layers) => IsKey(Written(layers))
         /\ PathsOf(Written(layers)) = PathsOf(layers)
<1> DEFINE w == Written(layers)
<1>1. \A j \in DOMAIN layers :
        /\ w[j] \in Layer /\ w[j].path = layers[j].path
        /\ w[j].value = IF IsEnabled(layers[j]) THEN "Enabled" ELSE "Disabled"
  <2> TAKE j \in DOMAIN layers
  <2>1. layers[j] \in Layer
    OBVIOUS
  <2> DEFINE d == IF IsEnabled(layers[j]) THEN "Enabled" ELSE "Disabled"
  <2>2. w[j] = [layers[j] EXCEPT !.value = d]
    BY DEF Written
  <2>3. d \in Values
    BY DEF Values
  <2> HIDE DEF d, w
  <2>4. w[j] \in Layer /\ w[j].path = layers[j].path /\ w[j].value = d
    BY <2>1, <2>2, <2>3 DEF Layer
  <2> QED
    BY <2>4 DEF d
<1>2. DOMAIN w = 1..Len(layers) /\ w = [j \in 1..Len(layers) |-> w[j]]
  BY DEF Written
<1>3. Len(layers) \in Nat /\ DOMAIN layers = 1..Len(layers)
  OBVIOUS
<1> HIDE DEF w
<1>4. w \in Seq(Layer) /\ Len(w) = Len(layers)
  BY <1>1, <1>2, <1>3, IsASeq
<1>5. IsKey(layers) => IsKey(w)
  BY <1>1, <1>2, <1>3, <1>4 DEF IsKey
<1>6. PathsOf(w) = PathsOf(layers)
  BY <1>1, <1>2, <1>3 DEF PathsOf
<1> QED
  BY <1>1, <1>4, <1>5, <1>6 DEF w

-----------------------------------------------------------------------------
(* Edits of a list in which paths are unique.                              *)

\* A layer is found by its path, and by all of it, where it is.
LEMMA FoundWhereItIs ==
  ASSUME NEW layers, IsKey(layers), NEW i \in DOMAIN layers
  PROVE  FindKey(layers, layers[i].path) = i /\ Find(layers, layers[i]) = i
<1>1. layers \in Seq(Layer) /\ \A j, k \in DOMAIN layers : layers[j].path = layers[k].path => j = k
  BY DEF IsKey
<1>2. layers[i].path \in PathsOf(layers)
  BY DEF PathsOf
<1>3. FindKey(layers, layers[i].path) = i
  <2> DEFINE k == FindKey(layers, layers[i].path)
  <2>1. k \in 0..Len(layers) /\ k # 0 /\ layers[k].path = layers[i].path
    BY <1>1, <1>2, FindKeyProperties
  <2>2. k \in DOMAIN layers
    BY <1>1, <2>1
  <2> HIDE DEF k
  <2>3. k = i
    BY <1>1, <2>1, <2>2
  <2> QED
    BY <2>3 DEF k
<1>4. Find(layers, layers[i]) = i
  <2> DEFINE k == Find(layers, layers[i])
  <2>1. k \in DOMAIN layers
    BY <1>1, FindFinds
  <2>2. layers[k] = layers[i]
    BY <1>1, <2>1, FoundIsEqual
  <2> HIDE DEF k
  <2>3. k = i
    BY <1>1, <2>1, <2>2
  <2> QED
    BY <2>3 DEF k
<1> QED
  BY <1>3, <1>4

\* The result of std::ranges::find for a layer.
LEMMA FindRange ==
  ASSUME NEW layers \in Seq(Layer), NEW layer
  PROVE  /\ Find(layers, layer) \in 0..Len(layers)
         /\ Find(layers, layer) # 0 => layers[Find(layers, layer)] = layer
<1> DEFINE I == {j \in 1..Len(layers) : layers[j] = layer}
<1>1. /\ I # {} => Find(layers, layer) = Min(I)
      /\ I = {} => Find(layers, layer) = 0
  BY DEF Find, SelectInSeq
<1>2. I \in SUBSET Nat /\ I # {} => Min(I) \in I
  BY MinOfNats
<1>3. /\ I \in SUBSET Nat /\ Len(layers) \in Nat
      /\ \A j \in I : j \in 1..Len(layers) /\ layers[j] = layer
  OBVIOUS
<1> HIDE DEF I
<1>4. CASE I = {}
  BY <1>1, <1>3, <1>4
<1>5. CASE I # {}
  <2>1. Find(layers, layer) \in I
    BY <1>1, <1>2, <1>3, <1>5
  <2> DEFINE j == Find(layers, layer)
  <2>2. j \in 1..Len(layers) /\ layers[j] = layer
    BY <1>3, <2>1
  <2> HIDE DEF j
  <2>3. j \in 0..Len(layers) /\ (j # 0 => layers[j] = layer)
    BY <1>3, <2>2
  <2> QED
    BY <2>3 DEF j
<1> QED
  BY <1>4, <1>5

\* A list with the layers of another at other places, none twice.
LEMMA KeyOfPlaces ==
  ASSUME NEW old, IsKey(old), NEW new \in Seq(Layer),
         NEW at \in [DOMAIN new -> DOMAIN old],
         \A j, k \in DOMAIN new : at[j] = at[k] => j = k,
         \A j \in DOMAIN new : new[j].path = old[at[j]].path
  PROVE  /\ IsKey(new)
         /\ PathsOf(new) = {old[at[j]].path : j \in DOMAIN new}
<1>1. ASSUME NEW j \in DOMAIN new, NEW k \in DOMAIN new, new[j].path = new[k].path
      PROVE  j = k
  <2>1. at[j] \in DOMAIN old /\ at[k] \in DOMAIN old /\ old[at[j]].path = old[at[k]].path
    BY <1>1
  <2> QED
    BY <2>1 DEF IsKey
<1>2. IsKey(new)
  BY <1>1 DEF IsKey
<1>3. {new[j].path : j \in DOMAIN new} = {old[at[j]].path : j \in DOMAIN new}
  OBVIOUS
<1> QED
  BY <1>2, <1>3 DEF PathsOf

\* std::swap and std::iter_swap.
LEMMA SwapProperties ==
  ASSUME NEW layers, IsKey(layers), NEW i \in DOMAIN layers, NEW j \in DOMAIN layers
  PROVE  /\ IsKey(Swap(layers, i, j))
         /\ PathsOf(Swap(layers, i, j)) = PathsOf(layers)
         /\ Len(Swap(layers, i, j)) = Len(layers)
         /\ \A k \in DOMAIN layers : Swap(layers, i, j)[k]
              = IF k = j THEN layers[i] ELSE IF k = i THEN layers[j] ELSE layers[k]
<1> DEFINE new == Swap(layers, i, j)
<1> DEFINE at == [k \in DOMAIN layers |-> IF k = j THEN i ELSE IF k = i THEN j ELSE k]
<1>1. layers \in Seq(Layer)
  BY DEF IsKey
<1>2. /\ new = [[layers EXCEPT ![i] = layers[j]] EXCEPT ![j] = layers[i]]
      /\ layers[i] \in Layer /\ layers[j] \in Layer
  BY <1>1 DEF Swap
<1>3. /\ new \in Seq(Layer) /\ Len(new) = Len(layers)
      /\ \A k \in DOMAIN layers : new[k] = layers[at[k]]
  BY <1>1, <1>2, ExceptSeq
<1>4. /\ DOMAIN new = DOMAIN layers
      /\ at \in [DOMAIN new -> DOMAIN layers]
      /\ \A k, l \in DOMAIN new : at[k] = at[l] => k = l
      /\ \A k \in DOMAIN layers : at[k] = IF k = j THEN i ELSE IF k = i THEN j ELSE k
      /\ \A k \in DOMAIN layers : \E l \in DOMAIN new : at[l] = k
  BY <1>1, <1>3
<1> HIDE DEF new, at
<1>5. IsKey(new) /\ PathsOf(new) = {layers[at[k]].path : k \in DOMAIN new}
  <2>1. \A k \in DOMAIN new : new[k].path = layers[at[k]].path
    BY <1>3, <1>4
  <2>2. new \in Seq(Layer) /\ at \in [DOMAIN new -> DOMAIN layers]
        /\ \A k, l \in DOMAIN new : at[k] = at[l] => k = l
    BY <1>3, <1>4
  <2> QED
    BY <2>1, <2>2, KeyOfPlaces
<1>6. PathsOf(new) = PathsOf(layers)
  <2>1. {layers[at[k]].path : k \in DOMAIN new} \subseteq {layers[k].path : k \in DOMAIN layers}
    BY <1>4
  <2>2. ASSUME NEW k \in DOMAIN layers
        PROVE  layers[k].path \in {layers[at[l]].path : l \in DOMAIN new}
    BY <1>4
  <2> QED
    BY <1>5, <2>1, <2>2 DEF PathsOf
<1> QED
  BY <1>3, <1>4, <1>5, <1>6 DEF new

\* vector::erase of a layer: what RegDeleteValueW does for its path.
LEMMA RemoveIsDelete ==
  ASSUME NEW layers, IsKey(layers), NEW i \in DOMAIN layers
  PROVE  /\ RemoveAt(layers, i) = RegDeleteValue(layers, layers[i].path)
         /\ IsKey(RemoveAt(layers, i))
         /\ PathsOf(RemoveAt(layers, i)) = PathsOf(layers) \ {layers[i].path}
<1>1. FindKey(layers, layers[i].path) = i /\ i # 0
  BY FoundWhereItIs DEF IsKey
<1>2. RemoveAt(layers, i) = RegDeleteValue(layers, layers[i].path)
  BY <1>1 DEF RegDeleteValue
<1> QED
  BY <1>2, RegDeleteValueProperties

\* A layer is erased and inserted elsewhere, by a drag or by an ordering fix.
Moved(layers, i, place) == InsertAt(RemoveAt(layers, i), place, layers[i])

LEMMA MovedProperties ==
  ASSUME NEW layers, IsKey(layers), NEW i \in DOMAIN layers, NEW place \in DOMAIN layers
  PROVE  /\ IsKey(Moved(layers, i, place))
         /\ Len(Moved(layers, i, place)) = Len(layers)
         /\ PathsOf(Moved(layers, i, place)) = PathsOf(layers)
         /\ Moved(layers, i, place)[place] = layers[i]
         /\ RegDeleteValue(Moved(layers, i, place), layers[i].path) = RemoveAt(layers, i)
<1> DEFINE without == RemoveAt(layers, i)
<1> DEFINE new == Moved(layers, i, place)
<1> DEFINE path == layers[i].path
<1>1. layers \in Seq(Layer) /\ layers[i] \in Layer
  BY DEF IsKey
<1>2. /\ without \in Seq(Layer) /\ Len(without) = Len(layers) - 1
      /\ IsKey(without) /\ PathsOf(without) = PathsOf(layers) \ {path}
  BY <1>1, RemoveAtProperties, RemoveIsDelete
<1>3. Len(layers) \in Nat /\ place \in 1..(Len(without) + 1) /\ place \in 1..Len(layers)
  BY <1>1, <1>2
<1>4. /\ new \in Seq(Layer) /\ Len(new) = Len(layers) /\ new[place] = layers[i]
      /\ \A j \in 1..Len(layers) : new[j] =
           IF j < place THEN without[j] ELSE IF j = place THEN layers[i] ELSE without[j - 1]
  <2> DEFINE layer == layers[i]
  <2>1. new = InsertAt(without, place, layer)
    BY DEF Moved
  <2>2. layer \in Layer
    BY <1>1
  <2> HIDE DEF layer, without, new
  <2>3. Len(without) + 1 = Len(layers)
    BY <1>2, <1>3
  <2>4. /\ new \in Seq(Layer) /\ Len(new) = Len(without) + 1 /\ new[place] = layer
        /\ \A j \in 1..(Len(without) + 1) : new[j] =
             IF j < place THEN without[j] ELSE IF j = place THEN layer ELSE without[j - 1]
    <3>1. without \in Seq(Layer) /\ place \in 1..(Len(without) + 1)
      BY <1>2, <1>3
    <3> QED
      BY ONLY <2>1, <2>2, <3>1, InsertAtProperties
  <2> QED
    BY <2>3, <2>4 DEF layer
<1>5. /\ DOMAIN new = 1..Len(layers) /\ DOMAIN without = 1..(Len(layers) - 1)
      /\ path \in PathsOf(layers)
      /\ \A j \in DOMAIN without : without[j].path # path /\ without[j].path \in PathsOf(without)
  BY <1>1, <1>2, <1>4 DEF PathsOf
<1> HIDE DEF without, new, path
<1> DEFINE from(j) == IF j < place THEN j ELSE j - 1
<1>6. \A j \in DOMAIN new \ {place} : from(j) \in DOMAIN without /\ new[j] = without[from(j)]
  BY <1>3, <1>4, <1>5
<1>7. IsKey(new)
  <2> SUFFICES ASSUME NEW j \in DOMAIN new, NEW k \in DOMAIN new, new[j].path = new[k].path
               PROVE  j = k
    BY <1>4 DEF IsKey
  <2>1. CASE j = place \/ k = place
    BY <1>4, <1>5, <1>6, <2>1 DEF path
  <2>2. CASE j # place /\ k # place
    <3>1. from(j) = from(k)
      BY <1>2, <1>6, <2>2 DEF IsKey
    <3> QED
      BY <1>3, <1>5, <2>2, <3>1
  <2> QED
    BY <2>1, <2>2
<1>8. PathsOf(new) = PathsOf(layers)
  <2>1. ASSUME NEW p \in PathsOf(new)
        PROVE  p \in PathsOf(layers)
    <3>1. PICK j \in DOMAIN new : p = new[j].path
      BY DEF PathsOf
    <3> QED
      BY <1>2, <1>4, <1>5, <1>6, <3>1 DEF path
  <2>2. ASSUME NEW p \in PathsOf(layers)
        PROVE  p \in PathsOf(new)
    <3>1. CASE p = path
      BY <1>3, <1>4, <1>5, <3>1 DEF PathsOf, path
    <3>2. CASE p # path
      <4>1. PICK k \in DOMAIN without : p = without[k].path
        BY <1>2, <3>2 DEF PathsOf
      <4>2. PICK j \in DOMAIN new \ {place} : from(j) = k
        <5>1. CASE k < place
          BY <1>3, <1>5, <5>1
        <5>2. CASE k >= place
          <6>1. k + 1 \in DOMAIN new \ {place} /\ from(k + 1) = k
            BY <1>3, <1>5, <5>2
          <6> QED
            BY <6>1
        <5> QED
          BY <1>3, <1>5, <5>1, <5>2
      <4> QED
        BY <1>6, <4>1, <4>2 DEF PathsOf
    <3> QED
      BY <3>1, <3>2
  <2> QED
    BY <2>1, <2>2
<1>9. RegDeleteValue(new, path) = without
  <2>1. place \in DOMAIN new /\ new[place].path = path
    BY <1>3, <1>4, <1>5 DEF path
  <2>2. RegDeleteValue(new, path) = RemoveAt(new, place)
    BY <1>7, <2>1, RemoveIsDelete
  <2>3. /\ RemoveAt(new, place) \in Seq(Layer)
        /\ Len(RemoveAt(new, place)) = Len(new) - 1
        /\ \A j \in 1..(Len(new) - 1) : RemoveAt(new, place)[j] =
             IF j < place THEN new[j] ELSE new[j + 1]
    BY <1>4, <2>1, RemoveAtProperties
  <2>4. ASSUME NEW j \in 1..(Len(layers) - 1)
        PROVE  RemoveAt(new, place)[j] = without[j]
    <3>1. CASE j < place
      BY <1>3, <1>4, <2>3, <3>1
    <3>2. CASE j >= place
      <4>1. /\ j + 1 \in 1..Len(layers) /\ ~(j + 1 < place) /\ j + 1 # place /\ (j + 1) - 1 = j
            /\ ~(j < place)
        BY <1>3, <3>2
      <4> QED
        BY <1>4, <2>3, <4>1
    <3> QED
      BY <1>3, <3>1, <3>2
  <2> QED
    BY <1>2, <1>3, <1>4, <2>2, <2>3, <2>4, SeqEqual
<1> QED
  BY <1>4, <1>7, <1>8, <1>9 DEF new, path, without

\* A value is written to a layer of the copy.
LEMMA SetValueProperties ==
  ASSUME NEW layers, IsKey(layers), NEW i \in DOMAIN layers, NEW value \in Values
  PROVE  /\ IsKey(SetValue(layers, i, value))
         /\ PathsOf(SetValue(layers, i, value)) = PathsOf(layers)
         /\ Len(SetValue(layers, i, value)) = Len(layers)
         /\ \A j \in DOMAIN layers \ {i} : SetValue(layers, i, value)[j] = layers[j]
         /\ SetValue(layers, i, value)[i].path = layers[i].path
<1> DEFINE new == SetValue(layers, i, value)
<1> DEFINE edited == [layers[i] EXCEPT !.value = value]
<1>1. layers \in Seq(Layer) /\ layers[i] \in Layer
  BY DEF IsKey
<1>2. edited \in Layer /\ edited.path = layers[i].path
  BY <1>1 DEF Layer
<1>3. new = [layers EXCEPT ![i] = edited]
  BY DEF SetValue
<1> HIDE DEF edited, new
<1>4. /\ new \in Seq(Layer) /\ Len(new) = Len(layers) /\ DOMAIN new = DOMAIN layers
      /\ \A j \in DOMAIN layers : new[j] = IF j = i THEN edited ELSE layers[j]
  BY <1>1, <1>2, <1>3, ExceptSeq
<1>5. \A j \in DOMAIN layers : new[j].path = layers[j].path
  BY <1>2, <1>4
<1>6. IsKey(new)
  BY <1>4, <1>5 DEF IsKey
<1>7. PathsOf(new) = PathsOf(layers)
  BY <1>4, <1>5 DEF PathsOf
<1> QED
  BY <1>4, <1>5, <1>6, <1>7 DEF new

\* Move Up and Move Down move the selected layer by one place.
LEMMA SwapMoves ==
  ASSUME NEW layers, IsKey(layers), NEW i \in DOMAIN layers, NEW j \in DOMAIN layers,
         j = i - 1 \/ j = i + 1
  PROVE  Swap(layers, i, j) = Moved(layers, i, j) /\ Swap(layers, j, i) = Moved(layers, i, j)
<1> DEFINE moved == Moved(layers, i, j)
<1> DEFINE without == RemoveAt(layers, i)
<1> DEFINE layer == layers[i]
<1>1. layers \in Seq(Layer) /\ layer \in Layer /\ Len(layers) \in Nat /\ DOMAIN layers = 1..Len(layers)
  BY DEF IsKey
<1>2. /\ without \in Seq(Layer) /\ Len(without) = Len(layers) - 1
      /\ \A k \in 1..(Len(layers) - 1) : without[k] = IF k < i THEN layers[k] ELSE layers[k + 1]
  BY <1>1, RemoveAtProperties
<1>3. moved = InsertAt(without, j, layer)
  BY DEF Moved
<1> HIDE DEF moved, without
<1>4. j \in 1..(Len(without) + 1) /\ Len(without) + 1 = Len(layers)
  BY <1>1, <1>2
<1>5. /\ moved \in Seq(Layer) /\ Len(moved) = Len(layers)
      /\ \A k \in 1..Len(layers) : moved[k] =
           IF k < j THEN without[k] ELSE IF k = j THEN layer ELSE without[k - 1]
  <2> HIDE DEF layer
  <2>1. /\ moved \in Seq(Layer) /\ Len(moved) = Len(without) + 1
        /\ \A k \in 1..(Len(without) + 1) : moved[k] =
             IF k < j THEN without[k] ELSE IF k = j THEN layer ELSE without[k - 1]
    <3>1. without \in Seq(Layer) /\ layer \in Layer
      BY <1>1, <1>2
    <3> DEFINE new == InsertAt(without, j, layer)
    <3>2. /\ new \in Seq(Layer) /\ Len(new) = Len(without) + 1
          /\ \A k \in 1..(Len(without) + 1) : new[k] =
               IF k < j THEN without[k] ELSE IF k = j THEN layer ELSE without[k - 1]
      BY <1>4, <3>1, InsertAtProperties
    <3> HIDE DEF new
    <3>3. moved = new
      BY <1>3 DEF new
    <3> QED
      BY <3>2, <3>3
  <2> QED
    BY <1>4, <2>1
<1>6. ASSUME NEW k \in 1..Len(layers)
      PROVE  moved[k] = IF k = j THEN layers[i] ELSE IF k = i THEN layers[j] ELSE layers[k]
  <2>1. CASE k < j
    <3>1. k \in 1..(Len(layers) - 1)
      BY <1>1, <2>1
    <3>2. moved[k] = IF k < i THEN layers[k] ELSE layers[k + 1]
      BY <1>2, <1>5, <2>1, <3>1
    <3>3. CASE j = i - 1
      BY <1>1, <2>1, <3>2, <3>3
    <3>4. CASE j = i + 1
      BY <1>1, <2>1, <3>2, <3>4
    <3> QED
      BY <3>3, <3>4
  <2>2. CASE k = j
    BY <1>1, <1>5, <2>2
  <2>3. CASE k > j
    <3>1. k - 1 \in 1..(Len(layers) - 1) /\ (k - 1) + 1 = k
      BY <1>1, <2>3
    <3>2. moved[k] = IF k - 1 < i THEN layers[k - 1] ELSE layers[k]
      BY <1>1, <1>2, <1>5, <2>3, <3>1
    <3>3. CASE j = i - 1
      BY <1>1, <2>3, <3>1, <3>2, <3>3
    <3>4. CASE j = i + 1
      BY <1>1, <2>3, <3>1, <3>2, <3>4
    <3> QED
      BY <3>3, <3>4
  <2> QED
    BY <1>1, <2>1, <2>2, <2>3
<1>7. ASSUME NEW a \in {i, j}, NEW b \in {i, j}, a # b
      PROVE  Swap(layers, a, b) = moved
  <2>1. /\ IsKey(Swap(layers, a, b)) /\ Len(Swap(layers, a, b)) = Len(layers)
        /\ \A k \in DOMAIN layers : Swap(layers, a, b)[k]
              = IF k = b THEN layers[a] ELSE IF k = a THEN layers[b] ELSE layers[k]
    <3>1. a \in DOMAIN layers /\ b \in DOMAIN layers
      OBVIOUS
    <3> QED
      BY <3>1, SwapProperties
  <2>2. Swap(layers, a, b) \in Seq(Layer)
    BY <2>1 DEF IsKey
  <2>3. ASSUME NEW k \in 1..Len(layers)
        PROVE  Swap(layers, a, b)[k] = moved[k]
    BY <1>1, <1>6, <1>7, <2>1
  <2> QED
    BY <1>5, <2>1, <2>2, <2>3, SeqEqual
<1>8. i # j
  BY <1>1
<1> QED
  BY <1>7, <1>8 DEF moved

\* An ordering fix moves one layer, or none.
LEMMA OrderingFixMoves ==
  ASSUME NEW layers, IsKey(layers), NEW moved, NEW position, NEW anchor
  PROVE  \/ OrderingFix(layers, moved, position, anchor) = layers
         \/ \E i, place \in DOMAIN layers :
              OrderingFix(layers, moved, position, anchor) = Moved(layers, i, place)
<1> DEFINE i == FindKey(layers, moved)
<1> DEFINE without == RemoveAt(layers, i)
<1> DEFINE anchorIt == FindKey(without, anchor)
<1> DEFINE place == IF position = "Above" THEN anchorIt ELSE anchorIt + 1
<1>1. layers \in Seq(Layer)
  BY DEF IsKey
<1>2. CASE i # 0 /\ anchorIt # 0
  <2>1. i \in DOMAIN layers
    BY <1>1, <1>2, FindKeyProperties
  <2>2. without \in Seq(Layer) /\ Len(without) = Len(layers) - 1
    BY <1>1, <2>1, RemoveAtProperties
  <2>3. anchorIt \in 0..Len(without)
    BY <2>2, FindKeyProperties
  <2>4. OrderingFix(layers, moved, position, anchor) = InsertAt(without, place, layers[i])
    BY <1>2 DEF OrderingFix
  <2>5. OrderingFix(layers, moved, position, anchor) = Moved(layers, i, place)
    BY <2>4 DEF Moved
  <2> HIDE DEF i, without, anchorIt
  <2>6. place \in DOMAIN layers
    BY <1>1, <1>2, <2>2, <2>3
  <2> QED
    BY <2>1, <2>5, <2>6
<1>3. CASE ~(i # 0 /\ anchorIt # 0)
  BY <1>3 DEF OrderingFix
<1> QED
  BY <1>2, <1>3

\* A fix keeps paths unique, adds no layer, and loses none but one that it is to
\* remove.
LEMMA FixProperties ==
  ASSUME NEW layers, IsKey(layers), NEW fix \in Fixes
  PROVE  /\ IsKey(Fix(layers, fix))
         /\ PathsOf(Fix(layers, fix)) \subseteq PathsOf(layers)
         /\ \A p \in PathsOf(layers) \ PathsOf(Fix(layers, fix)) :
              fix.kind = "remove" /\ fix.path = p
<1> DEFINE i == FindKey(layers, fix.path)
<1>1. layers \in Seq(Layer) /\ DOMAIN layers = 1..Len(layers) /\ Len(layers) \in Nat
  BY DEF IsKey
<1>2. i # 0 => i \in DOMAIN layers /\ layers[i].path = fix.path
  BY <1>1, FindKeyProperties
<1> HIDE DEF i
<1>3. CASE fix.kind = "ordering"
  <2>1. Fix(layers, fix) = OrderingFix(layers, fix.path, fix.position, fix.anchor)
    BY <1>3 DEF Fix
  <2>2. \/ Fix(layers, fix) = layers
        \/ \E k, place \in DOMAIN layers : Fix(layers, fix) = Moved(layers, k, place)
    BY <2>1, OrderingFixMoves
  <2> QED
    BY <2>2, MovedProperties
<1>4. CASE fix.kind = "disable"
  <2>1. Fix(layers, fix) = IF i # 0 THEN SetValue(layers, i, "Disabled") ELSE layers
    BY <1>4 DEF Fix, DisableFix, i
  <2> QED
    BY <1>2, <2>1, SetValueProperties DEF Values
<1>5. CASE fix.kind = "remove"
  <2>1. Fix(layers, fix) = IF i # 0 THEN RemoveAt(layers, i) ELSE layers
    BY <1>5 DEF Fix, RemoveFix, i
  <2> QED
    BY <1>2, <1>5, <2>1, RemoveIsDelete
<1>6. CASE fix.kind = "last"
  <2>1. Fix(layers, fix) = IF i # 0 THEN Swap(layers, i, Len(layers)) ELSE layers
    BY <1>6 DEF Fix, LastFix, i
  <2>2. i # 0 => Len(layers) \in DOMAIN layers
    BY <1>1, <1>2
  <2> QED
    BY <1>2, <2>1, <2>2, SwapProperties
<1> QED
  BY <1>3, <1>4, <1>5, <1>6 DEF Fixes

\* A drag moves its source to where its target is.
LEMMA DragDropReorderMoves ==
  ASSUME NEW layers, IsKey(layers), NEW i \in DOMAIN layers, NEW j \in DOMAIN layers, i # j
  PROVE  DragDropReorder(layers, layers[i], layers[j]) = Moved(layers, i, j)
<1> DEFINE without == RemoveAt(layers, i)
<1> DEFINE target == layers[j]
<1> DEFINE u == Find(without, target)
<1>1. layers \in Seq(Layer) /\ Len(layers) \in Nat /\ DOMAIN layers = 1..Len(layers)
  BY DEF IsKey
<1>2. Find(layers, layers[i]) = i /\ Find(layers, target) = j
  BY FoundWhereItIs
<1>3. /\ without \in Seq(Layer) /\ Len(without) = Len(layers) - 1 /\ IsKey(without)
      /\ \A k \in 1..(Len(layers) - 1) : without[k] = IF k < i THEN layers[k] ELSE layers[k + 1]
  BY <1>1, RemoveAtProperties, RemoveIsDelete
<1>4. DragDropReorder(layers, layers[i], target)
        = InsertAt(without, IF i > j THEN u ELSE u + 1, layers[i])
  BY <1>1, <1>2 DEF DragDropReorder
<1> HIDE DEF without
<1>5. u = IF i > j THEN j ELSE j - 1
  <2> DEFINE k == IF i > j THEN j ELSE j - 1
  <2>1. k \in DOMAIN without /\ without[k] = target
    <3>1. CASE i > j
      BY <1>1, <1>3, <3>1
    <3>2. CASE j > i
      <4>1. j - 1 \in 1..(Len(layers) - 1) /\ ~(j - 1 < i) /\ (j - 1) + 1 = j /\ ~(i > j)
        BY <1>1, <3>2
      <4> QED
        BY <1>1, <1>3, <4>1
    <3> QED
      BY <1>1, <3>1, <3>2
  <2> HIDE DEF k
  <2>2. Find(without, without[k]) = k
    BY <1>3, <2>1, FoundWhereItIs
  <2> QED
    BY <2>1, <2>2 DEF k
<1> HIDE DEF u
<1>6. (IF i > j THEN u ELSE u + 1) = j
  BY <1>1, <1>5
<1> QED
  BY <1>4, <1>6 DEF Moved, without

\* There are no more layers in a list than paths.
LEMMA KeysFit ==
  ASSUME NEW layers, IsKey(layers)
  PROVE  Len(layers) \in Nat /\ Cardinality(Paths) \in Nat /\ Len(layers) <= Cardinality(Paths)
<1> DEFINE paths == [i \in 1..Len(layers) |-> layers[i].path]
<1>1. layers \in Seq(Layer) /\ Len(layers) \in Nat /\ DOMAIN layers = 1..Len(layers)
  BY DEF IsKey
<1>2. ASSUME NEW i \in 1..Len(layers)
      PROVE  layers[i].path \in Paths
  <2>1. layers[i] \in Layer
    BY <1>1
  <2> QED
    BY <2>1 DEF Layer
<1>3. paths \in [1..Len(layers) -> Paths]
  BY <1>2
<1>4. \A i, j \in 1..Len(layers) : paths[i] = paths[j] => i = j
  BY <1>1 DEF IsKey
<1> HIDE DEF paths
<1>5. paths \in Injection(1..Len(layers), Paths)
  BY <1>3, <1>4 DEF Injection, IsInjective
<1>6. Cardinality(1..Len(layers)) <= Cardinality(Paths)
  BY <1>5, FS_Injection, PathsAssumption
<1>7. Cardinality(1..Len(layers)) = Len(layers)
  BY <1>1, FS_Interval
<1> QED
  BY <1>1, <1>6, <1>7, FS_CardinalityType, PathsAssumption

-----------------------------------------------------------------------------
(* Loops over a list.                                                      *)

\* A set that has 0, and with each number the next one, has all.
LEMMA Induction ==
  ASSUME NEW N \in Nat, NEW U, 0 \in U, \A n \in 1..N : n - 1 \in U => n \in U
  PROVE  0..N \subseteq U
<1> DEFINE R == OpToRel(<, Nat)
<1> DEFINE T == (0..N) \ U
<1>1. IsWellFoundedOn(R, Nat)
  BY NatLessThanWellFounded
<1>2. \A m, n \in Nat : m < n => <<m, n>> \in R
  BY DEF OpToRel
<1> HIDE DEF R
<1> SUFFICES ASSUME T # {} PROVE FALSE
  OBVIOUS
<1>3. PICK t \in T : \A u \in T : ~(<<u, t>> \in R)
  BY <1>1, WFMin, T \in SUBSET Nat
<1>4. t \in 1..N /\ t - 1 \in 0..N /\ t - 1 \in Nat /\ t \in Nat /\ t - 1 < t
  BY <1>3
<1>5. t - 1 \in U
  BY <1>2, <1>3, <1>4
<1> QED
  BY <1>3, <1>4, <1>5

\* FixThem is a list after each of the fixes.
LEMMA FixThemSteps ==
  ASSUME NEW layers, NEW fixes, Len(fixes) \in Nat
  PROVE  \E fixed : /\ fixed[0] = layers
                    /\ \A n \in 1..Len(fixes) : fixed[n] = Fix(fixed[n - 1], fixes[n])
                    /\ FixThem(layers, fixes) = fixed[Len(fixes)]
<1> DEFINE N == Len(fixes)
<1> DEFINE IsLoop(h, m) ==
      h = [n \in 0..m |-> IF n = 0 THEN layers ELSE Fix(h[n - 1], fixes[n])]
<1> DEFINE U == {m \in 0..N : \E h : IsLoop(h, m)}
<1>1. 0 \in U
  <2> DEFINE h == [n \in 0..0 |-> layers]
  <2>1. \A n \in 0..0 : n = 0
    OBVIOUS
  <2>2. IsLoop(h, 0)
    BY <2>1
  <2>3. 0 \in 0..N
    OBVIOUS
  <2> HIDE DEF IsLoop, h, N
  <2> QED
    BY <2>2, <2>3
<1>2. ASSUME NEW m \in 1..N, m - 1 \in U
      PROVE  m \in U
  <2>1. PICK h : IsLoop(h, m - 1)
    BY <1>2
  <2> DEFINE g == [n \in 0..m |-> IF n = m THEN Fix(h[m - 1], fixes[m]) ELSE h[n]]
  <2>2. \A n \in 0..(m - 1) : h[n] = IF n = 0 THEN layers ELSE Fix(h[n - 1], fixes[n])
    BY <2>1
  <2>3. ASSUME NEW n \in 0..m
        PROVE  g[n] = IF n = 0 THEN layers ELSE Fix(g[n - 1], fixes[n])
    <3>1. CASE n = 0
      BY <2>2, <3>1
    <3>2. CASE n \in 1..m
      <4>1. n - 1 \in 0..m /\ n - 1 # m
        BY <3>2
      <4>2. g[n - 1] = h[n - 1]
        BY <4>1
      <4>3. g[n] = IF n = m THEN Fix(h[m - 1], fixes[m]) ELSE h[n]
        OBVIOUS
      <4>4. n # m => h[n] = Fix(h[n - 1], fixes[n])
        BY <2>2, <3>2
      <4> HIDE DEF g
      <4> QED
        BY <3>2, <4>2, <4>3, <4>4
    <3> QED
      BY <3>1, <3>2
  <2>4. g = [n \in 0..m |-> g[n]]
    OBVIOUS
  <2> HIDE DEF g
  <2>5. IsLoop(g, m)
    BY <2>3, <2>4
  <2> HIDE DEF IsLoop
  <2> QED
    BY <2>5
<1>3. N \in U
  <2> HIDE DEF U
  <2>1. N \in Nat /\ N \in 0..N
    OBVIOUS
  <2> HIDE DEF N
  <2>2. 0..N \subseteq U
    BY <1>1, <1>2, <2>1, Induction
  <2> QED
    BY <2>1, <2>2
<1> DEFINE fixed == CHOOSE h : IsLoop(h, N)
<1>4. IsLoop(fixed, N)
  <2> HIDE DEF IsLoop
  <2> QED
    BY <1>3
<1>5. FixThem(layers, fixes) = fixed[N]
  BY DEF FixThem
<1> HIDE DEF fixed
<1>6. \A n \in 0..N : fixed[n] = IF n = 0 THEN layers ELSE Fix(fixed[n - 1], fixes[n])
  BY <1>4
<1>7. fixed[0] = layers /\ \A n \in 1..N : fixed[n] = Fix(fixed[n - 1], fixes[n])
  BY <1>6
<1> QED
  BY <1>5, <1>7

\* What one more path makes of a list.
Extended(layers, nextLayers, path) ==
  IF path \in PathsOf(layers) THEN nextLayers
  ELSE Append(nextLayers, [path |-> path, value |-> "Enabled"])

\* AddLayers is a list after each of the paths.
LEMMA AddLayersSteps ==
  ASSUME NEW layers, NEW paths, Len(paths) \in Nat
  PROVE  \E nextLayers :
           /\ nextLayers[0] = layers
           /\ \A n \in 1..Len(paths) :
                nextLayers[n] = Extended(layers, nextLayers[n - 1], paths[n])
           /\ AddLayers(layers, paths) = nextLayers[Len(paths)]
<1> DEFINE N == Len(paths)
<1> DEFINE IsLoop(h, m) ==
      h = [n \in 0..m |-> IF n = 0 THEN layers ELSE Extended(layers, h[n - 1], paths[n])]
<1> DEFINE U == {m \in 0..N : \E h : IsLoop(h, m)}
<1>1. 0 \in U
  <2> DEFINE h == [n \in 0..0 |-> layers]
  <2>1. \A n \in 0..0 : n = 0
    OBVIOUS
  <2>2. IsLoop(h, 0)
    BY <2>1
  <2>3. 0 \in 0..N
    OBVIOUS
  <2> HIDE DEF IsLoop, h, N
  <2> QED
    BY <2>2, <2>3
<1>2. ASSUME NEW m \in 1..N, m - 1 \in U
      PROVE  m \in U
  <2>1. PICK h : IsLoop(h, m - 1)
    BY <1>2
  <2> DEFINE g == [n \in 0..m |-> IF n = m THEN Extended(layers, h[m - 1], paths[m]) ELSE h[n]]
  <2>2. \A n \in 0..(m - 1) : h[n] = IF n = 0 THEN layers ELSE Extended(layers, h[n - 1], paths[n])
    BY <2>1
  <2>3. ASSUME NEW n \in 0..m
        PROVE  g[n] = IF n = 0 THEN layers ELSE Extended(layers, g[n - 1], paths[n])
    <3>1. CASE n = 0
      BY <2>2, <3>1
    <3>2. CASE n \in 1..m
      <4>1. n - 1 \in 0..m /\ n - 1 # m
        BY <3>2
      <4>2. g[n - 1] = h[n - 1]
        BY <4>1
      <4>3. g[n] = IF n = m THEN Extended(layers, h[m - 1], paths[m]) ELSE h[n]
        OBVIOUS
      <4>4. n # m => h[n] = Extended(layers, h[n - 1], paths[n])
        BY <2>2, <3>2
      <4> HIDE DEF g
      <4> QED
        BY <3>2, <4>2, <4>3, <4>4
    <3> QED
      BY <3>1, <3>2
  <2>4. g = [n \in 0..m |-> g[n]]
    OBVIOUS
  <2> HIDE DEF g
  <2>5. IsLoop(g, m)
    BY <2>3, <2>4
  <2> HIDE DEF IsLoop
  <2> QED
    BY <2>5
<1>3. N \in U
  <2> HIDE DEF U
  <2>1. N \in Nat /\ N \in 0..N
    OBVIOUS
  <2> HIDE DEF N
  <2>2. 0..N \subseteq U
    BY <1>1, <1>2, <2>1, Induction
  <2> QED
    BY <2>1, <2>2
<1> DEFINE nextLayers == CHOOSE h : IsLoop(h, N)
<1>4. IsLoop(nextLayers, N)
  <2> HIDE DEF IsLoop
  <2> QED
    BY <1>3
<1>5. AddLayers(layers, paths) = nextLayers[N]
  BY DEF AddLayers, Extended
<1> HIDE DEF nextLayers
<1>6. \A n \in 0..N : nextLayers[n] = IF n = 0 THEN layers ELSE Extended(layers, nextLayers[n - 1], paths[n])
  BY <1>4
<1>7. nextLayers[0] = layers /\ \A n \in 1..N : nextLayers[n] = Extended(layers, nextLayers[n - 1], paths[n])
  BY <1>6
<1> QED
  BY <1>5, <1>7

\* Fix Them! keeps paths unique, adds no layer, and loses none but those that a fix is
\* to remove.
LEMMA FixThemProperties ==
  ASSUME NEW layers, IsKey(layers), NEW fixes \in Seq(Fixes)
  PROVE  /\ IsKey(FixThem(layers, fixes))
         /\ PathsOf(FixThem(layers, fixes)) \subseteq PathsOf(layers)
         /\ \A p \in PathsOf(layers) \ PathsOf(FixThem(layers, fixes)) :
              \E i \in DOMAIN fixes : fixes[i].kind = "remove" /\ fixes[i].path = p
<1>1. Len(fixes) \in Nat /\ DOMAIN fixes = 1..Len(fixes)
  OBVIOUS
<1>2. PICK fixed : /\ fixed[0] = layers
                   /\ \A n \in 1..Len(fixes) : fixed[n] = Fix(fixed[n - 1], fixes[n])
                   /\ FixThem(layers, fixes) = fixed[Len(fixes)]
  BY <1>1, FixThemSteps
<1> DEFINE Kept(n) ==
      /\ IsKey(fixed[n]) /\ PathsOf(fixed[n]) \subseteq PathsOf(layers)
      /\ \A p \in PathsOf(layers) \ PathsOf(fixed[n]) :
           \E i \in DOMAIN fixes : fixes[i].kind = "remove" /\ fixes[i].path = p
<1> DEFINE U == {n \in 0..Len(fixes) : Kept(n)}
<1>3. Kept(0)
  BY <1>2
<1>4. ASSUME NEW n \in 1..Len(fixes), Kept(n - 1)
      PROVE  Kept(n)
  <2>1. fixes[n] \in Fixes
    OBVIOUS
  <2>2. fixed[n] = Fix(fixed[n - 1], fixes[n]) /\ IsKey(fixed[n - 1])
    BY <1>2, <1>4
  <2> DEFINE old == fixed[n - 1]
  <2> DEFINE fix == fixes[n]
  <2>3. /\ IsKey(Fix(old, fix)) /\ PathsOf(Fix(old, fix)) \subseteq PathsOf(old)
        /\ \A p \in PathsOf(old) \ PathsOf(Fix(old, fix)) : fix.kind = "remove" /\ fix.path = p
    <3>1. IsKey(old) /\ fix \in Fixes
      BY <2>1, <2>2
    <3> HIDE DEF old, fix
    <3> QED
      BY <3>1, FixProperties
  <2>4. ASSUME NEW p \in PathsOf(layers) \ PathsOf(fixed[n])
        PROVE  \E i \in DOMAIN fixes : fixes[i].kind = "remove" /\ fixes[i].path = p
    <3>1. CASE p \in PathsOf(old)
      <4>1. fixes[n].kind = "remove" /\ fixes[n].path = p
        BY <2>2, <2>3, <3>1
      <4> QED
        BY <1>1, <4>1
    <3>2. CASE p \notin PathsOf(old)
      BY <1>4, <3>2
    <3> QED
      BY <3>1, <3>2
  <2> QED
    BY <1>4, <2>2, <2>3, <2>4
<1> HIDE DEF Kept
<1>5. 0 \in U /\ \A n \in 1..Len(fixes) : n - 1 \in U => n \in U
  BY <1>1, <1>3, <1>4
<1> HIDE DEF U
<1>6. 0..Len(fixes) \subseteq U
  BY <1>1, <1>5, Induction
<1>7. Kept(Len(fixes))
  BY <1>1, <1>6 DEF U
<1> QED
  BY <1>2, <1>7 DEF Kept

\* Add Layers... keeps paths unique and loses none, if none was picked twice.
LEMMA AddLayersProperties ==
  ASSUME NEW layers, IsKey(layers), NEW paths \in Seq(Paths),
         \A i, j \in DOMAIN paths : paths[i] = paths[j] => i = j
  PROVE  IsKey(AddLayers(layers, paths))
<1>1. Len(paths) \in Nat /\ DOMAIN paths = 1..Len(paths)
  OBVIOUS
<1>2. PICK nextLayers :
        /\ nextLayers[0] = layers
        /\ \A n \in 1..Len(paths) :
             nextLayers[n] = Extended(layers, nextLayers[n - 1], paths[n])
        /\ AddLayers(layers, paths) = nextLayers[Len(paths)]
  <2>1. Len(paths) \in Nat
    BY <1>1
  <2> QED
    BY ONLY <2>1, AddLayersSteps
<1> DEFINE Kept(n) ==
      /\ IsKey(nextLayers[n])
      /\ \A p \in PathsOf(nextLayers[n]) \ PathsOf(layers) : \E i \in 1..n : p = paths[i]
<1> DEFINE U == {n \in 0..Len(paths) : Kept(n)}
<1>3. Kept(0)
  BY <1>2
<1>4. ASSUME NEW n \in 1..Len(paths), Kept(n - 1)
      PROVE  Kept(n)
  <2> DEFINE old == nextLayers[n - 1]
  <2> DEFINE layer == [path |-> paths[n], value |-> "Enabled"]
  <2>1. layer \in Layer
    BY DEF Layer, Values
  <2>2. nextLayers[n] = Extended(layers, old, paths[n]) /\ IsKey(old)
    BY <1>2, <1>4
  <2>3. CASE paths[n] \in PathsOf(layers)
    <3>1. nextLayers[n] = old
      BY <2>2, <2>3 DEF Extended
    <3> QED
      BY <1>4, <3>1
  <2>4. CASE paths[n] \notin PathsOf(layers)
    <3>1. paths[n] \notin PathsOf(old)
      <4>1. \A i \in 1..(n - 1) : i \in DOMAIN paths /\ n \in DOMAIN paths /\ i # n
        BY <1>1
      <4>2. \A i \in 1..(n - 1) : paths[i] # paths[n]
        BY <4>1
      <4> QED
        BY <1>4, <2>4, <4>2
    <3>2. nextLayers[n] = RegSetValue(old, layer)
      <4>1. nextLayers[n] = Append(old, layer)
        BY <2>2, <2>4 DEF Extended
      <4>2. layer.path \notin PathsOf(old)
        BY <3>1
      <4> HIDE DEF old, layer
      <4> QED
        BY <2>1, <2>2, <4>1, <4>2, RegSetValueProperties
    <3>3. IsKey(nextLayers[n]) /\ PathsOf(nextLayers[n]) = PathsOf(old) \cup {paths[n]}
      <4>1. layer.path = paths[n]
        OBVIOUS
      <4> HIDE DEF old, layer
      <4> QED
        BY <2>1, <2>2, <3>2, <4>1, RegSetValueProperties
    <3>4. ASSUME NEW p \in PathsOf(nextLayers[n]) \ PathsOf(layers)
          PROVE  \E i \in 1..n : p = paths[i]
      BY <1>4, <3>3
    <3> QED
      BY <3>3, <3>4
  <2> QED
    BY <2>3, <2>4
<1> HIDE DEF Kept
<1>5. 0 \in U /\ \A n \in 1..Len(paths) : n - 1 \in U => n \in U
  BY <1>1, <1>3, <1>4
<1> HIDE DEF U
<1>6. 0..Len(paths) \subseteq U
  BY <1>1, <1>5, Induction
<1>7. Kept(Len(paths))
  BY <1>1, <1>6 DEF U
<1> QED
  BY <1>2, <1>7 DEF Kept
=============================================================================
