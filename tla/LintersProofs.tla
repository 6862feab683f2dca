---------------------------- MODULE LintersProofs ----------------------------
(***************************************************************************)
(* Proofs about Linters, for every table of rules, every set of paths and  *)
(* every world.                                                            *)
(***************************************************************************)
EXTENDS Linters, LayerEditsProofs

-----------------------------------------------------------------------------
(* Filtered views.                                                         *)

\* InOrder lists the places, each once and in ascending order.
LEMMA InOrderProperties ==
  ASSUME NEW N \in Nat, NEW places \in SUBSET (1..N)
  PROVE  /\ Cardinality(places) \in Nat
         /\ InOrder(places) \in [1..Cardinality(places) -> places]
         /\ \A j, k \in 1..Cardinality(places) :
              j < k => InOrder(places)[j] < InOrder(places)[k]
         /\ \A i \in places : \E k \in 1..Cardinality(places) : InOrder(places)[k] = i
<1> DEFINE n == Cardinality(places)
<1> DEFINE below(i) == {j \in places : j < i}
<1> DEFINE rank == [i \in places |-> Cardinality(below(i)) + 1]
<1>1. IsFiniteSet(places) /\ n \in Nat
  <2>1. IsFiniteSet(1..N)
    BY FS_Interval
  <2>2. IsFiniteSet(places)
    BY <2>1, FS_Subset
  <2> QED
    BY <2>2, FS_CardinalityType
<1>0. \A i \in places : i \in Int
  OBVIOUS
<1>2. ASSUME NEW i \in places
      PROVE  /\ IsFiniteSet(below(i)) /\ Cardinality(below(i)) \in Nat
             /\ Cardinality(below(i)) < n
  <2>1. IsFiniteSet(below(i)) /\ Cardinality(below(i)) <= n
        /\ (n = Cardinality(below(i)) => places = below(i))
    BY <1>1, FS_Subset
  <2>2. Cardinality(below(i)) \in Nat
    BY <2>1, FS_CardinalityType
  <2>3. i \in Int /\ i \notin below(i)
    OBVIOUS
  <2> HIDE DEF below, n
  <2> QED
    BY <1>1, <2>1, <2>2, <2>3
<1>3. ASSUME NEW i \in places, NEW j \in places, i < j
      PROVE  rank[i] < rank[j]
  <2>1. i \in Int /\ j \in Int
    OBVIOUS
  <2>2. below(i) \in SUBSET below(j)
    <3> SUFFICES ASSUME NEW x \in places, x < i PROVE x < j
      OBVIOUS
    <3> QED
      BY <1>0, <1>3
  <2>3. i \in below(j) /\ i \notin below(i)
    BY <2>1, <1>3
  <2>4. Cardinality(below(i)) <= Cardinality(below(j))
        /\ (Cardinality(below(j)) = Cardinality(below(i)) => below(j) = below(i))
    BY ONLY <1>2, <2>2, FS_Subset
  <2>5. Cardinality(below(i)) \in Nat /\ Cardinality(below(j)) \in Nat
    BY <1>2
  <2>6. rank[i] = Cardinality(below(i)) + 1 /\ rank[j] = Cardinality(below(j)) + 1
    OBVIOUS
  <2> HIDE DEF below, rank
  <2> QED
    BY <2>3, <2>4, <2>5, <2>6
<1>4. rank \in [places -> 1..n]
  <2> HIDE DEF below
  <2> QED
    BY <1>1, <1>2
<1>5. \A i, j \in places : i # j => rank[i] # rank[j]
  <2> SUFFICES ASSUME NEW i \in places, NEW j \in places, i # j
               PROVE  rank[i] # rank[j]
    OBVIOUS
  <2>1. i < j \/ j < i
    OBVIOUS
  <2>2. rank[i] \in 1..n /\ rank[j] \in 1..n
    BY <1>4
  <2> HIDE DEF rank, n
  <2> QED
    BY <1>1, <1>3, <2>1, <2>2
<1>6. rank \in Injection(places, 1..n)
  BY <1>4, <1>5 DEF Injection, IsInjective
<1>7. Cardinality(1..n) = n /\ IsFiniteSet(1..n)
  BY <1>1, FS_Interval
<1>8. rank \in Surjection(places, 1..n)
  BY <1>6, <1>7, FS_Injection
<1>9. ASSUME NEW k \in 1..n
      PROVE  InOrder(places)[k] \in places /\ rank[InOrder(places)[k]] = k
  <2>1. PICK i \in places : rank[i] = k
    BY <1>8 DEF Surjection
  <2>2. Cardinality(below(i)) = k - 1
    BY <1>2, <2>1
  <2>3. InOrder(places)[k] = CHOOSE j \in places : Cardinality(below(j)) = k - 1
    BY DEF InOrder
  <2> DEFINE chosen == CHOOSE j \in places : Cardinality(below(j)) = k - 1
  <2>4. chosen \in places /\ Cardinality(below(chosen)) = k - 1
    <3> HIDE DEF below
    <3> QED
      BY <2>2
  <2> HIDE DEF below
  <2> QED
    BY <2>3, <2>4
<1> HIDE DEF rank, below
<1>10. InOrder(places) \in [1..n -> places]
  <2>1. InOrder(places) = [k \in 1..n |-> InOrder(places)[k]]
    BY DEF InOrder
  <2> QED
    BY <1>9, <2>1
<1>11. ASSUME NEW j \in 1..n, NEW k \in 1..n, j < k
       PROVE  InOrder(places)[j] < InOrder(places)[k]
  <2>1. /\ InOrder(places)[j] \in places /\ InOrder(places)[k] \in places
        /\ rank[InOrder(places)[j]] = j /\ rank[InOrder(places)[k]] = k
    BY <1>9
  <2>2. InOrder(places)[j] \in Int /\ InOrder(places)[k] \in Int
    BY <1>0, <2>1
  <2>3. ~(InOrder(places)[k] < InOrder(places)[j])
    <3> SUFFICES ASSUME InOrder(places)[k] < InOrder(places)[j] PROVE FALSE
      OBVIOUS
    <3>1. rank[InOrder(places)[k]] < rank[InOrder(places)[j]]
      BY <1>3, <2>1
    <3> QED
      BY <1>1, <1>11, <2>1, <3>1
  <2>4. InOrder(places)[k] # InOrder(places)[j]
    BY <1>1, <1>11, <2>1
  <2> QED
    BY <2>2, <2>3, <2>4
<1>12. ASSUME NEW i \in places
       PROVE  \E k \in 1..n : InOrder(places)[k] = i
  <2>1. rank[i] \in 1..n
    BY <1>4
  <2> DEFINE found == InOrder(places)[rank[i]]
  <2>2. found \in places /\ rank[found] = rank[i]
    BY <1>9, <2>1
  <2>3. found = i
    BY <1>5, <2>2
  <2> QED
    BY <2>1, <2>3
<1> QED
  BY <1>1, <1>10, <1>11, <1>12

\* A filtered view has what is at the places, in their order.
LEMMA FilteredProperties ==
  ASSUME NEW list, NEW N \in Nat, DOMAIN list = 1..N, NEW places \in SUBSET (1..N)
  PROVE  /\ Len(Filtered(list, places)) \in Nat
         /\ DOMAIN Filtered(list, places) = 1..Len(Filtered(list, places))
         /\ \A k \in DOMAIN Filtered(list, places) :
              /\ InOrder(places)[k] \in places
              /\ Filtered(list, places)[k] = list[InOrder(places)[k]]
         /\ \A j, k \in DOMAIN Filtered(list, places) :
              j < k => InOrder(places)[j] < InOrder(places)[k]
         /\ \A i \in places : \E k \in DOMAIN Filtered(list, places) : InOrder(places)[k] = i
<1> DEFINE n == Cardinality(places)
<1>1. /\ n \in Nat
      /\ InOrder(places) \in [1..n -> places]
      /\ \A j, k \in 1..n : j < k => InOrder(places)[j] < InOrder(places)[k]
      /\ \A i \in places : \E k \in 1..n : InOrder(places)[k] = i
  BY InOrderProperties
<1>2. Filtered(list, places) = [k \in 1..n |-> list[InOrder(places)[k]]]
  BY DEF Filtered
<1> HIDE DEF n
<1>3. Len(Filtered(list, places)) = n /\ DOMAIN Filtered(list, places) = 1..n
  BY <1>1, <1>2
<1> QED
  BY <1>1, <1>2, <1>3

-----------------------------------------------------------------------------
(* The layers that OrderingLinter and DuplicatesLinter look at.            *)

\* The list is a key whose manifests the world has.  Everything that is proved of
\* errors follows from this.
LintersInv ==
  /\ IsKey(mLayers)
  /\ world \in Worlds
  /\ PathsOf(mLayers) \subseteq DOMAIN world.details

CheckedPlaces == {i \in DOMAIN mLayers : IsEnabled(mLayers[i]) /\ IsLoaded(mLayers[i])}
PlaceOf(k) == InOrder(CheckedPlaces)[k]

\* It looks at the layers that are enabled and loaded, in the order of the list.
LEMMA CheckedProperties ==
  LintersInv =>
    /\ Len(mLayers) \in Nat /\ DOMAIN mLayers = 1..Len(mLayers)
    /\ Len(checked) \in Nat /\ DOMAIN checked = 1..Len(checked)
    /\ \A k \in DOMAIN checked :
         PlaceOf(k) \in CheckedPlaces /\ checked[k] = mLayers[PlaceOf(k)]
    /\ \A j, k \in DOMAIN checked : j < k => PlaceOf(j) < PlaceOf(k)
    /\ \A i \in CheckedPlaces : \E k \in DOMAIN checked : PlaceOf(k) = i
<1> SUFFICES ASSUME IsKey(mLayers)
             PROVE  /\ Len(mLayers) \in Nat /\ DOMAIN mLayers = 1..Len(mLayers)
                    /\ Len(checked) \in Nat /\ DOMAIN checked = 1..Len(checked)
                    /\ \A k \in DOMAIN checked :
                         PlaceOf(k) \in CheckedPlaces /\ checked[k] = mLayers[PlaceOf(k)]
                    /\ \A j, k \in DOMAIN checked : j < k => PlaceOf(j) < PlaceOf(k)
                    /\ \A i \in CheckedPlaces : \E k \in DOMAIN checked : PlaceOf(k) = i
  BY DEF LintersInv
<1>1. Len(mLayers) \in Nat /\ DOMAIN mLayers = 1..Len(mLayers)
  BY DEF IsKey
<1>2. CheckedPlaces \in SUBSET (1..Len(mLayers))
  BY <1>1 DEF CheckedPlaces
<1>3. checked = Filtered(mLayers, CheckedPlaces)
  BY DEF checked, Where, CheckedPlaces
<1> QED
  BY <1>1, <1>2, <1>3, FilteredProperties DEF PlaceOf

\* Two of them are two layers.
LEMMA CheckedAreDistinct ==
  LintersInv =>
    /\ \A k \in DOMAIN checked : checked[k].path \in PathsOf(mLayers)
    /\ \A j, k \in DOMAIN checked : checked[j].path = checked[k].path => j = k
<1> SUFFICES ASSUME LintersInv
             PROVE  /\ \A k \in DOMAIN checked : checked[k].path \in PathsOf(mLayers)
                    /\ \A j, k \in DOMAIN checked :
                         checked[j].path = checked[k].path => j = k
  OBVIOUS
<1>1. \A i, j \in DOMAIN mLayers : mLayers[i].path = mLayers[j].path => i = j
  BY DEF LintersInv, IsKey
<1>2. \A k \in DOMAIN checked : PlaceOf(k) \in DOMAIN mLayers /\ checked[k] = mLayers[PlaceOf(k)]
  BY CheckedProperties DEF CheckedPlaces
<1>3. ASSUME NEW j \in DOMAIN checked, NEW k \in DOMAIN checked, checked[j].path = checked[k].path
      PROVE  j = k
  <2>1. PlaceOf(j) = PlaceOf(k)
    BY <1>1, <1>2, <1>3
  <2>2. j \in Int /\ k \in Int /\ PlaceOf(j) \in Int
    BY <1>2, CheckedProperties
  <2>3. ~(j < k) /\ ~(k < j)
    BY <2>1, <2>2, CheckedProperties
  <2> QED
    BY <2>2, <2>3
<1> QED
  BY <1>2, <1>3 DEF PathsOf

\* A name that was seen has a first copy.
LEMMA FirstCopyProperties ==
  LintersInv => \A name \in Names :
    FirstCopy(name) \in DOMAIN checked /\ Name(checked[FirstCopy(name)]) = name
<1> SUFFICES ASSUME LintersInv, NEW name \in Names
             PROVE  FirstCopy(name) \in DOMAIN checked /\ Name(checked[FirstCopy(name)]) = name
  OBVIOUS
<1> DEFINE I == {i \in 1..Len(checked) : Name(checked[i]) = name}
<1>1. Len(checked) \in Nat /\ DOMAIN checked = 1..Len(checked)
  BY CheckedProperties
<1>2. I \in SUBSET Nat /\ I # {}
  BY <1>1 DEF Names
<1>3. FirstCopy(name) = Min(I)
  BY <1>2 DEF FirstCopy, SelectInSeq
<1>4. FirstCopy(name) \in I
  <2> HIDE DEF I
  <2> QED
    BY <1>2, <1>3, MinOfNats
<1> QED
  BY <1>1, <1>4

\* OrderingLinter looks up a layer that exists, copies or not: an index counts the
\* names before the first copy, which are not more than the layers before it.
LEMMA IndicesInRange ==
  LintersInv => \A name \in Names :
    layerIndices[name] \in Nat /\ layerIndices[name] + 1 \in DOMAIN checked
<1> SUFFICES ASSUME LintersInv, NEW name \in Names
             PROVE  layerIndices[name] \in Nat /\ layerIndices[name] + 1 \in DOMAIN checked
  OBVIOUS
<1> DEFINE m == FirstCopy(name) - 1
<1> DEFINE seen == {Name(checked[i]) : i \in 1..m}
<1> DEFINE nameAt == [i \in 1..m |-> Name(checked[i])]
<1>1. Len(checked) \in Nat /\ DOMAIN checked = 1..Len(checked)
  BY CheckedProperties
<1>2. m \in Nat /\ m + 1 \in DOMAIN checked
  BY <1>1, FirstCopyProperties
<1>3. layerIndices[name] = Cardinality(seen)
  BY DEF layerIndices
<1> HIDE DEF m
<1>4. nameAt \in Surjection(1..m, seen)
  <2>1. nameAt \in [1..m -> seen]
    OBVIOUS
  <2>2. \A t \in seen : \E i \in 1..m : nameAt[i] = t
    OBVIOUS
  <2> QED
    BY <2>1, <2>2 DEF Surjection
<1>5. IsFiniteSet(1..m) /\ Cardinality(1..m) = m
  BY <1>2, FS_Interval
<1> HIDE DEF seen, nameAt
<1>6. IsFiniteSet(seen) /\ Cardinality(seen) <= m
  BY <1>4, <1>5, FS_Surjection
<1>7. Cardinality(seen) \in Nat
  BY <1>6, FS_CardinalityType
<1> QED
  BY <1>1, <1>2, <1>3, <1>6, <1>7

\* Unless there are copies, an index is a place among the layers, counted from 0.
LEMMA IndicesArePlaces ==
  LintersInv /\ ~Copies => \A k \in DOMAIN checked :
    /\ FirstCopy(Name(checked[k])) = k
    /\ layerIndices[Name(checked[k])] = k - 1
<1> SUFFICES ASSUME LintersInv, ~Copies, NEW k \in DOMAIN checked
             PROVE  /\ FirstCopy(Name(checked[k])) = k
                    /\ layerIndices[Name(checked[k])] = k - 1
  OBVIOUS
<1> DEFINE name == Name(checked[k])
<1> DEFINE seen == {Name(checked[i]) : i \in 1..(k - 1)}
<1> DEFINE nameAt == [i \in 1..(k - 1) |-> Name(checked[i])]
<1>1. Len(checked) \in Nat /\ DOMAIN checked = 1..Len(checked) /\ k \in 1..Len(checked)
  BY CheckedProperties
<1>2. \A i, j \in DOMAIN checked : Name(checked[i]) = Name(checked[j]) => i = j
  BY DEF Copies
<1>3. name \in Names
  BY DEF Names
<1>4. FirstCopy(name) = k
  <2>1. FirstCopy(name) \in DOMAIN checked /\ Name(checked[FirstCopy(name)]) = name
    BY <1>3, FirstCopyProperties
  <2> QED
    BY <1>2, <2>1
<1>5. layerIndices[name] = Cardinality(seen)
  BY <1>3, <1>4 DEF layerIndices
<1>6. k - 1 \in Nat /\ 1..(k - 1) \subseteq DOMAIN checked
  BY <1>1
<1>7. nameAt \in Surjection(1..(k - 1), seen)
  <2>1. nameAt \in [1..(k - 1) -> seen]
    OBVIOUS
  <2>2. \A t \in seen : \E i \in 1..(k - 1) : nameAt[i] = t
    OBVIOUS
  <2> QED
    BY <2>1, <2>2 DEF Surjection
<1>8. nameAt \in Injection(1..(k - 1), seen)
  <2>1. \A i, j \in 1..(k - 1) : nameAt[i] = nameAt[j] => i = j
    BY <1>2, <1>6
  <2>2. nameAt \in [1..(k - 1) -> seen]
    OBVIOUS
  <2> HIDE DEF nameAt
  <2> QED
    BY <2>1, <2>2 DEF Injection, IsInjective
<1>9. IsFiniteSet(1..(k - 1)) /\ Cardinality(1..(k - 1)) = k - 1
  BY <1>6, FS_Interval
<1> HIDE DEF seen, nameAt
<1>10. Cardinality(seen) = k - 1
  BY <1>7, <1>8, <1>9, FS_Surjection
<1> QED
  BY <1>4, <1>5, <1>10

-----------------------------------------------------------------------------
(* Rules.                                                                  *)

NotLayers == ExtensionIDs \cup Facets

\* Every facet becomes layers in the first pass of ExpandFacets, and the second
\* changes nothing: it ends, and its assertion that only layers are left holds.
THEOREM ExpandFacetsAssertion ==
  ASSUME NEW facets, NEW extensions, NEW rules,
         \A id \in DOMAIN rules : rules[id].facets \cap Facets # {} => id \notin NotLayers,
         \A layer \in DOMAIN extensions :
           /\ layer \notin NotLayers
           /\ extensions[layer]
                \cap ((facets \cup DOMAIN extensions \cup DOMAIN rules) \ NotLayers) = {}
  PROVE  /\ ExpandFacets(facets, extensions, rules) = LayersWith(facets, extensions, rules)
         /\ ExpandFacets(facets, extensions, rules) \cap NotLayers = {}
<1> DEFINE ids == facets \cup DOMAIN extensions \cup DOMAIN rules
<1> DEFINE pass(some) == LayersWith(some, extensions, rules)
<1> DEFINE Expands(f) ==
      f = [some \in SUBSET ids |-> IF pass(some) = some THEN some ELSE f[pass(some)]]
<1>1. ASSUME NEW some \in SUBSET ids
      PROVE  /\ pass(some) \in SUBSET ids
             /\ pass(some) \cap NotLayers = {}
             /\ pass(pass(some)) = pass(some)
  <2>1. pass(some) \in SUBSET ids /\ pass(some) \cap NotLayers = {}
    BY DEF LayersWith, NotLayers
  <2> DEFINE layers == pass(some)
  <2>2. pass(layers) = (layers \ NotLayers)
                         \cup {layer \in DOMAIN extensions : extensions[layer] \cap layers # {}}
                         \cup {id \in DOMAIN rules : rules[id].facets \cap layers \cap Facets # {}}
    BY DEF LayersWith, NotLayers
  <2>3. layers \subseteq ids \ NotLayers /\ layers \cap Facets = {}
    BY <2>1 DEF NotLayers
  <2> HIDE DEF layers, pass
  <2>4. \A layer \in DOMAIN extensions : extensions[layer] \cap layers = {}
    BY <2>3
  <2>5. \A id \in DOMAIN rules : rules[id].facets \cap layers \cap Facets = {}
    BY <2>3
  <2>6. layers \ NotLayers = layers
    BY <2>3
  <2>7. pass(layers) = layers
    BY <2>2, <2>4, <2>5, <2>6
  <2> QED
    BY <2>1, <2>7 DEF layers
<1> HIDE DEF pass
<1>2. \E f : Expands(f)
  <2> DEFINE f == [some \in SUBSET ids |-> pass(some)]
  <2>1. \A some \in SUBSET ids : f[some] = IF pass(some) = some THEN some ELSE f[pass(some)]
    BY <1>1
  <2>2. f = [some \in SUBSET ids |-> f[some]]
    OBVIOUS
  <2> HIDE DEF f, ids
  <2>3. Expands(f)
    BY <2>1, <2>2
  <2> HIDE DEF Expands
  <2> QED
    BY <2>3
<1> DEFINE expanded == CHOOSE f : Expands(f)
<1>3. Expands(expanded)
  <2> HIDE DEF Expands
  <2> QED
    BY <1>2
<1>4. ExpandFacets(facets, extensions, rules) = expanded[facets]
  BY DEF ExpandFacets, pass
<1> HIDE DEF expanded
<1>5. ASSUME NEW some \in SUBSET ids
      PROVE  expanded[some] = IF pass(some) = some THEN some ELSE expanded[pass(some)]
  <2> HIDE DEF ids
  <2> QED
    BY <1>3
<1>6. facets \in SUBSET ids
  OBVIOUS
<1> HIDE DEF ids
<1>7. expanded[pass(facets)] = pass(facets)
  BY <1>1, <1>5, <1>6
<1>8. expanded[facets] = pass(facets)
  BY <1>5, <1>6, <1>7
<1> QED
  BY <1>1, <1>4, <1>6, <1>8 DEF pass

Fields == {"above", "below", "conflicts", "conflictsPerApp"}

\* What the manifest of a layer of the list says is about kinds that do not mix.
LEMMA KindsOfLayers ==
  LintersInv => \A i \in DOMAIN mLayers :
    /\ Name(mLayers[i]) \in LayerIDs(world) /\ Name(mLayers[i]) \notin NotLayers
    /\ Details(mLayers[i]).extensions \cap (LayerIDs(world) \cup Facets) = {}
    /\ Details(mLayers[i]).extensions \cap DOMAIN Rules = {}
<1> SUFFICES ASSUME LintersInv, NEW i \in DOMAIN mLayers
             PROVE  /\ Name(mLayers[i]) \in LayerIDs(world) /\ Name(mLayers[i]) \notin NotLayers
                    /\ Details(mLayers[i]).extensions \cap (LayerIDs(world) \cup Facets) = {}
                    /\ Details(mLayers[i]).extensions \cap DOMAIN Rules = {}
  OBVIOUS
<1> DEFINE path == mLayers[i].path
<1>1. world \in Worlds /\ path \in DOMAIN world.details
  BY DEF LintersInv, PathsOf
<1> HIDE DEF path
<1>2. /\ world.details[path].name \notin ExtensionIDs \cup Facets
      /\ world.details[path].extensions \cap (LayerIDs(world) \cup Facets) = {}
  BY <1>1, KindsAssumption
<1>3. world.details[path].name \in LayerIDs(world)
  <2> DEFINE names == {world.details[p].name : p \in DOMAIN world.details}
  <2> DEFINE inRules ==
        DOMAIN Rules \cup (UNION {Rules[id].above \cup Rules[id].below \cup Rules[id].conflicts
                                    \cup Rules[id].conflictsPerApp : id \in DOMAIN Rules})
  <2>1. world.details[path].name \in names
    BY <1>1
  <2>2. LayerIDs(world) = (inRules \cup names) \ (ExtensionIDs \cup Facets)
    BY DEF LayerIDs
  <2> HIDE DEF names, inRules
  <2> QED
    BY <1>2, <2>1, <2>2
<1>4. DOMAIN Rules \subseteq LayerIDs(world) \cup Facets
  BY KindsAssumption DEF LayerIDs
<1> HIDE DEF LayerIDs
<1> QED
  BY <1>2, <1>3, <1>4 DEF Details, Name, NotLayers, path

\* What a layer's rules demand starts from ids of layers, extensions and facets.
LEMMA KindsOfRules ==
  \A field \in Fields : \A id \in DOMAIN Rules :
    Rules[id][field] \ NotLayers \subseteq LayerIDs(world)
<1> SUFFICES ASSUME NEW field \in Fields, NEW id \in DOMAIN Rules
             PROVE  Rules[id][field] \ NotLayers \subseteq LayerIDs(world)
  OBVIOUS
<1>1. Rules[id][field] \subseteq
        Rules[id].above \cup Rules[id].below \cup Rules[id].conflicts \cup Rules[id].conflictsPerApp
  BY DEF Fields
<1>2. (Rules[id].above \cup Rules[id].below \cup Rules[id].conflicts
         \cup Rules[id].conflictsPerApp) \ NotLayers \subseteq LayerIDs(world)
  BY DEF LayerIDs, NotLayers
<1> QED
  BY <1>1, <1>2

\* ExpandRules finds a layer for a rule if and only if the layer has a feature that
\* the rule, or a rule of one of its facets, names.
LEMMA ExpandedIsDemanded ==
  LintersInv /\ ~Copies => \A field \in Fields : \A j, k \in DOMAIN checked :
    Name(checked[j]) \in Expanded(checked[k], field)
      <=> Demanded(checked[k], field) \cap Features(checked[j]) # {}
<1> SUFFICES ASSUME LintersInv, ~Copies, NEW field \in Fields,
                    NEW j \in DOMAIN checked, NEW k \in DOMAIN checked
             PROVE  Name(checked[j]) \in Expanded(checked[k], field)
                      <=> Demanded(checked[k], field) \cap Features(checked[j]) # {}
  OBVIOUS
<1> DEFINE name == Name(checked[k])
<1> DEFINE other == Name(checked[j])
<1>1. \A i \in DOMAIN checked :
        /\ Name(checked[i]) \in LayerIDs(world) /\ Name(checked[i]) \notin NotLayers
        /\ Details(checked[i]).extensions \cap (LayerIDs(world) \cup Facets) = {}
        /\ Details(checked[i]).extensions \cap DOMAIN Rules = {}
  <2> TAKE i \in DOMAIN checked
  <2>1. PlaceOf(i) \in DOMAIN mLayers /\ checked[i] = mLayers[PlaceOf(i)]
    BY CheckedProperties DEF CheckedPlaces
  <2> QED
    BY <2>1, KindsOfLayers
<1>2. CASE name \notin DOMAIN Rules
  <2>1. Features(checked[k]) \cap DOMAIN Rules = {}
    BY <1>1, <1>2 DEF Features
  <2> QED
    BY <1>2, <2>1 DEF Expanded, Demanded
<1>3. CASE name \in DOMAIN Rules
  <2> DEFINE base == Rules[name][field]
                       \cup UNION {Rules[mixin][field] :
                                      mixin \in Rules[name].facets \cap DOMAIN Rules}
  <2>1. Demanded(checked[k], field) = base
    <3>1. Features(checked[k]) \cap DOMAIN Rules
            = {name} \cup (Rules[name].facets \cap DOMAIN Rules)
      BY <1>1, <1>3 DEF Features
    <3> QED
      BY <3>1 DEF Demanded
  <2>2. base \ NotLayers \subseteq LayerIDs(world)
    BY <1>3, KindsOfRules
  <2>3. DOMAIN layerExtensions = Names /\ Names \subseteq LayerIDs(world) \ NotLayers
    BY <1>1 DEF layerExtensions, Names
  <2>4. DOMAIN Rules \ NotLayers \subseteq LayerIDs(world)
    BY DEF LayerIDs, NotLayers
  <2>5. ASSUME NEW layer \in Names
        PROVE  layerExtensions[layer] \cap (LayerIDs(world) \cup Facets) = {}
    <3>1. FirstCopy(layer) \in DOMAIN checked
      BY <2>5, FirstCopyProperties
    <3> QED
      BY <1>1, <2>5, <3>1 DEF layerExtensions
  <2>6. \A id \in DOMAIN Rules : Rules[id].facets \cap Facets # {} => id \notin NotLayers
    BY KindsAssumption DEF NotLayers
  <2> HIDE DEF base
  <2>7. \A layer \in DOMAIN layerExtensions :
          /\ layer \notin NotLayers
          /\ layerExtensions[layer]
               \cap ((base \cup DOMAIN layerExtensions \cup DOMAIN Rules) \ NotLayers) = {}
    BY <2>2, <2>3, <2>4, <2>5
  <2>8. ExpandFacets(base, layerExtensions, Rules) = LayersWith(base, layerExtensions, Rules)
    BY ONLY <2>6, <2>7, ExpandFacetsAssertion
  <2>9. Expanded(checked[k], field) = LayersWith(base, layerExtensions, Rules) \cap Names
    BY <1>3, <2>8 DEF Expanded, ExpandRule, base
  <2>10. layerExtensions[other] = Details(checked[j]).extensions /\ other \in Names
    BY IndicesArePlaces DEF layerExtensions, Names
  <2>11. other \in LayersWith(base, layerExtensions, Rules)
           <=> \/ other \in base
               \/ Details(checked[j]).extensions \cap base # {}
               \/ other \in DOMAIN Rules /\ Rules[other].facets \cap base \cap Facets # {}
    BY <1>1, <2>3, <2>10 DEF LayersWith, NotLayers
  <2>12. other \in DOMAIN Rules => Rules[other].facets \subseteq Facets
    BY KindsAssumption
  <2>13. base \cap Features(checked[j]) # {}
           <=> \/ other \in base
               \/ Details(checked[j]).extensions \cap base # {}
               \/ other \in DOMAIN Rules /\ Rules[other].facets \cap base \cap Facets # {}
    BY <2>12 DEF Features
  <2> QED
    BY <2>1, <2>9, <2>10, <2>11, <2>13
<1> QED
  BY <1>2, <1>3

-----------------------------------------------------------------------------
(* The errors.                                                             *)

\* A linter that looks at one layer after the other has one error of each that fails.
LEMMA ErrorsAtProperties ==
  LintersInv => \A linter, kind : \A places \in SUBSET DOMAIN mLayers :
    LET errors == ErrorsAt(linter, places, kind)
    IN  /\ errors \in Seq(ToSet(errors))
        /\ \A error \in ToSet(errors) : \E i \in places :
             error = Error(linter, {mLayers[i].path}, FixOf(kind, mLayers[i]))
        /\ \A i \in places :
             Error(linter, {mLayers[i].path}, FixOf(kind, mLayers[i])) \in ToSet(errors)
<1> SUFFICES ASSUME LintersInv, NEW linter, NEW kind, NEW places \in SUBSET DOMAIN mLayers
             PROVE  LET errors == ErrorsAt(linter, places, kind)
                    IN  /\ errors \in Seq(ToSet(errors))
                        /\ \A error \in ToSet(errors) : \E i \in places :
                             error = Error(linter, {mLayers[i].path}, FixOf(kind, mLayers[i]))
                        /\ \A i \in places :
                             Error(linter, {mLayers[i].path}, FixOf(kind, mLayers[i]))
                               \in ToSet(errors)
  OBVIOUS
<1> DEFINE failing == Filtered(mLayers, places)
<1> DEFINE errorOf(layer) == Error(linter, {layer.path}, FixOf(kind, layer))
<1> DEFINE errors == ErrorsAt(linter, places, kind)
<1>1. Len(mLayers) \in Nat /\ DOMAIN mLayers = 1..Len(mLayers)
  BY DEF LintersInv, IsKey
<1>2. /\ Len(failing) \in Nat /\ DOMAIN failing = 1..Len(failing)
      /\ \A k \in DOMAIN failing :
           InOrder(places)[k] \in places /\ failing[k] = mLayers[InOrder(places)[k]]
      /\ \A i \in places : \E k \in DOMAIN failing : InOrder(places)[k] = i
  BY <1>1, FilteredProperties
<1>3. errors = [k \in DOMAIN failing |-> errorOf(failing[k])]
  BY DEF ErrorsAt
<1> HIDE DEF failing, errorOf, errors
<1>4. errors \in Seq(ToSet(errors))
  <2>1. Len(failing) \in Nat /\ errors = [k \in 1..Len(failing) |-> errorOf(failing[k])]
    BY <1>2, <1>3
  <2>2. \A k \in 1..Len(failing) : errorOf(failing[k]) \in ToSet(errors)
    BY <2>1 DEF ToSet
  <2> QED
    BY <2>1, <2>2
<1>5. ToSet(errors) = {errorOf(failing[k]) : k \in DOMAIN failing}
  BY <1>3 DEF ToSet
<1>6. {errorOf(failing[k]) : k \in DOMAIN failing} = {errorOf(mLayers[i]) : i \in places}
  BY <1>2
<1> QED
  BY <1>4, <1>5, <1>6 DEF errors, errorOf

\* The kinds of errors.  A layer may be reported and left alone, disabled (unless it
\* is), or removed.
IsSimple(error) ==
  /\ error.linter \notin {"Ordering", "Duplicates"}
  /\ \E i \in DOMAIN mLayers : \E kind \in {"none", "disable", "remove"} :
       /\ error.affected = {mLayers[i].path}
       /\ error.fix = FixOf(kind, mLayers[i])
       /\ kind = "disable" => mLayers[i].value # "Disabled"

\* Another enabled layer is after it.
IsLast(error) ==
  /\ error.linter = "UltraleapLast"
  /\ \E i, j \in DOMAIN mLayers :
       /\ i < j /\ IsEnabled(mLayers[i]) /\ IsEnabled(mLayers[j])
       /\ error.affected = {mLayers[i].path}
       /\ error.fix = <<[kind |-> "last", path |-> mLayers[i].path]>>

FieldOf(position) == IF position = "Above" THEN "above" ELSE "below"

\* The index of another layer is on the wrong side.
IsOrdering(error) ==
  \E position \in {"Above", "Below"} : \E j, k \in DOMAIN checked :
    \E other \in Expanded(checked[k], FieldOf(position)) :
      /\ other \in Names
      /\ j = layerIndices[other] + 1
      /\ position = "Above" => ~(layerIndices[other] > layerIndices[Name(checked[k])])
      /\ position = "Below" => ~(layerIndices[other] < layerIndices[Name(checked[k])])
      /\ error = Error("Ordering", {checked[k].path, checked[j].path},
                       <<[kind |-> "ordering", path |-> checked[k].path,
                          position |-> position, anchor |-> checked[j].path]>>)

IsWarning(error) ==
  error.fix = <<>> /\ error.affected # {} /\ error.affected \subseteq PathsOf(mLayers)

LEMMA SimpleErrors ==
  LintersInv =>
    \A linter : linter \notin {"Ordering", "Duplicates"} =>
      \A kind \in {"none", "disable", "remove"} : \A places \in SUBSET DOMAIN mLayers :
        (kind = "disable" => \A i \in places : mLayers[i].value # "Disabled")
          => \A error \in ToSet(ErrorsAt(linter, places, kind)) :
               IsSimple(error) /\ (kind # "none" => error.fix # <<>>)
<1> SUFFICES ASSUME LintersInv, NEW linter, linter \notin {"Ordering", "Duplicates"},
                    NEW kind \in {"none", "disable", "remove"},
                    NEW places \in SUBSET DOMAIN mLayers,
                    kind = "disable" => \A i \in places : mLayers[i].value # "Disabled",
                    NEW error \in ToSet(ErrorsAt(linter, places, kind))
             PROVE  IsSimple(error) /\ (kind # "none" => error.fix # <<>>)
  OBVIOUS
<1>1. PICK i \in places : error = Error(linter, {mLayers[i].path}, FixOf(kind, mLayers[i]))
  <2> DEFINE errors == ErrorsAt(linter, places, kind)
  <2>1. \A e \in ToSet(errors) : \E i \in places :
          e = Error(linter, {mLayers[i].path}, FixOf(kind, mLayers[i]))
    BY ErrorsAtProperties, Zenon
  <2> QED
    BY <2>1
<1>2. /\ error.linter = linter
      /\ error.affected = {mLayers[i].path}
      /\ error.fix = FixOf(kind, mLayers[i])
  BY <1>1 DEF Error
<1>3. kind # "none" => error.fix # <<>>
  BY <1>2 DEF FixOf
<1> QED
  BY <1>2, <1>3 DEF IsSimple

\* UltraleapLastLinter.
LEMMA LastErrors ==
  LintersInv => \A error \in ToSet(UltraleapLastLint) : IsLast(error)
<1> SUFFICES ASSUME LintersInv, NEW error \in ToSet(UltraleapLastLint)
             PROVE  IsLast(error)
  OBVIOUS
<1> DEFINE places == Where(IsEnabled)
<1> DEFINE enabled == Filtered(mLayers, places)
<1> DEFINE I == {k \in 1..Len(enabled) : Name(enabled[k]) = "ULTRALEAP_hand_tracking"}
<1> DEFINE k == SelectInSeq(enabled, LAMBDA layer : Name(layer) = "ULTRALEAP_hand_tracking")
<1>1. Len(mLayers) \in Nat /\ DOMAIN mLayers = 1..Len(mLayers)
  BY DEF LintersInv, IsKey
<1>2. places \in SUBSET (1..Len(mLayers)) /\ \A i \in places : IsEnabled(mLayers[i])
  BY <1>1 DEF Where
<1> HIDE DEF places
<1>3. /\ Len(enabled) \in Nat /\ DOMAIN enabled = 1..Len(enabled)
      /\ \A m \in DOMAIN enabled :
           InOrder(places)[m] \in places /\ enabled[m] = mLayers[InOrder(places)[m]]
      /\ \A l, m \in DOMAIN enabled : l < m => InOrder(places)[l] < InOrder(places)[m]
  BY <1>1, <1>2, FilteredProperties
<1>4. k = IF I # {} THEN Min(I) ELSE 0
  BY DEF SelectInSeq
<1> DEFINE found == Error("UltraleapLast", {enabled[k].path},
                          <<[kind |-> "last", path |-> enabled[k].path]>>)
<1> DEFINE nothing == k = 0 \/ k = Len(enabled) \/ Details(enabled[k]).version # "1"
<1>5. UltraleapLastLint = IF nothing THEN <<>> ELSE <<found>>
  BY DEF UltraleapLastLint, places
<1>6. /\ k # 0 /\ k # Len(enabled)
      /\ error = Error("UltraleapLast", {enabled[k].path},
                       <<[kind |-> "last", path |-> enabled[k].path]>>)
  <2>1. ~nothing /\ error = found
    <3> HIDE DEF nothing, found
    <3>1. ToSet(<<>>) = {} /\ ToSet(<<found>>) = {found}
      BY DEF ToSet
    <3> QED
      BY <1>5, <3>1
  <2> QED
    BY <2>1
<1>7. k \in 1..Len(enabled)
  <2>1. I \in SUBSET Nat
    BY <1>3
  <2> HIDE DEF k
  <2>2. k \in I
    <3> HIDE DEF I
    <3> QED
      BY <1>4, <1>6, <2>1, MinOfNats
  <2> QED
    BY <2>2
<1> HIDE DEF k, enabled, I
<1>8. k \in DOMAIN enabled /\ k + 1 \in DOMAIN enabled
  <2>1. k \in Int /\ 1 <= k /\ k <= Len(enabled) /\ k # Len(enabled)
    <3>1. Len(enabled) \in Nat
      BY <1>3
    <3> QED
      BY ONLY <1>6, <1>7, <3>1
  <2>2. Len(enabled) \in Nat /\ DOMAIN enabled = 1..Len(enabled)
    BY <1>3
  <2>3. \A n \in Nat : \A m \in Int :
          1 <= m /\ m <= n /\ m # n => m \in 1..n /\ m + 1 \in 1..n
    OBVIOUS
  <2> QED
    BY ONLY <2>1, <2>2, <2>3, Zenon
<1> DEFINE i == InOrder(places)[k]
<1> DEFINE j == InOrder(places)[k + 1]
<1>9. i < j
  BY <1>3, <1>7, <1>8
<1>10. /\ i \in DOMAIN mLayers /\ j \in DOMAIN mLayers
       /\ IsEnabled(mLayers[i]) /\ IsEnabled(mLayers[j])
       /\ enabled[k] = mLayers[i]
  BY <1>1, <1>2, <1>3, <1>8
<1> HIDE DEF i, j
<1> QED
  BY <1>6, <1>9, <1>10 DEF IsLast, Error

AllSimple(lint) == \A error \in ToSet(lint) : IsSimple(error)

AllFixable(lint) ==
  lint \in Seq(ToSet(lint)) /\ \A error \in ToSet(lint) : error.fix # <<>>

\* The linters that find at most one error of each layer, and report or fix that layer.
LEMMA OneLayerErrors ==
  LintersInv =>
    /\ \A lint \in SimpleResults \ {UltraleapLastLint} : AllSimple(lint) /\ AllFixable(lint)
    /\ \A lint \in {DisabledByEnvironmentLint, SkippedByLoaderLint, ProgramFilesLint,
                     UnsignedDllLint} : AllSimple(lint)
<1> SUFFICES ASSUME LintersInv
             PROVE  /\ \A lint \in SimpleResults \ {UltraleapLastLint} :
                         AllSimple(lint) /\ AllFixable(lint)
                    /\ \A lint \in {DisabledByEnvironmentLint, SkippedByLoaderLint,
                                     ProgramFilesLint, UnsignedDllLint} : AllSimple(lint)
  OBVIOUS
<1>1. ASSUME NEW linter, linter \notin {"Ordering", "Duplicates"},
             NEW kind \in {"none", "disable", "remove"},
             NEW places \in SUBSET DOMAIN mLayers,
             kind = "disable" => \A i \in places : mLayers[i].value # "Disabled"
      PROVE  /\ AllSimple(ErrorsAt(linter, places, kind))
             /\ kind # "none" => AllFixable(ErrorsAt(linter, places, kind))
  <2> DEFINE errors == ErrorsAt(linter, places, kind)
  <2>1. errors \in Seq(ToSet(errors))
    BY ErrorsAtProperties, Zenon
  <2>2. \A error \in ToSet(errors) : IsSimple(error) /\ (kind # "none" => error.fix # <<>>)
    BY <1>1, SimpleErrors, Zenon
  <2> HIDE DEF errors
  <2>3. AllSimple(errors) /\ (kind # "none" => AllFixable(errors))
    BY <2>1, <2>2 DEF AllSimple, AllFixable
  <2> QED
    BY <2>3 DEF errors
<1>2. AllSimple(BadInstallationLint) /\ AllFixable(BadInstallationLint)
  <2> DEFINE places ==
        Where(LAMBDA layer : ~IsLoaded(layer) \/ "exists" \notin Details(layer).library)
  <2>1. places \in SUBSET DOMAIN mLayers
    BY DEF Where
  <2> HIDE DEF places
  <2>2. /\ AllSimple(ErrorsAt("BadInstallation", places, "remove"))
        /\ AllFixable(ErrorsAt("BadInstallation", places, "remove"))
    BY <1>1, <2>1
  <2> QED
    BY <2>2 DEF BadInstallationLint, places
<1>3. AllSimple(NotADWORDLint) /\ AllFixable(NotADWORDLint)
  <2> DEFINE places == Where(LAMBDA layer : layer.value = "NotDWORD")
  <2>1. places \in SUBSET DOMAIN mLayers /\ \A i \in places : mLayers[i].value # "Disabled"
    BY DEF Where
  <2> HIDE DEF places
  <2>2. /\ AllSimple(ErrorsAt("NotADWORD", places, "disable"))
        /\ AllFixable(ErrorsAt("NotADWORD", places, "disable"))
    BY <1>1, <2>1
  <2> QED
    BY <2>2 DEF NotADWORDLint, places
<1>4. AllSimple(OpenXRToolkitLint) /\ AllFixable(OpenXRToolkitLint)
  <2> DEFINE places == Where(LAMBDA layer : Is64 /\ IsEnabled(layer) /\ Name(layer) = "toolkit")
  <2>1. places \in SUBSET DOMAIN mLayers /\ \A i \in places : mLayers[i].value # "Disabled"
    BY DEF Where, IsEnabled
  <2> HIDE DEF places
  <2>2. /\ AllSimple(ErrorsAt("OpenXRToolkit", places, "disable"))
        /\ AllFixable(ErrorsAt("OpenXRToolkit", places, "disable"))
    BY <1>1, <2>1
  <2> QED
    BY <2>2 DEF OpenXRToolkitLint, places
<1>5. AllSimple(XRNeckSaferLint) /\ AllFixable(XRNeckSaferLint)
  <2> DEFINE places == Where(LAMBDA layer : /\ Is64
                                            /\ IsEnabled(layer)
                                            /\ Name(layer) = "XRNeckSafer"
                                            /\ Details(layer).version = "1")
  <2>1. places \in SUBSET DOMAIN mLayers /\ \A i \in places : mLayers[i].value # "Disabled"
    BY DEF Where, IsEnabled
  <2> HIDE DEF places
  <2>2. /\ AllSimple(ErrorsAt("XRNeckSafer", places, "disable"))
        /\ AllFixable(ErrorsAt("XRNeckSafer", places, "disable"))
    BY <1>1, <2>1
  <2> QED
    BY <2>2 DEF XRNeckSaferLint, places
<1>6. AllSimple(OutdatedOpenKneeboardLint) /\ AllFixable(OutdatedOpenKneeboardLint)
  <2> DEFINE places == Where(LAMBDA layer : /\ Is64
                                            /\ \/ Name(layer) = "NOVENDOR_OpenKneeboard"
                                               \/ /\ Name(layer) = "OpenKneeboard"
                                                  /\ \/ world.store.root = "HKCU"
                                                     \/ "MSIX" \in Details(layer).library)
  <2>1. places \in SUBSET DOMAIN mLayers
    BY DEF Where
  <2> HIDE DEF places
  <2>2. /\ AllSimple(ErrorsAt("OutdatedOpenKneeboard", places, "remove"))
        /\ AllFixable(ErrorsAt("OutdatedOpenKneeboard", places, "remove"))
    BY <1>1, <2>1
  <2> QED
    BY <2>2 DEF OutdatedOpenKneeboardLint, places
<1>7. AllSimple(ViveLayersLint) /\ AllFixable(ViveLayersLint)
  <2> DEFINE places ==
        Where(LAMBDA layer :
          /\ world.runtime[world.store.bitness] \notin {"None", "SteamVR", "VIVE_OpenXR"}
          /\ IsEnabled(layer)
          /\ Name(layer) = "VIVE_MR")
  <2>1. places \in SUBSET DOMAIN mLayers /\ \A i \in places : mLayers[i].value # "Disabled"
    BY DEF Where, IsEnabled
  <2> HIDE DEF places
  <2>2. /\ AllSimple(ErrorsAt("ViveLayers", places, "disable"))
        /\ AllFixable(ErrorsAt("ViveLayers", places, "disable"))
    BY <1>1, <2>1
  <2> QED
    BY <2>2 DEF ViveLayersLint, places
<1>8. AllSimple(DisabledByEnvironmentLint)
  <2> DEFINE places ==
        Where(LAMBDA layer :
          LET details == Details(layer)
          IN  /\ IsLoaded(layer)
              /\ world.store.kind = "Implicit"
              /\ \/ details.enableEnvironment \notin {""} \cup world.environment
                 \/ details.disableEnvironment \in {""} \cup world.environment)
  <2>1. places \in SUBSET DOMAIN mLayers
    BY DEF Where
  <2> HIDE DEF places
  <2>2. AllSimple(ErrorsAt("DisabledByEnvironment", places, "none"))
    BY <1>1, <2>1
  <2> QED
    BY <2>2 DEF DisabledByEnvironmentLint, places
<1>9. AllSimple(SkippedByLoaderLint)
  <2> DEFINE places ==
        Where(LAMBDA layer :
          LET details == Details(layer)
          IN  /\ world.runtime[64] # "None"
              /\ IsLoaded(layer)
              /\ IsEnabled(layer)
              /\ world.store.kind = "Implicit"
              /\ NotInLoaderData(layer)
              /\ details.enableEnvironment \in {""} \cup world.environment
              /\ details.disableEnvironment \notin world.environment)
  <2>1. places \in SUBSET DOMAIN mLayers
    BY DEF Where
  <2> HIDE DEF places
  <2>2. AllSimple(ErrorsAt("SkippedByLoader", places, "none"))
    BY <1>1, <2>1
  <2> QED
    BY <2>2 DEF SkippedByLoaderLint, places
<1>10. AllSimple(ProgramFilesLint)
  <2> DEFINE places == Where(LAMBDA layer : /\ IsEnabled(layer)
                                            /\ Details(layer).library # {}
                                            /\ "ProgramFiles" \notin Details(layer).library)
  <2>1. places \in SUBSET DOMAIN mLayers
    BY DEF Where
  <2> HIDE DEF places
  <2>2. AllSimple(ErrorsAt("ProgramFiles", places, "none"))
    BY <1>1, <2>1
  <2> QED
    BY <2>2 DEF ProgramFilesLint, places
<1>11. AllSimple(UnsignedDllLint)
  <2> DEFINE Signature(layer) ==
        IF IsEnabled(layer) /\ "exists" \in Details(layer).library
        THEN Details(layer).signature ELSE "NotLookedAt"
  <2> DEFINE places ==
        Where(LAMBDA layer : Signature(layer) \in {"Unsigned", "UntrustedSignature", "Expired"})
  <2> DEFINE unsupported == \E i \in DOMAIN mLayers : Signature(mLayers[i]) = "NotSupported"
  <2>1. places \in SUBSET DOMAIN mLayers
    BY DEF Where
  <2>2. UnsignedDllLint = IF unsupported THEN <<>> ELSE ErrorsAt("UnsignedDll", places, "none")
    BY DEF UnsignedDllLint
  <2> HIDE DEF places, unsupported, Signature
  <2>3. AllSimple(ErrorsAt("UnsignedDll", places, "none"))
    BY <1>1, <2>1
  <2>4. AllSimple(<<>>)
    BY DEF AllSimple, ToSet
  <2> QED
    BY <2>2, <2>3, <2>4
<1> QED
  BY <1>2, <1>3, <1>4, <1>5, <1>6, <1>7, <1>8, <1>9, <1>10, <1>11 DEF SimpleResults

\* A list of names is searched within the names.
LEMMA OrderingErrors ==
  LintersInv => \A k \in DOMAIN checked :
    \A error \in AboveErrors(checked[k]) \cup BelowErrors(checked[k]) : IsOrdering(error)
<1> SUFFICES ASSUME LintersInv, NEW k \in DOMAIN checked,
                    NEW error \in AboveErrors(checked[k]) \cup BelowErrors(checked[k])
             PROVE  IsOrdering(error)
  OBVIOUS
<1>1. ASSUME NEW position \in {"Above", "Below"},
             NEW other \in Expanded(checked[k], FieldOf(position)),
             position = "Above" => ~(layerIndices[other] > layerIndices[Name(checked[k])]),
             position = "Below" => ~(layerIndices[other] < layerIndices[Name(checked[k])]),
             error = OrderingError(checked[k], position, other)
      PROVE  IsOrdering(error)
  <2> DEFINE j == layerIndices[other] + 1
  <2>1. other \in Names
    BY DEF Expanded
  <2>2. j \in DOMAIN checked
    BY <2>1, IndicesInRange
  <2>3. error = Error("Ordering", {checked[k].path, checked[j].path},
                      <<[kind |-> "ordering", path |-> checked[k].path,
                         position |-> position, anchor |-> checked[j].path]>>)
    BY <1>1 DEF OrderingError
  <2> HIDE DEF checked, layerIndices, Expanded
  <2> QED
    BY <1>1, <2>1, <2>2, <2>3 DEF IsOrdering
<1>2. CASE error \in AboveErrors(checked[k])
  <2>1. PICK other \in Expanded(checked[k], "above") :
          /\ ~(layerIndices[other] > layerIndices[Name(checked[k])])
          /\ error = OrderingError(checked[k], "Above", other)
    BY <1>2 DEF AboveErrors
  <2> QED
    BY <1>1, <2>1 DEF FieldOf
<1>3. CASE error \in BelowErrors(checked[k])
  <2>1. PICK other \in Expanded(checked[k], "below") :
          /\ ~(layerIndices[other] < layerIndices[Name(checked[k])])
          /\ error = OrderingError(checked[k], "Below", other)
    BY <1>3 DEF BelowErrors
  <2> QED
    BY <1>1, <2>1 DEF FieldOf
<1> QED
  BY <1>2, <1>3

\* DuplicatesLinter, and OrderingLinter about conflicts.
LEMMA WarningErrors ==
  LintersInv =>
    /\ \A error \in DuplicatesLint : IsWarning(error) /\ error.linter = "Duplicates"
    /\ \A k \in DOMAIN checked : \A error \in ConflictErrors(checked[k]) :
         IsWarning(error) /\ error.linter = "Ordering"
<1> SUFFICES ASSUME LintersInv
             PROVE  /\ \A error \in DuplicatesLint : IsWarning(error) /\ error.linter = "Duplicates"
                    /\ \A k \in DOMAIN checked : \A error \in ConflictErrors(checked[k]) :
                         IsWarning(error) /\ error.linter = "Ordering"
  OBVIOUS
<1>1. ASSUME NEW error \in DuplicatesLint
      PROVE  IsWarning(error) /\ error.linter = "Duplicates"
  <2>1. PICK name \in Names :
          LET copies == {checked[i].path : i \in {j \in DOMAIN checked : Name(checked[j]) = name}}
          IN  error = Error("Duplicates", copies, <<>>)
    BY DEF DuplicatesLint
  <2> DEFINE copies == {checked[i].path : i \in {j \in DOMAIN checked : Name(checked[j]) = name}}
  <2>2. copies \subseteq PathsOf(mLayers)
    BY CheckedAreDistinct
  <2>3. copies # {}
    BY FirstCopyProperties
  <2> HIDE DEF copies
  <2>4. error = Error("Duplicates", copies, <<>>)
    BY <2>1 DEF copies
  <2> QED
    BY <2>2, <2>3, <2>4 DEF IsWarning, Error
<1>2. ASSUME NEW k \in DOMAIN checked, NEW error \in ConflictErrors(checked[k])
      PROVE  IsWarning(error) /\ error.linter = "Ordering"
  <2>1. PICK other \in Names :
          error = Error("Ordering", {checked[k].path, checked[FirstCopy(other)].path}, <<>>)
    BY DEF ConflictErrors, Expanded
  <2>2. checked[k].path \in PathsOf(mLayers) /\ checked[FirstCopy(other)].path \in PathsOf(mLayers)
    BY CheckedAreDistinct, FirstCopyProperties
  <2> HIDE DEF checked, FirstCopy
  <2> QED
    BY <2>1, <2>2 DEF IsWarning, Error
<1> QED
  BY <1>1, <1>2

\* There are no others.
LEMMA ErrorKinds ==
  LintersInv => \A error \in Errors :
    IsSimple(error) \/ IsLast(error) \/ IsOrdering(error) \/ IsWarning(error)
<1> SUFFICES ASSUME LintersInv, NEW error \in Errors
             PROVE  IsSimple(error) \/ IsLast(error) \/ IsOrdering(error) \/ IsWarning(error)
  OBVIOUS
<1>1. CASE error \in Warnings
  <2>1. \/ error \in DuplicatesLint
        \/ \E i \in DOMAIN checked : error \in ConflictErrors(checked[i])
        \/ \E lint \in {DisabledByEnvironmentLint, SkippedByLoaderLint, ProgramFilesLint,
                        UnsignedDllLint} : error \in ToSet(lint)
    BY <1>1 DEF Warnings
  <2> QED
    BY <2>1, WarningErrors, OneLayerErrors DEF AllSimple
<1>2. CASE \E lint \in SimpleResults : error \in ToSet(lint)
  BY <1>2, LastErrors, OneLayerErrors DEF AllSimple
<1>3. CASE \E k \in DOMAIN checked :
             error \in AboveErrors(checked[k]) \cup BelowErrors(checked[k])
  BY <1>3, OrderingErrors
<1>4. \/ error \in Warnings
      \/ \E lint \in SimpleResults : error \in ToSet(lint)
      \/ \E k \in DOMAIN checked : error \in AboveErrors(checked[k]) \cup BelowErrors(checked[k])
  BY DEF Errors
<1> QED
  BY <1>1, <1>2, <1>3, <1>4

-----------------------------------------------------------------------------
(* The list remains a key, and errors are about its layers.                *)

\* What TypeOK says of one error, and that it has one fix at most.
IsSound(error) ==
  /\ error.affected # {} /\ error.affected \subseteq PathsOf(mLayers)
  /\ error.fix # <<>> => /\ error.fix[1] \in Fixes
                         /\ error.fix[1].path \in error.affected

LEMMA ErrorsAreSound ==
  LintersInv => \A error \in Errors : IsSound(error)
<1> SUFFICES ASSUME LintersInv, NEW error \in Errors
             PROVE  IsSound(error)
  OBVIOUS
<1>1. \A i \in DOMAIN mLayers : mLayers[i].path \in PathsOf(mLayers) /\ mLayers[i].path \in Paths
  <2> TAKE i \in DOMAIN mLayers
  <2>1. mLayers[i] \in Layer
    BY DEF LintersInv, IsKey
  <2> QED
    BY <2>1 DEF Layer, PathsOf
<1>2. CASE IsSimple(error)
  <2>1. PICK i \in DOMAIN mLayers, kind \in {"none", "disable", "remove"} :
          error.affected = {mLayers[i].path} /\ error.fix = FixOf(kind, mLayers[i])
    BY <1>2 DEF IsSimple
  <2>2. error.fix # <<>> => kind \in {"disable", "remove"}
                            /\ error.fix[1] = [kind |-> kind, path |-> mLayers[i].path]
    BY <2>1 DEF FixOf
  <2> QED
    BY <1>1, <2>1, <2>2 DEF IsSound, Fixes
<1>3. CASE IsLast(error)
  <2>1. PICK i \in DOMAIN mLayers :
          /\ error.affected = {mLayers[i].path}
          /\ error.fix = <<[kind |-> "last", path |-> mLayers[i].path]>>
    BY <1>3 DEF IsLast
  <2>2. error.fix[1] = [kind |-> "last", path |-> mLayers[i].path]
    BY <2>1
  <2> QED
    BY <1>1, <2>1, <2>2 DEF IsSound, Fixes
<1>4. CASE IsOrdering(error)
  <2>1. PICK position \in {"Above", "Below"}, j \in DOMAIN checked, k \in DOMAIN checked :
          error = Error("Ordering", {checked[k].path, checked[j].path},
                        <<[kind |-> "ordering", path |-> checked[k].path,
                           position |-> position, anchor |-> checked[j].path]>>)
    BY <1>4 DEF IsOrdering
  <2>2. /\ checked[j].path \in PathsOf(mLayers) /\ checked[k].path \in PathsOf(mLayers)
        /\ checked[j].path \in Paths /\ checked[k].path \in Paths
    BY <1>1, CheckedAreDistinct DEF PathsOf
  <2> HIDE DEF checked
  <2>3. /\ error.affected = {checked[k].path, checked[j].path}
        /\ error.fix[1] = [kind |-> "ordering", path |-> checked[k].path,
                           position |-> position, anchor |-> checked[j].path]
    BY <2>1 DEF Error
  <2> QED
    BY <2>2, <2>3 DEF IsSound, Fixes
<1>5. CASE IsWarning(error)
  BY <1>5 DEF IsWarning, IsSound
<1> QED
  BY <1>2, <1>3, <1>4, <1>5, ErrorKinds

\* What one more set of lists makes of the lists.
Joined(lists, nexts) == {list \o next : list \in lists, next \in nexts}

LEMMA JoinedProperties ==
  ASSUME NEW S, NEW lists \in SUBSET Seq(S), NEW nexts \in SUBSET Seq(S)
  PROVE  Joined(lists, nexts) \subseteq Seq(S)
<1>1. \A x \in Joined(lists, nexts) : \E list \in lists, next \in nexts : x = list \o next
  BY DEF Joined
<1>2. \A list, next \in Seq(S) : list \o next \in Seq(S)
  OBVIOUS
<1> QED
  BY <1>1, <1>2

\* A list that is put together from lists of some sets has what these have.
LEMMA ConcatenationsProperties ==
  ASSUME NEW sets, Len(sets) \in Nat, NEW S,
         \A n \in 1..Len(sets) : sets[n] \subseteq Seq(S)
  PROVE  Concatenations(sets) \subseteq Seq(S)
<1> DEFINE N == Len(sets)
<1> DEFINE IsLoop(h, m) ==
      h = [n \in 0..m |-> IF n = 0 THEN {<<>>} ELSE Joined(h[n - 1], sets[n])]
<1> DEFINE U == {m \in 0..N : \E h : IsLoop(h, m)}
<1>1. 0 \in U
  <2> DEFINE h == [n \in 0..0 |-> {<<>>}]
  <2>1. \A n \in 0..0 : n = 0
    OBVIOUS
  <2>2. IsLoop(h, 0)
    BY <2>1
  <2>3. 0 \in 0..N
    OBVIOUS
  <2> HIDE DEF IsLoop, h, N
  <2> QED
    BY <2>2, <2>3
<1>2. ASSUME NEW m \in 1..N, m - 1 \in U
      PROVE  m \in U
  <2>1. PICK h : IsLoop(h, m - 1)
    BY <1>2
  <2> DEFINE g == [n \in 0..m |-> IF n = m THEN Joined(h[m - 1], sets[m]) ELSE h[n]]
  <2>2. \A n \in 0..(m - 1) : h[n] = IF n = 0 THEN {<<>>} ELSE Joined(h[n - 1], sets[n])
    BY <2>1
  <2>3. ASSUME NEW n \in 0..m
        PROVE  g[n] = IF n = 0 THEN {<<>>} ELSE Joined(g[n - 1], sets[n])
    <3>1. CASE n = 0
      BY <2>2, <3>1
    <3>2. CASE n \in 1..m
      <4>1. n - 1 \in 0..m /\ n - 1 # m
        BY <3>2
      <4>2. g[n - 1] = h[n - 1]
        BY <4>1
      <4>3. g[n] = IF n = m THEN Joined(h[m - 1], sets[m]) ELSE h[n]
        OBVIOUS
      <4>4. n # m => h[n] = Joined(h[n - 1], sets[n])
        BY <2>2, <3>2
      <4> HIDE DEF g
      <4> QED
        BY <3>2, <4>2, <4>3, <4>4
    <3> QED
      BY <3>1, <3>2
  <2>4. g = [n \in 0..m |-> g[n]]
    OBVIOUS
  <2> HIDE DEF g
  <2>5. IsLoop(g, m)
    BY <2>3, <2>4
  <2> HIDE DEF IsLoop
  <2> QED
    BY <2>5
<1>3. N \in U
  <2> HIDE DEF U
  <2>1. N \in Nat /\ N \in 0..N
    OBVIOUS
  <2> HIDE DEF N
  <2>2. 0..N \subseteq U
    BY <1>1, <1>2, <2>1, Induction
  <2> QED
    BY <2>1, <2>2
<1> DEFINE joined == CHOOSE h : IsLoop(h, N)
<1>4. IsLoop(joined, N)
  <2> HIDE DEF IsLoop
  <2> QED
    BY <1>3
<1>5. Concatenations(sets) = joined[N]
  BY DEF Concatenations, Joined
<1> HIDE DEF joined
<1>6. \A n \in 0..N :
        joined[n] = IF n = 0 THEN {<<>>} ELSE Joined(joined[n - 1], sets[n])
  BY <1>4
<1> DEFINE V == {n \in 0..N : joined[n] \subseteq Seq(S)}
<1>7. 0 \in V
  <2>1. joined[0] = {<<>>} /\ 0 \in 0..N
    BY <1>6
  <2>2. <<>> \in Seq(S)
    OBVIOUS
  <2>3. joined[0] \subseteq Seq(S)
    BY ONLY <2>1, <2>2
  <2> QED
    BY <2>1, <2>3
<1>8. ASSUME NEW n \in 1..N, n - 1 \in V
      PROVE  n \in V
  <2>1. joined[n] = Joined(joined[n - 1], sets[n])
    BY <1>6
  <2>2. joined[n - 1] \subseteq Seq(S) /\ sets[n] \subseteq Seq(S)
    BY <1>8
  <2>3. Joined(joined[n - 1], sets[n]) \subseteq Seq(S)
    BY ONLY <2>2, JoinedProperties
  <2> QED
    BY <2>1, <2>3
<1> HIDE DEF V, IsLoop
<1>9. N \in V
  <2>1. N \in Nat /\ N \in 0..N
    OBVIOUS
  <2> HIDE DEF N
  <2>2. 0..N \subseteq V
    BY <1>7, <1>8, <2>1, Induction
  <2> QED
    BY <2>1, <2>2
<1> QED
  BY <1>5, <1>9 DEF V

-----------------------------------------------------------------------------
(* The lists of errors that Fix Them! is given.                            *)

Fixable == {error \in Errors : error.fix # <<>>}

LEMMA SetToSeqsProperties ==
  ASSUME NEW S, IsFiniteSet(S)
  PROVE  SetToSeqs(S) \subseteq Seq(S)
<1>1. Cardinality(S) \in Nat
  BY FS_CardinalityType
<1>2. SetToSeqs(S) \subseteq [1..Cardinality(S) -> S]
  BY DEF SetToSeqs
<1> QED
  BY <1>1, <1>2

LEMMA NamesAreFinite ==
  LintersInv => IsFiniteSet(Names)
<1> SUFFICES ASSUME LintersInv PROVE IsFiniteSet(Names)
  OBVIOUS
<1> DEFINE nameAt == [i \in DOMAIN checked |-> Name(checked[i])]
<1>1. IsFiniteSet(DOMAIN checked)
  BY CheckedProperties, FS_Interval
<1>2. nameAt \in Surjection(DOMAIN checked, Names)
  <2>1. nameAt \in [DOMAIN checked -> Names]
    BY DEF Names
  <2>2. \A name \in Names : \E i \in DOMAIN checked : nameAt[i] = name
    BY DEF Names
  <2> QED
    BY <2>1, <2>2 DEF Surjection
<1> HIDE DEF nameAt
<1> QED
  BY <1>1, <1>2, FS_Surjection

LEMMA OrderingErrorsAreFinite ==
  LintersInv => \A k \in DOMAIN checked :
    IsFiniteSet(AboveErrors(checked[k])) /\ IsFiniteSet(BelowErrors(checked[k]))
<1> SUFFICES ASSUME LintersInv, NEW k \in DOMAIN checked
             PROVE  IsFiniteSet(AboveErrors(checked[k])) /\ IsFiniteSet(BelowErrors(checked[k]))
  OBVIOUS
<1>1. ASSUME NEW position, NEW others \in SUBSET Names
      PROVE  IsFiniteSet({OrderingError(checked[k], position, other) : other \in others})
  <2> DEFINE errors == {OrderingError(checked[k], position, other) : other \in others}
  <2> DEFINE errorOf == [other \in others |-> OrderingError(checked[k], position, other)]
  <2>1. IsFiniteSet(others)
    BY NamesAreFinite, FS_Subset
  <2>2. errorOf \in Surjection(others, errors)
    <3>1. errorOf \in [others -> errors]
      OBVIOUS
    <3>2. \A error \in errors : \E other \in others : errorOf[other] = error
      OBVIOUS
    <3> QED
      BY <3>1, <3>2 DEF Surjection
  <2> HIDE DEF errors, errorOf
  <2>3. IsFiniteSet(errors)
    BY <2>1, <2>2, FS_Surjection
  <2> QED
    BY <2>3 DEF errors
<1>2. Expanded(checked[k], "above") \subseteq Names /\ Expanded(checked[k], "below") \subseteq Names
  BY DEF Expanded
<1> DEFINE above == {n \in Expanded(checked[k], "above") :
                       ~(layerIndices[n] > layerIndices[Name(checked[k])])}
<1> DEFINE below == {n \in Expanded(checked[k], "below") :
                       ~(layerIndices[n] < layerIndices[Name(checked[k])])}
<1>3. above \in SUBSET Names /\ below \in SUBSET Names
  BY <1>2
<1>4. /\ AboveErrors(checked[k]) = {OrderingError(checked[k], "Above", other) : other \in above}
      /\ BelowErrors(checked[k]) = {OrderingError(checked[k], "Below", other) : other \in below}
  BY DEF AboveErrors, BelowErrors
<1> HIDE DEF above, below
<1> QED
  BY <1>1, <1>3, <1>4

\* An element of a set of them is an error of the list that can be fixed.
LEMMA OrderingLists ==
  LintersInv => OrderingLint \subseteq Seq(Fixable)
<1> SUFFICES ASSUME LintersInv PROVE OrderingLint \subseteq Seq(Fixable)
  OBVIOUS
<1> DEFINE sets == [i \in DOMAIN checked |->
                      Joined(SetToSeqs(AboveErrors(checked[i])), SetToSeqs(BelowErrors(checked[i])))]
<1>1. Len(checked) \in Nat /\ DOMAIN checked = 1..Len(checked)
  BY CheckedProperties
<1>2. Len(sets) = Len(checked)
  BY <1>1
<1>3. OrderingLint = Concatenations(sets)
  BY DEF OrderingLint, Joined
<1>4. ASSUME NEW k \in DOMAIN checked
      PROVE  sets[k] \subseteq Seq(Fixable)
  <2> DEFINE above == AboveErrors(checked[k])
  <2> DEFINE below == BelowErrors(checked[k])
  <2>1. above \subseteq Fixable /\ below \subseteq Fixable
    <3>1. above \subseteq Errors /\ below \subseteq Errors
      BY DEF Errors
    <3>2. \A error \in above \cup below : error.fix # <<>>
      BY DEF AboveErrors, BelowErrors, OrderingError, Error
    <3> HIDE DEF above, below
    <3> QED
      BY <3>1, <3>2 DEF Fixable
  <2>2. IsFiniteSet(above) /\ IsFiniteSet(below)
    BY OrderingErrorsAreFinite
  <2>3. sets[k] = Joined(SetToSeqs(above), SetToSeqs(below))
    OBVIOUS
  <2> HIDE DEF above, below, sets
  <2>4. SetToSeqs(above) \subseteq Seq(above) /\ SetToSeqs(below) \subseteq Seq(below)
    BY <2>2, SetToSeqsProperties
  <2>5. Seq(above) \subseteq Seq(Fixable) /\ Seq(below) \subseteq Seq(Fixable)
    BY <2>1
  <2>6. SetToSeqs(above) \in SUBSET Seq(Fixable) /\ SetToSeqs(below) \in SUBSET Seq(Fixable)
    BY <2>4, <2>5
  <2> QED
    BY ONLY <2>3, <2>6, JoinedProperties
<1> HIDE DEF sets
<1> QED
  BY <1>1, <1>2, <1>3, <1>4, ConcatenationsProperties

LEMMA SimpleLists ==
  LintersInv => SimpleResults \subseteq Seq(Fixable)
<1> SUFFICES ASSUME LintersInv, NEW lint \in SimpleResults
             PROVE  lint \in Seq(Fixable)
  OBVIOUS
<1>1. ToSet(lint) \subseteq Errors
  BY DEF Errors
<1>2. lint \in Seq(ToSet(lint)) /\ \A error \in ToSet(lint) : error.fix # <<>>
  <2>1. CASE lint = UltraleapLastLint
    <3>1. ASSUME NEW error \in ToSet(lint)
          PROVE  error.fix # <<>>
      <4>1. IsLast(error)
        BY <2>1, LastErrors
      <4>2. PICK i \in DOMAIN mLayers : error.fix = <<[kind |-> "last", path |-> mLayers[i].path]>>
        BY <4>1 DEF IsLast
      <4> QED
        BY <4>2
    <3>2. lint \in Seq(ToSet(lint))
      <4>1. lint = <<>> \/ \E error : lint = <<error>>
        BY <2>1 DEF UltraleapLastLint
      <4>2. ASSUME NEW error, lint = <<error>>
            PROVE  lint \in Seq(ToSet(lint))
        <5>1. ToSet(<<error>>) = {error}
          BY DEF ToSet
        <5> QED
          BY <4>2, <5>1
      <4>3. <<>> \in Seq(ToSet(<<>>))
        OBVIOUS
      <4>4. CASE lint = <<>>
        BY <4>3, <4>4
      <4> QED
        BY <4>1, <4>2, <4>4
    <3> QED
      BY <3>1, <3>2
  <2>2. CASE lint # UltraleapLastLint
    BY <2>2, OneLayerErrors DEF AllFixable
  <2> QED
    BY <2>1, <2>2
<1>3. ToSet(lint) \subseteq Fixable
  BY <1>1, <1>2 DEF Fixable
<1> QED
  BY <1>2, <1>3

LEMMA FixableLists ==
  LintersInv => FixableErrors \subseteq Seq(Fixable)
<1> SUFFICES ASSUME LintersInv PROVE FixableErrors \subseteq Seq(Fixable)
  OBVIOUS
<1> DEFINE results == ({{lint} : lint \in SimpleResults} \cup {OrderingLint}) \ {{<<>>}}
<1>1. IsFiniteSet(results)
  <2> DEFINE lints == <<BadInstallationLint, NotADWORDLint, OpenXRToolkitLint, XRNeckSaferLint,
                        OutdatedOpenKneeboardLint, ViveLayersLint, UltraleapLastLint>>
  <2> DEFINE all == {{lint} : lint \in SimpleResults} \cup {OrderingLint}
  <2> DEFINE resultAt == [n \in 1..8 |-> IF n = 8 THEN OrderingLint ELSE {lints[n]}]
  <2>1. SimpleResults = {lints[n] : n \in 1..7}
    BY DEF SimpleResults
  <2> HIDE DEF lints
  <2>2. resultAt \in Surjection(1..8, all)
    <3>1. ASSUME NEW n \in 1..8
          PROVE  resultAt[n] \in all
      BY <2>1
    <3>2. ASSUME NEW result \in all
          PROVE  \E n \in 1..8 : resultAt[n] = result
      <4>1. CASE result = OrderingLint
        BY <4>1
      <4>2. CASE \E lint \in SimpleResults : result = {lint}
        <5>1. PICK n \in 1..7 : result = {lints[n]}
          BY <2>1, <4>2
        <5>2. n \in 1..8 /\ n # 8
          OBVIOUS
        <5> QED
          BY <5>1, <5>2
      <4> QED
        BY <4>1, <4>2
    <3>3. resultAt = [n \in 1..8 |-> resultAt[n]]
      OBVIOUS
    <3> HIDE DEF resultAt, all
    <3> QED
      BY <3>1, <3>2, <3>3 DEF Surjection
  <2> HIDE DEF resultAt, all
  <2>3. IsFiniteSet(1..8)
    <3>1. \A n \in Nat : IsFiniteSet(1..n)
      BY FS_Interval
    <3>2. 8 \in Nat
      OBVIOUS
    <3> QED
      BY ONLY <3>1, <3>2
  <2>4. IsFiniteSet(all)
    BY <2>2, <2>3, FS_Surjection
  <2>5. results \in SUBSET all
    BY DEF all
  <2> HIDE DEF results
  <2> QED
    BY <2>4, <2>5, FS_Subset
<1>2. ASSUME NEW result \in results
      PROVE  result \subseteq Seq(Fixable)
  BY SimpleLists, OrderingLists
<1> HIDE DEF results
<1>3. ASSUME NEW order \in SetToSeqs(results)
      PROVE  Concatenations(order) \subseteq Seq(Fixable)
  <2>1. order \in Seq(results)
    BY <1>1, SetToSeqsProperties
  <2>2. Len(order) \in Nat /\ \A n \in 1..Len(order) : order[n] \in results
    BY <2>1
  <2>3. \A n \in 1..Len(order) : order[n] \subseteq Seq(Fixable)
    BY <1>2, <2>2
  <2> QED
    BY <2>2, <2>3, ConcatenationsProperties
<1>4. FixableErrors = UNION {Concatenations(order) : order \in SetToSeqs(results)}
  BY DEF FixableErrors, results
<1> QED
  BY <1>3, <1>4

\* Fixes of errors leave a key, with no other layers.
LEMMA AllFixedProperties ==
  LintersInv => \A errors \in Seq(Fixable) :
    IsKey(AllFixed(errors)) /\ PathsOf(AllFixed(errors)) \subseteq PathsOf(mLayers)
<1> SUFFICES ASSUME LintersInv, NEW errors \in Seq(Fixable)
             PROVE  /\ IsKey(AllFixed(errors))
                    /\ PathsOf(AllFixed(errors)) \subseteq PathsOf(mLayers)
  OBVIOUS
<1> DEFINE fixes == [i \in DOMAIN errors |-> errors[i].fix[1]]
<1> DEFINE fixed == FixThem(mLayers, fixes)
<1>1. fixes \in Seq(Fixes)
  <2>1. \A error \in Fixable : error.fix[1] \in Fixes
    BY ErrorsAreSound DEF IsSound, Fixable
  <2>2. Len(errors) \in Nat /\ DOMAIN errors = 1..Len(errors)
    OBVIOUS
  <2>3. \A i \in 1..Len(errors) : errors[i] \in Fixable
    OBVIOUS
  <2>4. \A i \in 1..Len(errors) : errors[i].fix[1] \in Fixes
    BY <2>1, <2>3
  <2> HIDE DEF Fixable
  <2> QED
    BY <2>2, <2>4
<1>2. IsKey(mLayers)
  BY DEF LintersInv
<1> HIDE DEF fixes
<1>3. IsKey(fixed) /\ PathsOf(fixed) \subseteq PathsOf(mLayers)
  BY <1>1, <1>2, FixThemProperties
<1>4. AllFixed(errors) = Reloaded(fixed)
  BY DEF AllFixed, fixes
<1> HIDE DEF fixed
<1>5. fixed \in Seq(Layer)
  BY <1>3 DEF IsKey
<1>6. AllFixed(errors) = IF fixed = mLayers THEN mLayers ELSE Written(fixed)
  BY <1>4 DEF Reloaded
<1> QED
  BY <1>2, <1>3, <1>5, <1>6, WrittenProperties

\* LintersInv is inductive.
LEMMA LintersInvariant ==
  Spec => []LintersInv
<1>1. Init => LintersInv
  <2> SUFFICES ASSUME Init PROVE LintersInv
    OBVIOUS
  <2>1. mLayers \in Keys /\ PathsOf(mLayers) \subseteq DOMAIN world.details
    BY DEF Init
  <2> QED
    BY <2>1 DEF Init, Keys, LintersInv
<1>2. LintersInv /\ [Next]_vars => LintersInv'
  <2> SUFFICES ASSUME LintersInv, [Next]_vars PROVE LintersInv'
    OBVIOUS
  <2>1. CASE UNCHANGED vars
    BY <2>1 DEF vars, LintersInv, IsKey, PathsOf
  <2>2. ASSUME NEW errors \in Seq(Fixable), mLayers' = AllFixed(errors), UNCHANGED world
        PROVE  LintersInv'
    <3>1. IsKey(AllFixed(errors)) /\ PathsOf(AllFixed(errors)) \subseteq PathsOf(mLayers)
      BY AllFixedProperties
    <3>2. IsKey(mLayers)' <=> IsKey(AllFixed(errors))
      BY <2>2 DEF IsKey
    <3>3. PathsOf(mLayers)' = PathsOf(AllFixed(errors))
      BY <2>2 DEF PathsOf
    <3> QED
      BY <2>2, <3>1, <3>2, <3>3 DEF LintersInv
  <2>3. CASE \E error \in Errors : FixItClicked(error)
    <3>1. PICK error \in Errors : FixItClicked(error)
      BY <2>3
    <3>2. <<error>> \in Seq(Fixable) /\ mLayers' = AllFixed(<<error>>) /\ UNCHANGED world
      BY <3>1 DEF FixItClicked, Fixable
    <3> QED
      BY <2>2, <3>2
  <2>4. CASE \E errors \in FixableErrors : \E shown \in {Paths} \cup {{path} : path \in Paths} :
               FixThemClicked(errors, shown)
    <3>1. PICK errors \in FixableErrors, shown \in {Paths} \cup {{path} : path \in Paths} :
            FixThemClicked(errors, shown)
      BY <2>4
    <3> DEFINE places == {i \in DOMAIN errors : errors[i].affected \cap shown # {}}
    <3> DEFINE selected == Filtered(errors, places)
    <3>2. errors \in Seq(Fixable)
      BY FixableLists
    <3>3. selected \in Seq(Fixable)
      <4>1. Len(errors) \in Nat /\ DOMAIN errors = 1..Len(errors) /\ places \in SUBSET (1..Len(errors))
        BY <3>2
      <4>2. Cardinality(places) \in Nat /\ InOrder(places) \in [1..Cardinality(places) -> places]
        <5> HIDE DEF places
        <5> QED
          BY <4>1, InOrderProperties
      <4>3. \A i \in places : errors[i] \in Fixable
        BY <3>2, <4>1
      <4>4. selected = [k \in 1..Cardinality(places) |-> errors[InOrder(places)[k]]]
        BY DEF Filtered
      <4> HIDE DEF selected, places
      <4>5. \A k \in 1..Cardinality(places) : errors[InOrder(places)[k]] \in Fixable
        BY <4>2, <4>3
      <4> QED
        BY <4>2, <4>4, <4>5
    <3>4. mLayers' = AllFixed(selected) /\ UNCHANGED world
      BY <3>1 DEF FixThemClicked
    <3> HIDE DEF selected
    <3> QED
      BY <2>2, <3>3, <3>4
  <2> QED
    BY <2>1, <2>3, <2>4 DEF Next, NothingClicked
<1> QED
  BY <1>1, <1>2, PTL DEF Spec

\* The list remains a key, and what LayerSet assumes of errors holds of all that
\* RunAllLinters returns: each is about layers of the list, and a fix is one of
\* those that LayerEdits has and moves, disables or removes an affected layer.
THEOREM LintersTypeCorrect ==
  Spec => []TypeOK
<1>1. LintersInv => TypeOK
  BY ErrorsAreSound DEF IsSound, LintersInv, TypeOK
<1> QED
  BY <1>1, LintersInvariant, PTL

-----------------------------------------------------------------------------
(* The linters leave nothing out.                                          *)

\* DuplicatesLinter has an error if there are copies of a layer.
LEMMA CopiesAreReported ==
  LintersInv /\ Copies => \E error \in Errors : error.linter = "Duplicates"
<1> SUFFICES ASSUME LintersInv, Copies
             PROVE  \E error \in Errors : error.linter = "Duplicates"
  OBVIOUS
<1>1. PICK i \in DOMAIN checked, j \in DOMAIN checked :
        i # j /\ Name(checked[i]) = Name(checked[j])
  BY DEF Copies
<1> DEFINE name == Name(checked[i])
<1> DEFINE copies == {checked[k].path : k \in {l \in DOMAIN checked : Name(checked[l]) = name}}
<1> DEFINE p == checked[i].path
<1> DEFINE q == checked[j].path
<1>2. p \in copies /\ q \in copies /\ p # q
  BY <1>1, CheckedAreDistinct
<1>3. IsFiniteSet(copies)
  <2>1. PathsOf(mLayers) \subseteq Paths
    <3>1. \A k \in DOMAIN mLayers : mLayers[k] \in Layer
      BY DEF LintersInv, IsKey
    <3> QED
      BY <3>1 DEF PathsOf, Layer
  <2>2. copies \in SUBSET Paths
    BY <2>1, CheckedAreDistinct
  <2> HIDE DEF copies
  <2> QED
    BY <2>2, PathsAssumption, FS_Subset
<1>4. Cardinality(copies) > 1
  <2> HIDE DEF copies, p, q
  <2>1. IsFiniteSet({p}) /\ Cardinality({p}) = 1
    BY FS_Singleton
  <2>2. {p} \in SUBSET copies /\ {p} # copies
    BY <1>2
  <2>3. Cardinality({p}) <= Cardinality(copies)
        /\ (Cardinality(copies) = Cardinality({p}) => {p} = copies)
    BY ONLY <1>3, <2>2, FS_Subset
  <2>4. Cardinality(copies) \in Nat
    BY <1>3, FS_CardinalityType
  <2> QED
    BY <2>1, <2>2, <2>3, <2>4
<1>5. name \in Names
  BY <1>1 DEF Names
<1>6. Error("Duplicates", copies, <<>>) \in DuplicatesLint
  BY <1>4, <1>5 DEF DuplicatesLint
<1> HIDE DEF copies
<1>7. Error("Duplicates", copies, <<>>) \in Errors
  BY <1>6 DEF Errors, Warnings
<1>8. Error("Duplicates", copies, <<>>).linter = "Duplicates"
  BY DEF Error
<1> QED
  BY <1>7, <1>8

\* OrderingLinter has an error for each rule that is broken, if there are no copies.
LEMMA BrokenRulesAreReported ==
  LintersInv /\ ~Copies =>
    \A i, j \in DOMAIN checked :
      (\/ Name(checked[j]) \in Expanded(checked[i], "above") /\ ~(i < j)
       \/ Name(checked[j]) \in Expanded(checked[i], "below") /\ ~(i > j)
       \/ Name(checked[j]) \in Expanded(checked[i], "conflicts")
                                 \cup Expanded(checked[i], "conflictsPerApp"))
        => \E error \in Errors : error.linter = "Ordering"
<1> SUFFICES ASSUME LintersInv, ~Copies, NEW i \in DOMAIN checked, NEW j \in DOMAIN checked,
                    \/ Name(checked[j]) \in Expanded(checked[i], "above") /\ ~(i < j)
                    \/ Name(checked[j]) \in Expanded(checked[i], "below") /\ ~(i > j)
                    \/ Name(checked[j]) \in Expanded(checked[i], "conflicts")
                                              \cup Expanded(checked[i], "conflictsPerApp")
             PROVE  \E error \in Errors : error.linter = "Ordering"
  OBVIOUS
<1> DEFINE other == Name(checked[j])
<1>1. layerIndices[other] = j - 1 /\ layerIndices[Name(checked[i])] = i - 1 /\ i \in Int /\ j \in Int
  BY IndicesArePlaces, CheckedProperties
<1>2. CASE other \in Expanded(checked[i], "above") /\ ~(i < j)
  <2>1. ~(layerIndices[other] > layerIndices[Name(checked[i])])
    BY <1>1, <1>2
  <2>2. OrderingError(checked[i], "Above", other) \in AboveErrors(checked[i])
    BY <1>2, <2>1 DEF AboveErrors
  <2>3. OrderingError(checked[i], "Above", other) \in Errors
    BY <2>2 DEF Errors
  <2>4. OrderingError(checked[i], "Above", other).linter = "Ordering"
    BY DEF OrderingError, Error
  <2> QED
    BY <2>3, <2>4
<1>3. CASE other \in Expanded(checked[i], "below") /\ ~(i > j)
  <2>1. ~(layerIndices[other] < layerIndices[Name(checked[i])])
    BY <1>1, <1>3
  <2>2. OrderingError(checked[i], "Below", other) \in BelowErrors(checked[i])
    BY <1>3, <2>1 DEF BelowErrors
  <2>3. OrderingError(checked[i], "Below", other) \in Errors
    BY <2>2 DEF Errors
  <2>4. OrderingError(checked[i], "Below", other).linter = "Ordering"
    BY DEF OrderingError, Error
  <2> QED
    BY <2>3, <2>4
<1>4. CASE other \in Expanded(checked[i], "conflicts") \cup Expanded(checked[i], "conflictsPerApp")
  <2> DEFINE error == Error("Ordering", {checked[i].path, checked[FirstCopy(other)].path}, <<>>)
  <2>1. error \in ConflictErrors(checked[i])
    BY <1>4 DEF ConflictErrors
  <2>2. error.linter = "Ordering"
    BY DEF Error
  <2> HIDE DEF error
  <2>3. error \in Errors
    BY <2>1 DEF Errors, Warnings
  <2> QED
    BY <2>2, <2>3
<1> QED
  BY <1>2, <1>3, <1>4

\* Where neither OrderingLinter nor DuplicatesLinter has an error, the enabled layers
\* are in the order that the rules of LayerRules.cpp ask for and no two conflict.
THEOREM RulesHold ==
  Spec => []NoErrorMeansRulesHold
<1>1. LintersInv => NoErrorMeansRulesHold
  <2> SUFFICES ASSUME LintersInv,
                      \A error \in Errors : error.linter \notin {"Ordering", "Duplicates"},
                      NEW i \in DOMAIN checked, NEW j \in DOMAIN checked, i # j
               PROVE  LET Demands(field) == Demanded(checked[i], field) \cap Features(checked[j]) # {}
                      IN  /\ Demands("above") => i < j
                          /\ Demands("below") => i > j
                          /\ ~Demands("conflicts") /\ ~Demands("conflictsPerApp")
    BY DEF NoErrorMeansRulesHold
  <2>1. ~Copies
    BY CopiesAreReported
  <2>2. \A field \in Fields :
          Name(checked[j]) \in Expanded(checked[i], field)
            <=> Demanded(checked[i], field) \cap Features(checked[j]) # {}
    BY <2>1, ExpandedIsDemanded
  <2>3. /\ Name(checked[j]) \in Expanded(checked[i], "above") => i < j
        /\ Name(checked[j]) \in Expanded(checked[i], "below") => i > j
        /\ Name(checked[j]) \notin Expanded(checked[i], "conflicts")
        /\ Name(checked[j]) \notin Expanded(checked[i], "conflictsPerApp")
    BY <2>1, BrokenRulesAreReported
  <2> QED
    BY <2>2, <2>3 DEF Fields
<1> QED
  BY <1>1, LintersInvariant, PTL

-----------------------------------------------------------------------------
(* The linters say what is so.                                             *)

\* An ordering error moves a layer for the sake of one that has a feature which its
\* rules name, as long as there are no copies of a layer.
THEOREM ErrorsNameDemanded ==
  Spec => []ErrorNamesDemandedLayer
<1>1. LintersInv => ErrorNamesDemandedLayer
  <2> SUFFICES ASSUME LintersInv, ~Copies, NEW error \in Errors,
                      error.linter = "Ordering", error.fix # <<>>
               PROVE  LET fix == error.fix[1]
                          moved == mLayers[FindKey(mLayers, fix.path)]
                          anchor == mLayers[FindKey(mLayers, fix.anchor)]
                      IN  Demanded(moved, IF fix.position = "Above" THEN "above" ELSE "below")
                            \cap Features(anchor) # {}
    BY DEF ErrorNamesDemandedLayer, ErrorAlwaysNamesDemandedLayer
  <2>1. IsOrdering(error)
    BY ErrorKinds DEF IsSimple, IsLast, IsWarning
  <2> DEFINE Found(position, j, k, other) ==
        /\ other \in Names /\ j = layerIndices[other] + 1
        /\ error = Error("Ordering", {checked[k].path, checked[j].path},
                         <<[kind |-> "ordering", path |-> checked[k].path,
                            position |-> position, anchor |-> checked[j].path]>>)
  <2>0. PICK position \in {"Above", "Below"}, j \in DOMAIN checked, k \in DOMAIN checked :
          \E other \in Expanded(checked[k], FieldOf(position)) : Found(position, j, k, other)
    BY <2>1 DEF IsOrdering
  <2>2. PICK other \in Expanded(checked[k], FieldOf(position)) : Found(position, j, k, other)
    BY <2>0
  <2>3. other = Name(checked[j])
    <3>1. PICK i \in DOMAIN checked : other = Name(checked[i])
      BY <2>2 DEF Names
    <3>2. layerIndices[other] = i - 1 /\ i \in Int
      BY <3>1, IndicesArePlaces, CheckedProperties
    <3> QED
      BY <2>2, <3>1, <3>2
  <2>4. Demanded(checked[k], FieldOf(position)) \cap Features(checked[j]) # {}
    <3>1. FieldOf(position) \in Fields
      BY DEF FieldOf, Fields
    <3> QED
      BY <2>2, <2>3, <3>1, ExpandedIsDemanded
  <2>5. ASSUME NEW l \in DOMAIN checked
        PROVE  mLayers[FindKey(mLayers, checked[l].path)] = checked[l]
    <3>1. PlaceOf(l) \in DOMAIN mLayers /\ checked[l] = mLayers[PlaceOf(l)]
      BY CheckedProperties DEF CheckedPlaces
    <3> QED
      BY <3>1, FoundWhereItIs DEF LintersInv
  <2>6. /\ error.fix[1].path = checked[k].path /\ error.fix[1].anchor = checked[j].path
        /\ error.fix[1].position = position
    BY <2>2 DEF Error
  <2> QED
    BY <2>4, <2>5, <2>6 DEF FieldOf
<1> QED
  BY <1>1, LintersInvariant, PTL

\* An enabled layer that the loader left out is in some error: SkippedByLoaderLinter
\* says nothing of the layers that are not loaded or that the environment disables,
\* which BadInstallationLinter and DisabledByEnvironmentLinter report.
THEOREM SkippedExplained ==
  Spec => []SkippedIsExplained
<1>1. LintersInv => SkippedIsExplained
  <2> SUFFICES ASSUME LintersInv, world.store.kind = "Implicit", world.runtime[64] # "None",
                      NEW i \in DOMAIN mLayers,
                      IsEnabled(mLayers[i]), NotInLoaderData(mLayers[i])
               PROVE  \E error \in Errors : mLayers[i].path \in error.affected
    BY DEF SkippedIsExplained
  <2> DEFINE layer == mLayers[i]
  <2> DEFINE details == Details(layer)
  <2>1. ASSUME NEW linter, NEW kind, NEW places \in SUBSET DOMAIN mLayers, i \in places,
               ToSet(ErrorsAt(linter, places, kind)) \subseteq Errors
        PROVE  \E error \in Errors : mLayers[i].path \in error.affected
    <3> DEFINE error == Error(linter, {mLayers[i].path}, FixOf(kind, mLayers[i]))
    <3>1. \A j \in places : Error(linter, {mLayers[j].path}, FixOf(kind, mLayers[j]))
                              \in ToSet(ErrorsAt(linter, places, kind))
      BY ErrorsAtProperties, Zenon
    <3>2. error \in Errors
      BY <2>1, <3>1
    <3>3. mLayers[i].path \in error.affected
      BY DEF Error
    <3> HIDE DEF error
    <3> QED
      BY <3>2, <3>3
  <2>2. CASE ~IsLoaded(layer)
    <3> DEFINE places == Where(LAMBDA l : ~IsLoaded(l) \/ "exists" \notin Details(l).library)
    <3>1. places \in SUBSET DOMAIN mLayers /\ i \in places
      BY <2>2 DEF Where
    <3>2. ErrorsAt("BadInstallation", places, "remove") = BadInstallationLint
      BY DEF BadInstallationLint
    <3> HIDE DEF places
    <3>3. ToSet(ErrorsAt("BadInstallation", places, "remove")) \subseteq Errors
      BY <3>2 DEF Errors, SimpleResults
    <3> QED
      BY <2>1, <3>1, <3>3
  <2>3. CASE /\ IsLoaded(layer)
             /\ \/ details.enableEnvironment \notin {""} \cup world.environment
                \/ details.disableEnvironment \in {""} \cup world.environment
    <3> DEFINE places ==
          Where(LAMBDA l : LET d == Details(l)
                           IN  /\ IsLoaded(l)
                               /\ world.store.kind = "Implicit"
                               /\ \/ d.enableEnvironment \notin {""} \cup world.environment
                                  \/ d.disableEnvironment \in {""} \cup world.environment)
    <3>1. places \in SUBSET DOMAIN mLayers /\ i \in places
      BY <2>3 DEF Where
    <3>2. ErrorsAt("DisabledByEnvironment", places, "none") = DisabledByEnvironmentLint
      BY DEF DisabledByEnvironmentLint
    <3> HIDE DEF places
    <3>3. ToSet(ErrorsAt("DisabledByEnvironment", places, "none")) \subseteq Errors
      BY <3>2 DEF Errors, Warnings
    <3> QED
      BY <2>1, <3>1, <3>3
  <2>4. CASE /\ IsLoaded(layer)
             /\ details.enableEnvironment \in {""} \cup world.environment
             /\ details.disableEnvironment \notin world.environment
    <3> DEFINE places ==
          Where(LAMBDA l : LET d == Details(l)
                           IN  /\ world.runtime[64] # "None"
                               /\ IsLoaded(l)
                               /\ IsEnabled(l)
                               /\ world.store.kind = "Implicit"
                               /\ NotInLoaderData(l)
                               /\ d.enableEnvironment \in {""} \cup world.environment
                               /\ d.disableEnvironment \notin world.environment)
    <3>1. places \in SUBSET DOMAIN mLayers /\ i \in places
      BY <2>4 DEF Where
    <3>2. ErrorsAt("SkippedByLoader", places, "none") = SkippedByLoaderLint
      BY DEF SkippedByLoaderLint
    <3> HIDE DEF places
    <3>3. ToSet(ErrorsAt("SkippedByLoader", places, "none")) \subseteq Errors
      BY <3>2 DEF Errors, Warnings
    <3> QED
      BY <2>1, <3>1, <3>3
  <2> QED
    BY <2>2, <2>3, <2>4
<1> QED
  BY <1>1, LintersInvariant, PTL

-----------------------------------------------------------------------------
(* A fix fixes its error.                                                  *)

\* What a fix of its kind is there to change.
Unfixed(layers, fix) ==
  LET i == FindKey(layers, fix.path)
      anchor == FindKey(layers, fix.anchor)
  IN  /\ i # 0
      /\ fix.kind = "disable" => layers[i].value # "Disabled"
      /\ fix.kind = "last" => i # Len(layers)
      /\ fix.kind = "ordering" =>
           anchor # 0 /\ IF fix.position = "Above" THEN anchor <= i ELSE i <= anchor

\* Writing changes neither the places of the layers nor what is disabled.
LEMMA WrittenFixed ==
  ASSUME NEW layers, IsKey(layers), NEW fix \in Fixes, Unfixed(Written(layers), fix)
  PROVE  Unfixed(layers, fix)
<1> DEFINE w == Written(layers)
<1>1. layers \in Seq(Layer) /\ Len(layers) \in Nat /\ DOMAIN layers = 1..Len(layers)
  BY DEF IsKey
<1>2. /\ w \in Seq(Layer) /\ Len(w) = Len(layers) /\ IsKey(w)
      /\ \A j \in DOMAIN layers :
           /\ w[j].path = layers[j].path
           /\ w[j].value = IF IsEnabled(layers[j]) THEN "Enabled" ELSE "Disabled"
  BY <1>1, WrittenProperties
<1> HIDE DEF w
<1>3. ASSUME NEW path
      PROVE  /\ FindKey(w, path) = FindKey(layers, path)
             /\ FindKey(w, path) # 0 => FindKey(w, path) \in DOMAIN layers
  <2> DEFINE i == FindKey(w, path)
  <2> DEFINE k == FindKey(layers, path)
  <2>1. /\ i \in 0..Len(layers) /\ (i # 0 => w[i].path = path)
        /\ k \in 0..Len(layers) /\ (k # 0 => layers[k].path = path)
    BY <1>1, <1>2, FindKeyProperties
  <2>2. \A j \in DOMAIN layers : w[j].path = path => i = j
    <3>1. DOMAIN w = DOMAIN layers
      BY <1>1, <1>2
    <3> QED
      BY <1>2, <3>1, FoundWhereItIs
  <2>3. \A j \in DOMAIN layers : layers[j].path = path => k = j
    BY FoundWhereItIs
  <2> HIDE DEF i, k
  <2>4. CASE k # 0
    <3>1. k \in DOMAIN layers
      BY <1>1, <2>1, <2>4
    <3> QED
      BY <1>2, <2>1, <2>2, <2>4, <3>1 DEF i, k
  <2>5. CASE i # 0
    <3>1. i \in DOMAIN layers
      BY <1>1, <2>1, <2>5
    <3> QED
      BY <1>2, <2>1, <2>3, <2>5, <3>1 DEF i, k
  <2> QED
    BY <2>4, <2>5 DEF i, k
<1> DEFINE i == FindKey(layers, fix.path)
<1>4. Unfixed(w, fix)
  BY DEF w
<1>5. FindKey(w, fix.path) = i /\ FindKey(w, fix.anchor) = FindKey(layers, fix.anchor)
  BY <1>3
<1>6. i # 0 /\ i \in DOMAIN layers
  BY <1>3, <1>4, <1>5 DEF Unfixed
<1> HIDE DEF i
<1>7. layers[i].value = "Disabled" => w[i].value = "Disabled"
  BY <1>2, <1>6 DEF IsEnabled
<1> QED
  BY <1>2, <1>4, <1>5, <1>6, <1>7 DEF Unfixed, i

\* OrderingLintError::Fix puts the layer next to its anchor, on the side it names.
LEMMA OrderingFixFixes ==
  ASSUME NEW layers, IsKey(layers), NEW fix \in Fixes, fix.kind = "ordering",
         fix.path # fix.anchor, Unfixed(layers, fix)
  PROVE  ~Unfixed(Fix(layers, fix), fix)
<1> DEFINE i == FindKey(layers, fix.path)
<1> DEFINE without == RemoveAt(layers, i)
<1> DEFINE u == FindKey(without, fix.anchor)
<1> DEFINE place == IF fix.position = "Above" THEN u ELSE u + 1
<1> DEFINE fixed == Fix(layers, fix)
<1>1. layers \in Seq(Layer) /\ Len(layers) \in Nat /\ DOMAIN layers = 1..Len(layers)
  BY DEF IsKey
<1>2. /\ i \in DOMAIN layers /\ i # 0 /\ layers[i].path = fix.path
      /\ fix.anchor \in PathsOf(layers)
  BY <1>1, FindKeyProperties DEF Unfixed
<1>3. fixed = OrderingFix(layers, fix.path, fix.position, fix.anchor) /\ IsKey(fixed)
  BY FixProperties DEF Fix
<1> HIDE DEF i
<1>4. /\ without \in Seq(Layer) /\ Len(without) = Len(layers) - 1 /\ IsKey(without)
      /\ PathsOf(without) = PathsOf(layers) \ {fix.path}
  <2>1. without \in Seq(Layer) /\ Len(without) = Len(layers) - 1
    BY <1>1, <1>2, RemoveAtProperties
  <2>2. IsKey(without) /\ PathsOf(without) = PathsOf(layers) \ {layers[i].path}
    BY <1>2, RemoveIsDelete
  <2> QED
    BY <1>2, <2>1, <2>2
<1>5. u \in 1..Len(without) /\ without[u].path = fix.anchor
  <2>1. Len(without) \in Nat
    BY <1>1, <1>2, <1>4
  <2> HIDE DEF without
  <2>2. fix.anchor \in PathsOf(without)
    BY <1>2, <1>4
  <2> QED
    BY <1>4, <2>1, <2>2, FindKeyProperties
<1>6. fixed = InsertAt(without, place, layers[i])
  BY <1>2, <1>3, <1>5 DEF OrderingFix, i
<1> HIDE DEF without, u, fixed
<1>7. place \in 1..(Len(without) + 1) /\ Len(without) \in Nat /\ layers[i] \in Layer
  BY <1>1, <1>2, <1>4, <1>5
<1>8. /\ fixed \in Seq(Layer) /\ Len(fixed) = Len(without) + 1 /\ fixed[place] = layers[i]
      /\ \A j \in 1..(Len(without) + 1) :
           fixed[j] = IF j < place THEN without[j] ELSE IF j = place THEN layers[i] ELSE without[j - 1]
  <2> DEFINE layer == layers[i]
  <2>1. without \in Seq(Layer) /\ place \in 1..(Len(without) + 1) /\ layer \in Layer
    BY <1>4, <1>7
  <2>2. fixed = InsertAt(without, place, layer)
    BY <1>6
  <2> HIDE DEF place, layer
  <2>3. /\ fixed \in Seq(Layer) /\ Len(fixed) = Len(without) + 1 /\ fixed[place] = layer
        /\ \A j \in 1..(Len(without) + 1) :
             fixed[j] = IF j < place THEN without[j] ELSE IF j = place THEN layer ELSE without[j - 1]
    BY ONLY <2>1, <2>2, InsertAtProperties
  <2> QED
    BY <2>3 DEF layer
<1>9. DOMAIN fixed = 1..(Len(without) + 1)
  BY <1>8
<1>10. FindKey(fixed, fix.path) = place
  <2> HIDE DEF place
  <2>1. place \in DOMAIN fixed /\ fixed[place].path = fix.path
    BY <1>2, <1>7, <1>8, <1>9
  <2> QED
    BY <1>3, <2>1, FoundWhereItIs
<1> DEFINE at == IF fix.position = "Above" THEN u + 1 ELSE u
<1>11. FindKey(fixed, fix.anchor) = at
  <2>1. at \in DOMAIN fixed
    BY <1>5, <1>7, <1>9
  <2>2. fixed[at] = without[u]
    <3>1. CASE fix.position = "Above"
      <4>1. u + 1 \in 1..(Len(without) + 1) /\ ~(u + 1 < u) /\ u + 1 # u /\ (u + 1) - 1 = u
        BY <1>5, <1>7
      <4>2. place = u /\ at = u + 1
        BY <3>1
      <4> HIDE DEF place, at
      <4> QED
        BY <1>8, <4>1, <4>2
    <3>2. CASE fix.position # "Above"
      <4>1. u \in 1..(Len(without) + 1) /\ u < u + 1
        BY <1>5, <1>7
      <4>2. place = u + 1 /\ at = u
        BY <3>2
      <4> HIDE DEF place, at
      <4> QED
        BY <1>8, <4>1, <4>2
    <3> QED
      BY <3>1, <3>2
  <2> HIDE DEF at
  <2> QED
    BY <1>3, <1>5, <2>1, <2>2, FoundWhereItIs
<1>12. u \in Int
  BY <1>5
<1>13. ~(IF fix.position = "Above" THEN at <= place ELSE place <= at)
  BY <1>12
<1> HIDE DEF place, at
<1>14. ~Unfixed(fixed, fix)
  BY <1>10, <1>11, <1>13 DEF Unfixed
<1> QED
  BY <1>14 DEF fixed

\* So do the other fixes, each in its way.
LEMMA FixFixes ==
  ASSUME NEW layers, IsKey(layers), NEW fix \in Fixes,
         fix.kind = "ordering" => fix.path # fix.anchor, Unfixed(layers, fix)
  PROVE  ~Unfixed(Fix(layers, fix), fix)
<1> DEFINE i == FindKey(layers, fix.path)
<1> DEFINE fixed == Fix(layers, fix)
<1>1. layers \in Seq(Layer) /\ Len(layers) \in Nat /\ DOMAIN layers = 1..Len(layers)
  BY DEF IsKey
<1>2. i \in DOMAIN layers /\ i # 0 /\ layers[i].path = fix.path
  BY <1>1, FindKeyProperties DEF Unfixed
<1>3. IsKey(fixed) /\ fixed \in Seq(Layer)
  BY FixProperties DEF IsKey
<1> HIDE DEF i, fixed
<1>4. CASE fix.kind = "ordering"
  BY <1>4, OrderingFixFixes
<1>5. CASE fix.kind = "disable"
  <2>1. fixed = SetValue(layers, i, "Disabled")
    BY <1>2, <1>5 DEF Fix, DisableFix, i, fixed
  <2>2. fixed[i].path = fix.path /\ Len(fixed) = Len(layers)
    BY <1>2, <2>1, SetValueProperties DEF Values
  <2>3. fixed[i].value = "Disabled"
    <3>1. layers[i] \in Layer
      BY <1>1, <1>2
    <3> QED
      BY <1>1, <1>2, <2>1, <3>1 DEF SetValue, Layer
  <2>4. i \in DOMAIN fixed
    BY <1>1, <1>2, <1>3, <2>2
  <2>5. FindKey(fixed, fix.path) = i
    BY <1>3, <2>2, <2>4, FoundWhereItIs
  <2> QED
    BY <1>5, <2>3, <2>5 DEF Unfixed, fixed
<1>6. CASE fix.kind = "remove"
  <2>1. fixed = RemoveAt(layers, i)
    BY <1>2, <1>6 DEF Fix, RemoveFix, i, fixed
  <2>2. PathsOf(fixed) = PathsOf(layers) \ {fix.path}
    BY <1>2, <2>1, RemoveIsDelete
  <2>3. FindKey(fixed, fix.path) = 0
    BY <1>3, <2>2, FindKeyProperties
  <2> QED
    BY <2>3 DEF Unfixed, fixed
<1>7. CASE fix.kind = "last"
  <2>1. fixed = Swap(layers, i, Len(layers))
    BY <1>2, <1>7 DEF Fix, LastFix, i, fixed
  <2>2. Len(layers) \in DOMAIN layers
    BY <1>1, <1>2
  <2>3. Len(fixed) = Len(layers) /\ fixed[Len(layers)] = layers[i]
    BY <1>2, <2>1, <2>2, SwapProperties
  <2>4. FindKey(fixed, fix.path) = Len(fixed)
    BY <1>1, <1>2, <1>3, <2>2, <2>3, FoundWhereItIs
  <2> QED
    BY <1>7, <2>4 DEF Unfixed, fixed
<1> QED
  BY <1>4, <1>5, <1>6, <1>7 DEF Fixes

\* No fix enables a layer, or changes one that it leaves enabled.
LEMMA FixEnablesNothing ==
  ASSUME NEW layers, IsKey(layers), NEW fix \in Fixes
  PROVE  \A j \in DOMAIN Fix(layers, fix) :
           IsEnabled(Fix(layers, fix)[j]) =>
             \E k \in DOMAIN layers : Fix(layers, fix)[j] = layers[k]
<1> DEFINE i == FindKey(layers, fix.path)
<1> DEFINE fixed == Fix(layers, fix)
<1>1. layers \in Seq(Layer) /\ Len(layers) \in Nat /\ DOMAIN layers = 1..Len(layers)
  BY DEF IsKey
<1>2. i # 0 => i \in DOMAIN layers
  BY <1>1, FindKeyProperties
<1> HIDE DEF i
<1>3. CASE fixed = layers
  BY <1>3
<1>4. ASSUME fix.kind = "disable", i # 0
      PROVE  \A j \in DOMAIN fixed :
               IsEnabled(fixed[j]) => \E k \in DOMAIN layers : fixed[j] = layers[k]
  <2>1. fixed = SetValue(layers, i, "Disabled")
    BY <1>4 DEF Fix, DisableFix, i
  <2>2. DOMAIN fixed = DOMAIN layers
    BY <2>1 DEF SetValue
  <2>3. \A j \in DOMAIN layers \ {i} : fixed[j] = layers[j]
    BY <1>2, <1>4, <2>1, SetValueProperties DEF Values
  <2>4. fixed[i].value = "Disabled"
    <3>1. layers[i] \in Layer /\ i \in DOMAIN layers
      BY <1>1, <1>2, <1>4
    <3> QED
      BY <1>1, <2>1, <3>1 DEF SetValue, Layer
  <2> HIDE DEF fixed
  <2> QED
    BY <2>2, <2>3, <2>4 DEF IsEnabled
<1>5. ASSUME NEW k \in DOMAIN layers, NEW j \in DOMAIN RemoveAt(layers, k)
      PROVE  RemoveAt(layers, k) \in Seq(Layer) /\ \E l \in DOMAIN layers : RemoveAt(layers, k)[j] = layers[l]
  <2> DEFINE without == RemoveAt(layers, k)
  <2>1. /\ without \in Seq(Layer) /\ Len(without) = Len(layers) - 1
        /\ \A m \in 1..(Len(layers) - 1) : without[m] = IF m < k THEN layers[m] ELSE layers[m + 1]
    BY <1>1, RemoveAtProperties
  <2>2. j \in 1..(Len(layers) - 1)
    BY <1>1, <2>1
  <2> HIDE DEF without
  <2>3. j \in DOMAIN layers /\ j + 1 \in DOMAIN layers
    BY <1>1, <2>2
  <2> QED
    BY <2>1, <2>2, <2>3 DEF without
<1>6. ASSUME fix.kind = "remove", i # 0
      PROVE  \A j \in DOMAIN fixed : \E k \in DOMAIN layers : fixed[j] = layers[k]
  <2>1. fixed = RemoveAt(layers, i)
    BY <1>6 DEF Fix, RemoveFix, i
  <2> QED
    BY <1>2, <1>5, <1>6, <2>1
<1>7. ASSUME fix.kind = "last", i # 0
      PROVE  \A j \in DOMAIN fixed : \E k \in DOMAIN layers : fixed[j] = layers[k]
  <2>1. fixed = Swap(layers, i, Len(layers))
    BY <1>7 DEF Fix, LastFix, i
  <2>2. DOMAIN fixed = DOMAIN layers
    BY <2>1 DEF Swap
  <2>3. Len(layers) \in DOMAIN layers /\ i \in DOMAIN layers
    BY <1>1, <1>2, <1>7
  <2> DEFINE last == Len(layers)
  <2> HIDE DEF fixed, last
  <2>4. \A k \in DOMAIN layers : fixed[k]
          = IF k = last THEN layers[i] ELSE IF k = i THEN layers[last] ELSE layers[k]
    <3>1. last \in DOMAIN layers /\ fixed = Swap(layers, i, last)
      BY <2>1, <2>3 DEF last
    <3>2. \A k \in DOMAIN layers : Swap(layers, i, last)[k]
            = IF k = last THEN layers[i] ELSE IF k = i THEN layers[last] ELSE layers[k]
      <4>1. IsKey(layers) /\ i \in DOMAIN layers /\ last \in DOMAIN layers
        BY <2>3, <3>1
      <4> QED
        BY ONLY <4>1, SwapProperties, Zenon
    <3> QED
      BY ONLY <3>1, <3>2
  <2> QED
    BY <2>2, <2>3, <2>4 DEF last
<1>8. ASSUME NEW k \in DOMAIN layers, NEW place \in DOMAIN layers, fixed = Moved(layers, k, place),
             NEW j \in DOMAIN fixed
      PROVE  \E l \in DOMAIN layers : fixed[j] = layers[l]
  <2> DEFINE without == RemoveAt(layers, k)
  <2> DEFINE layer == layers[k]
  <2>1. without \in Seq(Layer) /\ Len(without) = Len(layers) - 1
    BY <1>1, RemoveAtProperties
  <2>2. layer \in Layer /\ place \in 1..(Len(without) + 1) /\ Len(without) \in Nat
    BY <1>1, <2>1
  <2>3. fixed = InsertAt(without, place, layer)
    BY <1>8 DEF Moved
  <2> HIDE DEF without, layer, fixed
  <2>4. /\ fixed \in Seq(Layer) /\ Len(fixed) = Len(without) + 1 /\ fixed[place] = layer
        /\ \A m \in 1..(Len(without) + 1) :
             fixed[m] = IF m < place THEN without[m] ELSE IF m = place THEN layer ELSE without[m - 1]
    <3>1. without \in Seq(Layer) /\ place \in 1..(Len(without) + 1)
      BY <2>1, <2>2
    <3>2. layer \in Layer
      BY <2>2
    <3> QED
      BY ONLY <2>3, <3>1, <3>2, InsertAtProperties
  <2>5. j \in 1..(Len(without) + 1)
    BY <1>8, <2>2, <2>4
  <2>6. \/ fixed[j] = layer
        \/ \E m \in DOMAIN without : fixed[j] = without[m]
    <3>1. DOMAIN without = 1..Len(without)
      BY <2>1
    <3>2. j < place => j \in DOMAIN without
      BY <2>2, <2>5, <3>1
    <3>3. j > place => j - 1 \in DOMAIN without /\ ~(j < place) /\ j # place
      BY <2>2, <2>5, <3>1
    <3>4. j < place \/ j = place \/ j > place
      BY <2>2, <2>5
    <3> QED
      BY <2>2, <2>4, <2>5, <3>2, <3>3, <3>4
  <2> QED
    BY <1>5, <2>6 DEF without, layer
<1>9. ASSUME fix.kind = "ordering"
      PROVE  \A j \in DOMAIN fixed :
               IsEnabled(fixed[j]) => \E k \in DOMAIN layers : fixed[j] = layers[k]
  <2>1. fixed = OrderingFix(layers, fix.path, fix.position, fix.anchor)
    BY <1>9 DEF Fix
  <2>2. fixed = layers \/ \E k, place \in DOMAIN layers : fixed = Moved(layers, k, place)
    BY <2>1, OrderingFixMoves
  <2> HIDE DEF fixed
  <2> QED
    BY <1>3, <1>8, <2>2
<1>10. i = 0 /\ fix.kind # "ordering" => fixed = layers
  BY DEF Fix, DisableFix, RemoveFix, LastFix, Fixes, i
<1> HIDE DEF fixed
<1>11. fix.kind \in {"ordering", "disable", "remove", "last"}
  BY DEF Fixes
<1>12. \A j \in DOMAIN fixed :
         IsEnabled(fixed[j]) => \E k \in DOMAIN layers : fixed[j] = layers[k]
  BY <1>3, <1>4, <1>6, <1>7, <1>9, <1>10, <1>11
<1> QED
  BY <1>12 DEF fixed

\* An error is about what its fix is there to change, as long as there are no copies.
LEMMA ErrorsAreUnfixed ==
  LintersInv /\ ~Copies =>
    \A error \in Errors : error.fix # <<>> => Unfixed(mLayers, error.fix[1])
<1> SUFFICES ASSUME LintersInv, ~Copies, NEW error \in Errors, error.fix # <<>>
             PROVE  Unfixed(mLayers, error.fix[1])
  OBVIOUS
<1> DEFINE fix == error.fix[1]
<1>1. \A i \in DOMAIN mLayers : FindKey(mLayers, mLayers[i].path) = i
  BY FoundWhereItIs DEF LintersInv
<1>2. Len(mLayers) \in Nat /\ DOMAIN mLayers = 1..Len(mLayers)
  BY DEF LintersInv, IsKey
<1>3. CASE IsSimple(error)
  <2>1. PICK i \in DOMAIN mLayers, kind \in {"none", "disable", "remove"} :
          /\ error.fix = FixOf(kind, mLayers[i])
          /\ kind = "disable" => mLayers[i].value # "Disabled"
    BY <1>3 DEF IsSimple
  <2>2. kind # "none" /\ fix = [kind |-> kind, path |-> mLayers[i].path]
    BY <2>1 DEF FixOf
  <2> HIDE DEF fix
  <2>3. fix.kind = kind /\ fix.path = mLayers[i].path
    BY <2>2
  <2>4. FindKey(mLayers, fix.path) = i /\ i # 0
    BY <1>1, <1>2, <2>3
  <2>5. Unfixed(mLayers, fix)
    BY <2>1, <2>2, <2>3, <2>4 DEF Unfixed
  <2> QED
    BY <2>5 DEF fix
<1>4. CASE IsLast(error)
  <2>1. PICK i \in DOMAIN mLayers, j \in DOMAIN mLayers :
          i < j /\ error.fix = <<[kind |-> "last", path |-> mLayers[i].path]>>
    BY <1>4 DEF IsLast
  <2>2. fix.kind = "last" /\ fix.path = mLayers[i].path
    BY <2>1
  <2> HIDE DEF fix
  <2>3. FindKey(mLayers, fix.path) = i /\ i # 0 /\ i # Len(mLayers)
    BY <1>1, <1>2, <2>1, <2>2
  <2>4. Unfixed(mLayers, fix)
    BY <2>2, <2>3 DEF Unfixed
  <2> QED
    BY <2>4 DEF fix
<1>5. CASE IsOrdering(error)
  <2> DEFINE Found(position, j, k, other) ==
        /\ other \in Names /\ j = layerIndices[other] + 1
        /\ position = "Above" => ~(layerIndices[other] > layerIndices[Name(checked[k])])
        /\ position = "Below" => ~(layerIndices[other] < layerIndices[Name(checked[k])])
        /\ error = Error("Ordering", {checked[k].path, checked[j].path},
                         <<[kind |-> "ordering", path |-> checked[k].path,
                            position |-> position, anchor |-> checked[j].path]>>)
  <2>0. PICK position \in {"Above", "Below"}, j \in DOMAIN checked, k \in DOMAIN checked :
          \E other \in Expanded(checked[k], FieldOf(position)) : Found(position, j, k, other)
    BY <1>5 DEF IsOrdering
  <2>1. PICK other \in Expanded(checked[k], FieldOf(position)) : Found(position, j, k, other)
    BY <2>0
  <2>2. /\ fix.kind = "ordering" /\ fix.path = checked[k].path
        /\ fix.anchor = checked[j].path /\ fix.position = position
    BY <2>1 DEF Error
  <2> HIDE DEF fix
  <2>3. layerIndices[Name(checked[k])] = k - 1 /\ layerIndices[other] = j - 1 /\ j \in Int /\ k \in Int
    <3>1. PICK i \in DOMAIN checked : other = Name(checked[i])
      BY <2>1 DEF Names
    <3>2. layerIndices[other] = i - 1 /\ i \in Int /\ k \in Int
      BY <3>1, IndicesArePlaces, CheckedProperties
    <3>3. layerIndices[other] = j - 1 /\ j \in Int
      BY <2>1, <3>2
    <3> QED
      BY <3>2, <3>3, IndicesArePlaces
  <2>4. IF position = "Above" THEN j <= k ELSE k <= j
    BY <2>1, <2>3
  <2>5. /\ PlaceOf(j) \in DOMAIN mLayers /\ checked[j] = mLayers[PlaceOf(j)]
        /\ PlaceOf(k) \in DOMAIN mLayers /\ checked[k] = mLayers[PlaceOf(k)]
    BY CheckedProperties DEF CheckedPlaces
  <2>6. PlaceOf(j) \in Int /\ PlaceOf(k) \in Int /\ PlaceOf(j) # 0 /\ PlaceOf(k) # 0
    BY <1>2, <2>5
  <2>7. IF position = "Above" THEN PlaceOf(j) <= PlaceOf(k) ELSE PlaceOf(k) <= PlaceOf(j)
    <3>1. (j < k => PlaceOf(j) < PlaceOf(k)) /\ (k < j => PlaceOf(k) < PlaceOf(j))
      BY CheckedProperties
    <3> QED
      BY ONLY <2>3, <2>4, <2>6, <3>1
  <2>8. FindKey(mLayers, fix.path) = PlaceOf(k) /\ FindKey(mLayers, fix.anchor) = PlaceOf(j)
    BY <1>1, <2>2, <2>5
  <2>9. Unfixed(mLayers, fix)
    BY <2>2, <2>6, <2>7, <2>8 DEF Unfixed
  <2> QED
    BY <2>9 DEF fix
<1>6. ~IsWarning(error)
  BY DEF IsWarning
<1> QED
  BY <1>3, <1>4, <1>5, <1>6, ErrorKinds

\* Copies of a layer that are enabled were so before, if nothing was enabled.
LEMMA CopiesWereThere ==
  LintersInv /\ LintersInv' /\ UNCHANGED world /\ Copies'
    /\ (\A i \in DOMAIN mLayers' : IsEnabled(mLayers'[i]) =>
          \E k \in DOMAIN mLayers : mLayers'[i] = mLayers[k])
  => Copies
<1> SUFFICES ASSUME LintersInv, LintersInv', world' = world, Copies',
                    \A i \in DOMAIN mLayers' : IsEnabled(mLayers'[i]) =>
                      \E k \in DOMAIN mLayers : mLayers'[i] = mLayers[k]
             PROVE  Copies
  BY DEF Copies
<1>1. /\ \A k \in DOMAIN checked' :
           PlaceOf(k)' \in CheckedPlaces' /\ checked'[k] = mLayers'[PlaceOf(k)']
      /\ \A j, k \in DOMAIN checked' : checked'[j].path = checked'[k].path => j = k
  <2>1. (LintersInv =>
           /\ Len(mLayers) \in Nat /\ DOMAIN mLayers = 1..Len(mLayers)
           /\ Len(checked) \in Nat /\ DOMAIN checked = 1..Len(checked)
           /\ \A k \in DOMAIN checked :
                PlaceOf(k) \in CheckedPlaces /\ checked[k] = mLayers[PlaceOf(k)]
           /\ \A j, k \in DOMAIN checked : j < k => PlaceOf(j) < PlaceOf(k)
           /\ \A i \in CheckedPlaces : \E k \in DOMAIN checked : PlaceOf(k) = i)'
    BY CheckedProperties, PTL
  <2>2. (LintersInv =>
           /\ \A k \in DOMAIN checked : checked[k].path \in PathsOf(mLayers)
           /\ \A j, k \in DOMAIN checked : checked[j].path = checked[k].path => j = k)'
    BY CheckedAreDistinct, PTL
  <2> QED
    BY <2>1, <2>2
<1>2. ASSUME NEW k \in DOMAIN checked'
      PROVE  \E l \in DOMAIN checked : checked[l] = checked'[k]
  <2> DEFINE i == PlaceOf(k)'
  <2>1. /\ i \in DOMAIN mLayers' /\ checked'[k] = mLayers'[i]
        /\ IsEnabled(mLayers'[i]) /\ world'.details[mLayers'[i].path].state = "Loaded"
    BY <1>1 DEF CheckedPlaces, IsLoaded, Details
  <2>2. PICK j \in DOMAIN mLayers : mLayers'[i] = mLayers[j]
    BY <2>1
  <2>3. j \in CheckedPlaces
    BY <2>1, <2>2 DEF CheckedPlaces, IsLoaded, Details
  <2>4. PICK l \in DOMAIN checked : PlaceOf(l) = j
    BY <2>3, CheckedProperties
  <2> QED
    BY <2>1, <2>2, <2>4, CheckedProperties
<1>3. PICK i \in DOMAIN checked', j \in DOMAIN checked' :
        i # j /\ world'.details[checked'[i].path].name = world'.details[checked'[j].path].name
  BY DEF Copies, Name, Details
<1>4. PICK k \in DOMAIN checked, l \in DOMAIN checked :
        checked[k] = checked'[i] /\ checked[l] = checked'[j]
  BY <1>2
<1>5. k # l
  BY <1>1, <1>3, <1>4
<1> QED
  BY <1>3, <1>4, <1>5 DEF Copies, Name, Details

LEMMA OneFixed ==
  \A error : AllFixed(<<error>>) = Reloaded(Fix(mLayers, error.fix[1]))
<1> TAKE error
<1> DEFINE fix == error.fix[1]
<1> DEFINE fixes == <<fix>>
<1>1. Len(fixes) = 1 /\ fixes[1] = fix
  OBVIOUS
<1>2. [i \in DOMAIN <<error>> |-> <<error>>[i].fix[1]] = fixes
  OBVIOUS
<1> HIDE DEF fix, fixes
<1>3. PICK fixed : /\ fixed[0] = mLayers
                   /\ \A n \in 1..Len(fixes) : fixed[n] = Fix(fixed[n - 1], fixes[n])
                   /\ FixThem(mLayers, fixes) = fixed[Len(fixes)]
  <2>1. Len(fixes) \in Nat
    BY <1>1
  <2> QED
    BY ONLY <2>1, FixThemSteps
<1>4. FixThem(mLayers, fixes) = Fix(mLayers, fix)
  <2>1. 1 \in 1..Len(fixes) /\ 1 - 1 = 0
    BY <1>1
  <2> QED
    BY <1>1, <1>3, <2>1
<1> QED
  BY <1>2, <1>4 DEF AllFixed, fix

\* A fix that moves a layer next to another is of an error about the two.
LEMMA FixesOfErrors ==
  LintersInv =>
    \A error \in Errors : error.fix # <<>> =>
      LET fix == error.fix[1]
      IN  /\ fix \in Fixes
          /\ fix.kind = "ordering" =>
               error.linter = "Ordering" /\ error.affected = {fix.path, fix.anchor}
<1> SUFFICES ASSUME LintersInv, NEW error \in Errors, error.fix # <<>>
             PROVE  /\ error.fix[1] \in Fixes
                    /\ error.fix[1].kind = "ordering" =>
                         /\ error.linter = "Ordering"
                         /\ error.affected = {error.fix[1].path, error.fix[1].anchor}
  OBVIOUS
<1>1. error.fix[1] \in Fixes
  BY ErrorsAreSound DEF IsSound
<1>2. CASE IsOrdering(error)
  <2>1. PICK position, j, k :
          error = Error("Ordering", {checked[k].path, checked[j].path},
                        <<[kind |-> "ordering", path |-> checked[k].path,
                           position |-> position, anchor |-> checked[j].path]>>)
    BY <1>2 DEF IsOrdering
  <2> QED
    BY <1>1, <2>1 DEF Error
<1>3. CASE IsSimple(error)
  <2>1. PICK i \in DOMAIN mLayers, kind \in {"none", "disable", "remove"} :
          error.fix = FixOf(kind, mLayers[i])
    BY <1>3 DEF IsSimple
  <2>2. error.fix[1].kind = kind /\ kind # "none"
    BY <2>1 DEF FixOf
  <2> QED
    BY <1>1, <2>2
<1>4. CASE IsLast(error)
  <2>1. PICK i \in DOMAIN mLayers : error.fix = <<[kind |-> "last", path |-> mLayers[i].path]>>
    BY <1>4 DEF IsLast
  <2> QED
    BY <1>1, <2>1
<1> QED
  BY <1>2, <1>3, <1>4, ErrorKinds DEF IsWarning

\* A fix fixes its error, or there is nothing that it can do.
LEMMA FixedOrStuck ==
  LintersInv /\ ~Copies =>
    \A error \in Errors : error.fix # <<>> =>
      LET fix == error.fix[1]
          fixed == Fix(mLayers, fix)
      IN  /\ fix.kind = "ordering" /\ fix.path = fix.anchor => fixed = mLayers
          /\ ~(fix.kind = "ordering" /\ fix.path = fix.anchor) =>
               /\ Unfixed(mLayers, fix)
               /\ ~Unfixed(fixed, fix) /\ ~Unfixed(Written(fixed), fix)
<1> SUFFICES ASSUME LintersInv, ~Copies, NEW error \in Errors, error.fix # <<>>
             PROVE  LET fix == error.fix[1]
                        fixed == Fix(mLayers, fix)
                    IN  /\ fix.kind = "ordering" /\ fix.path = fix.anchor => fixed = mLayers
                        /\ ~(fix.kind = "ordering" /\ fix.path = fix.anchor) =>
                             /\ Unfixed(mLayers, fix)
                             /\ ~Unfixed(fixed, fix) /\ ~Unfixed(Written(fixed), fix)
  OBVIOUS
<1> DEFINE fix == error.fix[1]
<1> DEFINE fixed == Fix(mLayers, fix)
<1>1. fix \in Fixes /\ Unfixed(mLayers, fix) /\ IsKey(mLayers)
  BY FixesOfErrors, ErrorsAreUnfixed DEF LintersInv
<1> HIDE DEF fix
<1>2. CASE fix.kind = "ordering" /\ fix.path = fix.anchor
  <2> DEFINE i == FindKey(mLayers, fix.path)
  <2> DEFINE without == RemoveAt(mLayers, i)
  <2>1. mLayers \in Seq(Layer) /\ Len(mLayers) \in Nat /\ DOMAIN mLayers = 1..Len(mLayers)
    BY <1>1 DEF IsKey
  <2>2. i \in 0..Len(mLayers) /\ i # 0 /\ mLayers[i].path = fix.path
    BY <1>1, <2>1, FindKeyProperties DEF Unfixed
  <2>3. i \in DOMAIN mLayers
    BY <2>1, <2>2
  <2> HIDE DEF i
  <2>4. IsKey(without) /\ PathsOf(without) = PathsOf(mLayers) \ {fix.path}
    BY <1>1, <2>2, <2>3, RemoveIsDelete
  <2> HIDE DEF without
  <2>5. FindKey(without, fix.anchor) = 0
    BY <1>2, <2>4, FindKeyProperties DEF IsKey
  <2>6. fixed = OrderingFix(mLayers, fix.path, fix.position, fix.anchor)
    BY <1>2 DEF Fix
  <2> HIDE DEF fixed
  <2>7. fixed = mLayers
    BY <2>5, <2>6 DEF OrderingFix, without, i
  <2> QED
    BY <1>2, <2>7 DEF fix, fixed
<1>3. CASE ~(fix.kind = "ordering" /\ fix.path = fix.anchor)
  <2>1. ~Unfixed(fixed, fix) /\ IsKey(fixed)
    BY <1>1, <1>3, FixFixes, FixProperties
  <2> HIDE DEF fixed
  <2>2. ~Unfixed(Written(fixed), fix)
    BY <1>1, <2>1, WrittenFixed
  <2> QED
    BY <1>1, <1>3, <2>1, <2>2 DEF fix, fixed
<1> QED
  BY <1>2, <1>3

\* Fix It! fixes.  Unless there are copies of a layer, it changes the list, and what
\* was clicked for is no longer so: the layer is gone, disabled, last, or on the right
\* side of the other one, which no linter reports again.
THEOREM FixItAlwaysFixes ==
  Spec => FixItFixes
<1>1. LintersInv =>
        \A error \in Errors :
          (/\ ~Copies
           /\ error.fix # <<>>
           /\ error.linter = "Ordering" => Cardinality(error.affected) = 2)
            => AllFixed(<<error>>) # mLayers
  <2> SUFFICES ASSUME LintersInv, NEW error \in Errors, ~Copies, error.fix # <<>>,
                      error.linter = "Ordering" => Cardinality(error.affected) = 2,
                      AllFixed(<<error>>) = mLayers
               PROVE  FALSE
    OBVIOUS
  <2> DEFINE fix == error.fix[1]
  <2> DEFINE fixed == Fix(mLayers, fix)
  <2>1. ~(fix.kind = "ordering" /\ fix.path = fix.anchor)
    <3> SUFFICES ASSUME fix.kind = "ordering", fix.path = fix.anchor PROVE FALSE
      OBVIOUS
    <3>1. error.linter = "Ordering" /\ error.affected = {fix.path}
      BY FixesOfErrors
    <3>2. Cardinality({fix.path}) = 1
      BY FS_Singleton
    <3> QED
      BY <3>1, <3>2
  <2>2. Unfixed(mLayers, fix) /\ ~Unfixed(fixed, fix) /\ ~Unfixed(Written(fixed), fix)
    BY <2>1, FixedOrStuck
  <2>3. mLayers = fixed \/ mLayers = Written(fixed)
    BY OneFixed DEF Reloaded
  <2> HIDE DEF fix, fixed
  <2> QED
    BY <2>2, <2>3
<1>2. (LintersInv /\ ~Copies =>
         \A error \in Errors : error.fix # <<>> => Unfixed(mLayers, error.fix[1]))'
  BY ErrorsAreUnfixed, PTL
<1>3. LintersInv /\ LintersInv' /\ [Next]_vars =>
        [\A error \in Errors \cap Errors' : FixItClicked(error) => Copies]_vars
  <2> SUFFICES ASSUME LintersInv, LintersInv', NEW error \in Errors \cap Errors',
                      FixItClicked(error), ~Copies, ~UNCHANGED vars
               PROVE  FALSE
    OBVIOUS
  <2> DEFINE fix == error.fix[1]
  <2> DEFINE fixed == Fix(mLayers, fix)
  <2>1. error.fix # <<>> /\ mLayers' = AllFixed(<<error>>) /\ world' = world
    BY DEF FixItClicked
  <2>2. mLayers' # mLayers
    BY <2>1 DEF vars
  <2>3. mLayers' = Written(fixed) /\ fixed # mLayers
    BY <2>1, <2>2, OneFixed DEF Reloaded
  <2>4. ~Unfixed(Written(fixed), fix) /\ fix \in Fixes
    BY <2>1, <2>3, FixedOrStuck, FixesOfErrors
  <2>5. ~Copies'
    <3> HIDE DEF fix
    <3>1. IsKey(mLayers) /\ IsKey(fixed)
      BY <2>4, FixProperties DEF LintersInv
    <3>2. \A j \in DOMAIN fixed :
            IsEnabled(fixed[j]) => \E k \in DOMAIN mLayers : fixed[j] = mLayers[k]
      BY <2>4, <3>1, FixEnablesNothing
    <3> HIDE DEF fixed
    <3>3. ASSUME NEW j \in DOMAIN mLayers', IsEnabled(mLayers'[j])
          PROVE  \E k \in DOMAIN mLayers : mLayers'[j] = mLayers[k]
      <4>1. fixed \in Seq(Layer) /\ Len(fixed) \in Nat /\ DOMAIN fixed = 1..Len(fixed)
        BY <3>1 DEF IsKey
      <4>2. /\ Written(fixed) \in Seq(Layer) /\ Len(Written(fixed)) = Len(fixed)
            /\ \A k \in DOMAIN fixed :
                 /\ Written(fixed)[k].path = fixed[k].path
                 /\ Written(fixed)[k].value
                      = IF IsEnabled(fixed[k]) THEN "Enabled" ELSE "Disabled"
        BY <4>1, WrittenProperties
      <4>3. j \in DOMAIN fixed
        BY <2>3, <4>1, <4>2
      <4>4. IsEnabled(fixed[j])
        BY <2>3, <3>3, <4>2, <4>3 DEF IsEnabled
      <4>5. mLayers'[j] = fixed[j]
        <5>1. /\ mLayers'[j] \in Layer /\ fixed[j] \in Layer
              /\ mLayers'[j].path = fixed[j].path /\ mLayers'[j].value = fixed[j].value
          BY <2>3, <4>1, <4>2, <4>3, <4>4 DEF IsEnabled
        <5> QED
          BY <5>1 DEF Layer
      <4> QED
        BY <3>2, <4>3, <4>4, <4>5
    <3> QED
      BY <2>1, <3>3, CopiesWereThere
  <2>6. Unfixed(mLayers', fix)
    BY <1>2, <2>1, <2>5
  <2> HIDE DEF fix, fixed
  <2> QED
    BY <2>3, <2>4, <2>6
<1> QED
  BY <1>1, <1>3, LintersInvariant, PTL DEF Spec, FixItFixes
=============================================================================
