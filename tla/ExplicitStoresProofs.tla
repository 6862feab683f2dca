------------------------- MODULE ExplicitStoresProofs -------------------------
(***************************************************************************)
(* Proofs about ExplicitStores: for any manifests, registry keys,          *)
(* directories and XR_ENABLE_API_LAYERS, and any changes of them while the *)
(* program runs.                                                           *)
(***************************************************************************)
EXTENDS ExplicitStores, TLAPS, WellFoundedInduction, SequenceTheorems

-----------------------------------------------------------------------------
(* The layers of the stores.                                               *)

\* What others write is what keys, manifests and the variable may hold.
EnvironmentInv ==
  /\ files \in [Paths -> Manifests]
  /\ key \in [ToSet(RegistryStores) -> Keys]

\* A bounded set of numbers that is not empty has a greatest one.
LEMMA MaxOfBounded ==
  ASSUME NEW N \in Nat, NEW S \in SUBSET (1..N), S # {}
  PROVE  Max(S) \in S
<1> DEFINE R == OpToRel(<, Nat)
<1> DEFINE T == {n \in Nat : N - n \in S}
<1>1. IsWellFoundedOn(R, Nat)
  BY NatLessThanWellFounded
<1>2. \A m, n \in Nat : m < n => <<m, n>> \in R
  BY DEF OpToRel
<1> HIDE DEF R
<1>3. T # {} /\ T \in SUBSET Nat
  <2>1. PICK x \in S : TRUE
    OBVIOUS
  <2>2. x \in 1..N /\ N - x \in Nat /\ N - (N - x) = x
    OBVIOUS
  <2> QED
    BY <2>1, <2>2
<1>4. PICK t \in T : \A u \in T : ~(<<u, t>> \in R)
  BY <1>1, <1>3, WFMin
<1>5. ASSUME NEW y \in S
      PROVE  N - t >= y
  <2>1. y \in 1..N /\ N - y \in Nat /\ N - (N - y) = y
    OBVIOUS
  <2>2. ~(N - y < t)
    BY <1>2, <1>4, <2>1
  <2> QED
    BY <1>4, <2>1, <2>2
<1> QED
  BY <1>4, <1>5 DEF Max

LEMMA BackingStoresAre ==
  /\ Len(backingStores) \in Nat /\ DOMAIN backingStores = 1..Len(backingStores)
  /\ Len(backingStores) >= 1 /\ backingStores[1] = sOverridePaths
  /\ ToSet(backingStores) = {sOverridePaths} \cup ToSet(RegistryStores)
  /\ sEnabledExplicit \notin ToSet(backingStores)
  /\ sOverridePaths \notin ToSet(RegistryStores)
<1>1. RegistryStores \in Seq(STRING \ {sEnabledExplicit, sOverridePaths})
  BY ExplicitStoresAssumption
<1>2. /\ Len(backingStores) = Len(RegistryStores) + 1
      /\ Len(RegistryStores) \in Nat /\ DOMAIN RegistryStores = 1..Len(RegistryStores)
      /\ DOMAIN backingStores = 1..Len(backingStores)
      /\ backingStores[1] = sOverridePaths
      /\ \A i \in 2..Len(backingStores) : backingStores[i] = RegistryStores[i - 1]
  <2> DEFINE S == STRING \cup {sOverridePaths}
  <2> DEFINE first == <<sOverridePaths>>
  <2>1. RegistryStores \in Seq(S)
    BY <1>1, SeqMonotonic, STRING \ {sEnabledExplicit, sOverridePaths} \subseteq S
  <2>2. first \in Seq(S) /\ Len(first) = 1 /\ first[1] = sOverridePaths
    OBVIOUS
  <2>3. backingStores = first \o RegistryStores
    BY DEF backingStores
  <2> HIDE DEF first, S
  <2>4. Len(RegistryStores) \in Nat /\ DOMAIN RegistryStores = 1..Len(RegistryStores)
    BY <2>1, LenProperties
  <2>5. /\ first \o RegistryStores \in Seq(S)
        /\ Len(first \o RegistryStores) = Len(first) + Len(RegistryStores)
        /\ \A i \in 1..Len(first) + Len(RegistryStores) : (first \o RegistryStores)[i] =
             IF i <= Len(first) THEN first[i] ELSE RegistryStores[i - Len(first)]
    BY <2>1, <2>2, ConcatProperties
  <2>6. DOMAIN backingStores = 1..Len(backingStores)
    BY <2>3, <2>5, LenProperties
  <2> QED
    BY ONLY <2>2, <2>3, <2>4, <2>5, <2>6
<1>3. ToSet(backingStores) = {sOverridePaths} \cup ToSet(RegistryStores)
  <2>1. ASSUME NEW s \in ToSet(backingStores)
        PROVE  s \in {sOverridePaths} \cup ToSet(RegistryStores)
    <3>1. PICK i \in 1..Len(backingStores) : s = backingStores[i]
      BY <1>2 DEF ToSet
    <3>2. i = 1 \/ (i \in 2..Len(backingStores) /\ i - 1 \in DOMAIN RegistryStores)
      BY <1>2
    <3> QED
      BY <1>2, <3>1, <3>2 DEF ToSet
  <2>2. sOverridePaths \in ToSet(backingStores)
    BY <1>1, <1>2 DEF ToSet
  <2>3. ASSUME NEW s \in ToSet(RegistryStores)
        PROVE  s \in ToSet(backingStores)
    <3>1. PICK i \in DOMAIN RegistryStores : s = RegistryStores[i]
      BY DEF ToSet
    <3>2. i + 1 \in 2..Len(backingStores) /\ i + 1 \in DOMAIN backingStores
      BY <1>1, <1>2
    <3>3. (i + 1) - 1 = i
      BY <1>2
    <3> QED
      BY <1>2, <3>1, <3>2, <3>3 DEF ToSet
  <2> QED
    BY <2>1, <2>2, <2>3
<1>4. {sEnabledExplicit, sOverridePaths} \cap ToSet(RegistryStores) = {}
  BY <1>1 DEF ToSet
<1> QED
  BY <1>1, <1>2, <1>3, <1>4 DEF sEnabledExplicit, sOverridePaths

\* What each layer of a store is like, and that there are finitely many places.
LEMMA RegistryLayersTyped ==
  ASSUME EnvironmentInv, NEW store \in ToSet(RegistryStores)
  PROVE  /\ DOMAIN RegistryLayers(store) = 1..Len(key[store])
         /\ Len(key[store]) \in Nat
         /\ \A i \in DOMAIN RegistryLayers(store) :
              /\ RegistryLayers(store)[i].path \in Paths
              /\ RegistryLayers(store)[i].value \in {"Enabled", "Disabled", "NotDWORD"}
              /\ RegistryLayers(store)[i].architectures \subseteq Architectures
<1>1. key[store] \in Seq([path : Paths, value : {"Enabled", "Disabled", "NotDWORD"}])
  BY ExplicitStoresAssumption DEF EnvironmentInv
<1>2. Bitness[store] \in Architectures
  BY ExplicitStoresAssumption DEF Architectures
<1>3. ASSUME NEW i \in DOMAIN key[store]
      PROVE  /\ key[store][i].path \in Paths
             /\ key[store][i].value \in {"Enabled", "Disabled", "NotDWORD"}
  <2> DEFINE list == key[store]
  <2> DEFINE Entries == [path : Paths, value : {"Enabled", "Disabled", "NotDWORD"}]
  <2>1. list[i] \in Entries
    <3>1. list \in Seq(Entries) /\ i \in DOMAIN list
      BY <1>1
    <3> HIDE DEF list, Entries
    <3> QED
      BY <3>1
  <2> QED
    BY <2>1
<1> QED
  BY <1>1, <1>2, <1>3 DEF RegistryLayers, APILayer

LEMMA OverrideLayersTyped ==
  /\ DOMAIN OverrideLayers \subseteq 1..Len(OverridePaths)
  /\ Len(OverridePaths) \in Nat
  /\ \A i \in DOMAIN OverrideLayers :
       /\ OverrideLayers[i].path \in Paths
       /\ OverrideLayers[i].value \in {"Enabled", "Disabled"}
       /\ OverrideLayers[i].architectures \subseteq Architectures
<1>1. OverridePaths \in Seq(Paths)
  BY ExplicitStoresAssumption
<1>2. /\ DOMAIN OverrideFiles \subseteq DOMAIN OverridePaths
      /\ \A i \in DOMAIN OverrideFiles : OverrideFiles[i] \in Paths
  BY <1>1 DEF OverrideFiles, Restrict
<1> QED
  BY <1>1, <1>2 DEF OverrideLayers, APILayer, GetSharedLibraryArchitectures

LEMMA BackingLayersTyped ==
  ASSUME EnvironmentInv, NEW store \in ToSet(backingStores)
  PROVE  /\ \E N \in Nat : DOMAIN BackingLayers(store) \subseteq 1..N
         /\ \A i \in DOMAIN BackingLayers(store) :
              /\ BackingLayers(store)[i].path \in Paths
              /\ BackingLayers(store)[i].value \in ValuesOf(store)
              /\ BackingLayers(store)[i].architectures \subseteq Architectures
<1>1. CASE store = sOverridePaths
  BY <1>1, OverrideLayersTyped DEF BackingLayers, ValuesOf, sOverridePaths, sEnabledExplicit
<1>2. CASE store \in ToSet(RegistryStores)
  <2>1. store # sOverridePaths /\ store # sEnabledExplicit
    BY <1>2, BackingStoresAre
  <2> QED
    BY <1>2, <2>1, RegistryLayersTyped DEF BackingLayers, ValuesOf
<1> QED
  BY <1>1, <1>2, BackingStoresAre

LEMMA PlacesAre ==
  \A place \in installedLayers :
    /\ place[1] \in DOMAIN backingStores
    /\ place[2] \in DOMAIN BackingLayers(backingStores[place[1]])
    /\ place = <<place[1], place[2]>>
    /\ backingStores[place[1]] \in ToSet(backingStores)
  BY DEF installedLayers, ToSet

LEMMA AtTyped ==
  ASSUME EnvironmentInv, NEW place \in installedLayers
  PROVE  At(place).path \in Paths /\ At(place).architectures \subseteq Architectures
  BY PlacesAre, BackingLayersTyped DEF At

\* The last of some places is one of them.
LEMMA LastOfIsOne ==
  ASSUME EnvironmentInv, NEW places \in SUBSET installedLayers, places # {}
  PROVE  LastOf(places) \in places
<1> DEFINE stores == {place[1] : place \in places}
<1> DEFINE n == Max(stores)
<1> DEFINE inStore == {place[2] : place \in {q \in places : q[1] = n}}
<1>1. n \in stores
  <2>1. stores \in SUBSET (1..Len(backingStores)) /\ stores # {}
    BY PlacesAre, BackingStoresAre
  <2>2. Len(backingStores) \in Nat
    BY BackingStoresAre
  <2> HIDE DEF stores
  <2> QED
    BY <2>1, <2>2, MaxOfBounded
<1> HIDE DEF n
<1>2. PICK first \in places : first[1] = n
  BY <1>1
<1>3. PICK N \in Nat : DOMAIN BackingLayers(backingStores[n]) \subseteq 1..N
  BY <1>2, PlacesAre, BackingLayersTyped
<1>4. inStore \in SUBSET (1..N) /\ inStore # {}
  BY <1>2, <1>3, PlacesAre
<1>5. Max(inStore) \in inStore
  <2> HIDE DEF inStore
  <2> QED
    BY <1>4, MaxOfBounded
<1>6. PICK last \in places : last[1] = n /\ last[2] = Max(inStore)
  BY <1>5
<1>7. LastOf(places) = <<n, Max(inStore)>>
  BY DEF LastOf, n
<1> QED
  BY <1>6, <1>7, PlacesAre

\* An entry of XR_ENABLE_API_LAYERS: absent if no enabled layer has its name, and else
\* with the path of one that has and the architectures of all.
EnabledMatches(name) == {place \in Matching(name) : At(place).value = "Enabled"}

LEMMA EntriesAre ==
  ASSUME EnvironmentInv, NEW i \in DOMAIN enabledNames
  PROVE  /\ DOMAIN EnabledLayers = DOMAIN enabledNames
         /\ EnabledLayers[i].key = enabledNames[i]
         /\ EnabledMatches(enabledNames[i]) = {} =>
              /\ EnabledLayers[i].value = "EnabledButAbsent"
              /\ EnabledLayers[i].path = NoPath
              /\ EnabledLayers[i].architectures = {}
         /\ EnabledMatches(enabledNames[i]) # {} =>
              /\ EnabledLayers[i].value = "Enabled"
              /\ EnabledLayers[i].path \in Paths
              /\ EnabledLayers[i].architectures =
                   UNION {At(place).architectures : place \in EnabledMatches(enabledNames[i])}
<1> DEFINE name == enabledNames[i]
<1> DEFINE matches == EnabledMatches(name)
<1> DEFINE all == UNION {At(place).architectures : place \in matches}
<1> DEFINE path == At(LastOf(matches)).path
<1> DEFINE entry == [path |-> NoPath, key |-> name, value |-> "EnabledButAbsent",
                     architectures |-> {}]
<1>1. matches \subseteq installedLayers
  BY DEF EnabledMatches, Matching
<1>2. matches # {} => path \in Paths
  BY <1>1, LastOfIsOne, AtTyped
<1>3. DOMAIN EnabledLayers = DOMAIN enabledNames
  BY DEF EnabledLayers
<1>4. EnabledLayers[i] = MergeAll(entry, matches)
  BY DEF EnabledLayers, Merge, MakeForEnvVar, EnabledMatches
<1>5. MergeAll(entry, matches) =
        IF matches = {} THEN entry
        ELSE [entry EXCEPT !.value = "Enabled", !.path = path, !.architectures = all]
  BY DEF MergeAll
<1> HIDE DEF path, all, matches
<1>6. CASE matches = {}
  BY <1>3, <1>4, <1>5, <1>6 DEF matches
<1>7. CASE matches # {}
  BY <1>2, <1>3, <1>4, <1>5, <1>7 DEF matches, all
<1> QED
  BY <1>6, <1>7

\* What a store has is of the types of ExplicitTypeOK.
LayersTyped(store, layers) ==
  \A i \in DOMAIN layers :
    /\ layers[i].value \in ValuesOf(store)
    /\ layers[i].architectures \subseteq Architectures
    /\ layers[i].path \in Paths \cup {NoPath}
    /\ layers[i].path = NoPath <=> layers[i].value = "EnabledButAbsent"

LEMMA GetAPILayersTyped ==
  ASSUME EnvironmentInv, NEW store \in Stores
  PROVE  LayersTyped(store, GetAPILayers(store))
<1>1. NoPath \notin Paths
  BY ExplicitStoresAssumption
<1>2. CASE store = sEnabledExplicit
  <2>1. ASSUME NEW i \in DOMAIN enabledNames
        PROVE  UNION {At(place).architectures : place \in EnabledMatches(enabledNames[i])}
                 \subseteq Architectures
    BY AtTyped DEF EnabledMatches, Matching
  <2>2. DOMAIN EnabledLayers = DOMAIN enabledNames
    BY DEF EnabledLayers
  <2>3. ValuesOf(store) = {"Enabled", "EnabledButAbsent"}
    BY <1>2 DEF ValuesOf, sEnabledExplicit, sOverridePaths
  <2>5. ASSUME NEW i \in DOMAIN EnabledLayers
        PROVE  /\ EnabledLayers[i].value \in ValuesOf(store)
               /\ EnabledLayers[i].architectures \subseteq Architectures
               /\ EnabledLayers[i].path \in Paths \cup {NoPath}
               /\ EnabledLayers[i].path = NoPath <=> EnabledLayers[i].value = "EnabledButAbsent"
    <3>1. CASE EnabledMatches(enabledNames[i]) = {}
      BY <2>2, <2>3, <3>1, EntriesAre
    <3>2. CASE EnabledMatches(enabledNames[i]) # {}
      <4> DEFINE all == UNION {At(place).architectures : place \in EnabledMatches(enabledNames[i])}
      <4>1. /\ EnabledLayers[i].value = "Enabled"
            /\ EnabledLayers[i].path \in Paths
            /\ EnabledLayers[i].architectures = all
        BY <2>2, <3>2, EntriesAre
      <4>2. all \subseteq Architectures
        BY <2>1, <2>2
      <4> HIDE DEF all
      <4> QED
        BY <1>1, <2>3, <4>1, <4>2
    <3> QED
      BY <3>1, <3>2
  <2> QED
    BY <1>2, <2>5 DEF LayersTyped, GetAPILayers
<1>3. CASE store \in ToSet(backingStores)
  <2>1. store # sEnabledExplicit
    BY <1>3, BackingStoresAre
  <2>2. "EnabledButAbsent" \notin ValuesOf(store)
    BY <2>1 DEF ValuesOf
  <2> QED
    BY <1>1, <1>3, <2>1, <2>2, BackingLayersTyped DEF LayersTyped, GetAPILayers
<1> QED
  BY <1>2, <1>3 DEF Stores

-----------------------------------------------------------------------------
(* The tabs.                                                               *)

LEMMA TabIsAStore ==
  /\ Len(tabOrder) \in Nat \ {0} /\ DOMAIN tabOrder = 1..Len(tabOrder)
  /\ \A i \in DOMAIN tabOrder : tabOrder[i] \in Stores
<1> DEFINE S == STRING \cup {sEnabledExplicit, sOverridePaths}
<1> DEFINE second == <<sOverridePaths>>
<1> DEFINE first == <<sEnabledExplicit>>
<1>1. RegistryStores \in Seq(S)
  BY ExplicitStoresAssumption, SeqMonotonic,
     STRING \ {sEnabledExplicit, sOverridePaths} \subseteq S
<1>2. second \in Seq(S) /\ backingStores = second \o RegistryStores
  BY DEF backingStores
<1>3. first \in Seq(S) /\ Len(first) = 1 /\ first[1] = sEnabledExplicit
  OBVIOUS
<1>4. tabOrder = first \o backingStores
  BY DEF tabOrder
<1> HIDE DEF first, second, S
<1>5. backingStores \in Seq(S)
  BY <1>1, <1>2, ConcatProperties
<1>6. /\ tabOrder \in Seq(S) /\ Len(tabOrder) = 1 + Len(backingStores)
      /\ \A i \in 1..Len(first) + Len(backingStores) : tabOrder[i] =
           IF i <= Len(first) THEN first[i] ELSE backingStores[i - Len(first)]
  BY <1>3, <1>4, <1>5, ConcatProperties
<1>7. /\ Len(tabOrder) = 1 + Len(backingStores) /\ DOMAIN tabOrder = 1..Len(tabOrder)
      /\ Len(backingStores) \in Nat /\ DOMAIN backingStores = 1..Len(backingStores)
  BY <1>6, BackingStoresAre, LenProperties
<1>8. ASSUME NEW i \in 1..Len(tabOrder)
      PROVE  tabOrder[i] \in Stores
  <2>1. CASE i = 1
    BY <1>3, <1>6, <1>7, <2>1 DEF Stores
  <2>2. CASE i # 1
    <3>1. i - 1 \in DOMAIN backingStores /\ tabOrder[i] = backingStores[i - 1]
      BY <1>3, <1>6, <1>7, <2>2
    <3> QED
      BY <3>1 DEF Stores, ToSet
  <2> QED
    BY <2>1, <2>2
<1> QED
  BY <1>7, <1>8

LEMMA NextTurn ==
  ASSUME turn \in DOMAIN tabOrder, TurnEnds
  PROVE  turn' \in DOMAIN tabOrder
<1>1. /\ Len(tabOrder) \in Nat \ {0} /\ DOMAIN tabOrder = 1..Len(tabOrder)
  BY TabIsAStore
<1>2. turn \in 1..Len(tabOrder) /\ turn' \in {turn, (turn % Len(tabOrder)) + 1}
  BY <1>1 DEF TurnEnds
<1> QED
  BY <1>1, <1>2

TypeInv ==
  /\ EnvironmentInv
  /\ ExplicitTypeOK
  /\ pc = "constructing" => mLayerSets = {}
  /\ pc \in {"reloading", "linting"} => tab \in mLayerSets
  /\ pc = "reloading" => LayersTyped(tab, read)

\* What GetAPILayers returned, or returns now, may be old when it is shown.
LayersMayBeOld(s) == s \in changed \cup overwritten \/ <<s, "layers">> \in outdated
ErrorsMayBeOld(s) == <<s, "errors">> \in outdated

\* What was read keeps, until it is shown, what SignalledTabsAreCurrent says of what
\* is shown; and a flag stays set until then.
ReadIsCurrent ==
  /\ pc = "reloading" =>
       /\ tab \in mLayerDataIsStale
       /\ LayersMayBeOld(tab) \/ read = GetAPILayers(tab)
  /\ pc = "linting" =>
       /\ tab \in mLintErrorsAreStale
       /\ ErrorsMayBeOld(tab) \/ read = RunAllLinters(tab, mLayers[tab])

ExplicitInv == TypeInv /\ SignalledTabsAreCurrent /\ ReadIsCurrent

LEMMA InitExplicit == Init => ExplicitInv
<1> SUFFICES ASSUME Init PROVE ExplicitInv
  OBVIOUS
<1>1. EnvironmentInv
  BY DEF Init, EnvironmentInv
<1>2. ExplicitTypeOK
  BY TabIsAStore DEF Init, ExplicitTypeOK
<1> QED
  BY <1>1, <1>2 DEF Init, ExplicitInv, TypeInv, SignalledTabsAreCurrent, ReadIsCurrent

\* What a tab shows depends on nothing but what it is computed from.
LEMMA SameStore ==
  ASSUME NEW s, s # sEnabledExplicit, enabledNames' = enabledNames, files' = files,
         s \in ToSet(RegistryStores) => key[s]' = key[s],
         s = sOverridePaths \/ s \in ToSet(RegistryStores)
  PROVE  GetAPILayers(s)' = GetAPILayers(s)
<1>1. OverrideLayers' = OverrideLayers
  BY DEF OverrideLayers, OverrideFiles, APILayerDetails
<1>2. s # sOverridePaths => RegistryLayers(s)' = RegistryLayers(s)
  BY DEF RegistryLayers
<1> QED
  BY <1>1, <1>2 DEF GetAPILayers, BackingLayers

LEMMA SameSources ==
  ASSUME NEW s, enabledNames' = enabledNames, files' = files, key' = key
  PROVE  GetAPILayers(s)' = GetAPILayers(s)
<1>1. OverrideLayers' = OverrideLayers
  BY DEF OverrideLayers, OverrideFiles, APILayerDetails
<1>2. \A store : BackingLayers(store)' = BackingLayers(store)
  BY <1>1 DEF BackingLayers, RegistryLayers
<1>3. EnabledLayers' = EnabledLayers
  <2>1. installedLayers' = installedLayers
    BY <1>2 DEF installedLayers
  <2>2. \A place : At(place)' = At(place)
    BY <1>2 DEF At
  <2>3. \A path : APILayerDetails(path)' = APILayerDetails(path)
    BY DEF APILayerDetails
  <2>4. \A name : Matching(name)' = Matching(name)
    BY <2>1, <2>2, <2>3 DEF Matching
  <2>5. \A entry, matching : Merge(entry, matching)' = Merge(entry, matching)
    BY <2>2 DEF Merge, MergeAll
  <2> QED
    BY <2>4, <2>5 DEF EnabledLayers
<1> QED
  BY <1>2, <1>3 DEF GetAPILayers

LEMMA SameErrors ==
  ASSUME NEW s, NEW layers, files' = files
  PROVE  RunAllLinters(s, layers)' = RunAllLinters(s, layers)
  BY DEF RunAllLinters, BadInstallationLint, ExplicitLayerArchitecturesLint, IsBroken,
         APILayerDetails, Missing

\* A step that shows nothing new and lets what is being read be.
LEMMA StillCurrent ==
  ASSUME ExplicitInv,
         UNCHANGED <<mLayerSets, mLayers, mLintErrors, pc, read>>,
         pc \in {"reloading", "linting"} => turn' = turn,
         mLayerDataIsStale \subseteq mLayerDataIsStale',
         mLintErrorsAreStale \subseteq mLintErrorsAreStale',
         \A s \in mLayerSets :
           /\ ~LayersMayBeOld(s)' /\ (s \in mLayerDataIsStale' => pc = "reloading" /\ s = tab)
                => ~LayersMayBeOld(s) /\ GetAPILayers(s)' = GetAPILayers(s)
           /\ ~ErrorsMayBeOld(s)' => ~ErrorsMayBeOld(s) /\ files' = files
  PROVE  SignalledTabsAreCurrent' /\ ReadIsCurrent'
<1>1. ASSUME NEW s \in mLayerSets'
      PROVE  \/ s \in mLayerDataIsStale' \cup changed' \cup overwritten'
             \/ <<s, "layers">> \in outdated'
             \/ mLayers'[s] = GetAPILayers(s)'
  BY <1>1 DEF ExplicitInv, SignalledTabsAreCurrent, LayersMayBeOld
<1>2. ASSUME NEW s \in mLayerSets'
      PROVE  \/ s \in mLintErrorsAreStale'
             \/ <<s, "errors">> \in outdated'
             \/ mLintErrors'[s] = RunAllLinters(s, mLayers[s])'
  <2>1. CASE ~ErrorsMayBeOld(s)'
    <3>1. RunAllLinters(s, mLayers[s])' = RunAllLinters(s, mLayers[s])
      BY <1>2, <2>1, SameErrors
    <3> QED
      BY <1>2, <2>1, <3>1 DEF ExplicitInv, SignalledTabsAreCurrent, ErrorsMayBeOld
  <2> QED
    BY <2>1 DEF ErrorsMayBeOld
<1>3. ASSUME pc = "reloading"
      PROVE  /\ tab' \in mLayerDataIsStale'
             /\ LayersMayBeOld(tab)' \/ read' = GetAPILayers(tab)'
  <2>1. tab' = tab /\ tab \in mLayerSets
    BY <1>3 DEF tab, ExplicitInv, TypeInv
  <2> DEFINE s == tab
  <2>2. s \in mLayerSets /\ s = tab /\ s = tab'
    BY <2>1
  <2> HIDE DEF s
  <2>3. s \in mLayerDataIsStale /\ (LayersMayBeOld(s) \/ read = GetAPILayers(s))
    BY <1>3, <2>2 DEF ExplicitInv, ReadIsCurrent
  <2> QED
    BY <1>3, <2>2, <2>3
<1>4. ASSUME pc = "linting"
      PROVE  /\ tab' \in mLintErrorsAreStale'
             /\ ErrorsMayBeOld(tab)' \/ read' = RunAllLinters(tab, mLayers[tab])'
  <2>1. tab' = tab /\ tab \in mLayerSets
    BY <1>4 DEF tab, ExplicitInv, TypeInv
  <2>2. tab \in mLintErrorsAreStale /\ (ErrorsMayBeOld(tab) \/ read = RunAllLinters(tab, mLayers[tab]))
    BY <1>4 DEF ExplicitInv, ReadIsCurrent
  <2>3. ASSUME ~ErrorsMayBeOld(tab)'
        PROVE  RunAllLinters(tab, mLayers[tab])' = RunAllLinters(tab, mLayers[tab])
    <3>1. files' = files
      BY <2>1, <2>3 DEF ErrorsMayBeOld
    <3> QED
      BY <2>1, <3>1, SameErrors
  <2> QED
    BY <2>1, <2>2, <2>3 DEF ErrorsMayBeOld
<1> QED
  BY <1>1, <1>2, <1>3, <1>4 DEF SignalledTabsAreCurrent, ReadIsCurrent

LEMMA NextExplicit == ExplicitInv /\ [Next]_vars => ExplicitInv'
<1> SUFFICES ASSUME ExplicitInv, [Next]_vars PROVE ExplicitInv'
  OBVIOUS
<1> USE DEF environment, tabs, flags, mainThread, history
<1>inv. TypeInv /\ EnvironmentInv /\ ExplicitTypeOK
  BY DEF ExplicitInv, TypeInv
<1>ends. ASSUME NEW layers, Terminate \/ Lint(layers)
         PROVE  \/ pc' = "terminated" /\ UNCHANGED <<read, overwritten, outdated>>
                \/ /\ pc' = "linting"
                   /\ read' = RunAllLinters(tab, layers)
                   /\ outdated' = outdated \ {<<tab, "errors">>}
                   /\ UNCHANGED overwritten
  BY <1>ends DEF Terminate, Lint
<1>1. ASSUME NEW always \in BOOLEAN, Construct(always)
      PROVE  ExplicitInv'
  <2>1. /\ EnvironmentInv'
        /\ UNCHANGED <<mLintErrorsAreStale, turn, changed, overwritten, outdated>>
    BY <1>1, <1>inv DEF Construct, Terminate, EnvironmentInv
  <2>2. /\ mLayerSets = {} /\ mLayerDataIsStale = {} /\ mLintErrorsAreStale = {}
        /\ overwritten = {} /\ outdated = {}
    BY <1>1, <1>inv DEF Construct, TypeInv, ExplicitTypeOK
  <2>3. \/ /\ pc' = "terminated"
           /\ UNCHANGED <<mLayers, mLintErrors, mLayerSets, mLayerDataIsStale>>
        \/ /\ pc' = "check"
           /\ mLayerSets' \in {{}, Stores}
           /\ mLayers' = [s \in mLayerSets' |-> <<>>]
           /\ mLintErrors' = [s \in mLayerSets' |-> {}]
           /\ mLayerDataIsStale' = mLayerSets'
    BY <1>1 DEF Construct, Terminate
  <2>4. ExplicitTypeOK'
    <3>1. \A s \in mLayerSets' : mLayers'[s] = <<>>
      BY <2>2, <2>3
    <3>2. DOMAIN mLayers' = mLayerSets' /\ DOMAIN mLintErrors' = mLayerSets'
      BY <2>2, <2>3, <1>inv DEF ExplicitTypeOK
    <3> QED
      BY <2>1, <2>2, <2>3, <3>1, <3>2, <1>inv DEF ExplicitTypeOK
  <2>5. SignalledTabsAreCurrent'
    <3>1. CASE mLayerSets' = {}
      BY <3>1 DEF SignalledTabsAreCurrent
    <3>2. ASSUME NEW s \in mLayerSets'
          PROVE  s \in mLayerDataIsStale' /\ mLintErrors'[s] = RunAllLinters(s, mLayers[s])'
      <4>1. mLayers'[s] = <<>> /\ mLintErrors'[s] = {} /\ s \in mLayerDataIsStale'
        BY <2>2, <2>3, <3>2
      <4> QED
        BY <4>1 DEF RunAllLinters, BadInstallationLint, ExplicitLayerArchitecturesLint, ToSet
    <3> QED
      BY <3>2 DEF SignalledTabsAreCurrent
  <2> QED
    BY <2>1, <2>2, <2>3, <2>4, <2>5 DEF ExplicitInv, TypeInv, ReadIsCurrent
<1>2. CASE ReadLayers
  <2>1. /\ UNCHANGED <<enabledNames, files, key, mLayerSets, mLayers, mLintErrors, turn,
                       mLayerDataIsStale, mLintErrorsAreStale, changed>>
        /\ tab \in mLayerDataIsStale /\ tab \in mLayerSets /\ tab' = tab
    BY <1>2, <1>inv DEF ReadLayers, ExplicitTypeOK, tab
  <2>2. \/ pc' = "terminated" /\ UNCHANGED <<overwritten, outdated>>
        \/ /\ pc' = "reloading" /\ read' = GetAPILayers(tab)
           /\ overwritten' = overwritten \ {tab}
           /\ outdated' = outdated \ {<<tab, "layers">>}
    BY <1>2 DEF ReadLayers, Terminate
  <2>3. EnvironmentInv' /\ ExplicitTypeOK'
    BY <2>1, <2>2, <1>inv DEF EnvironmentInv, ExplicitTypeOK
  <2>4. pc' = "reloading" => LayersTyped(tab', read')
    <3>1. tab \in Stores
      BY <2>1, <1>inv DEF ExplicitTypeOK
    <3> QED
      BY <2>1, <2>2, <3>1, <1>inv, GetAPILayersTyped
  <2>5. \A s : GetAPILayers(s)' = GetAPILayers(s)
    BY <2>1, SameSources
  <2>6. \A s : RunAllLinters(s, mLayers[s])' = RunAllLinters(s, mLayers[s])
    BY <2>1, SameErrors
  <2>7. SignalledTabsAreCurrent'
    BY <2>1, <2>2, <2>5, <2>6 DEF ExplicitInv, SignalledTabsAreCurrent
  <2>8. ReadIsCurrent'
    BY <2>1, <2>2, <2>5 DEF ReadIsCurrent
  <2> QED
    BY <2>1, <2>2, <2>3, <2>4, <2>7, <2>8 DEF ExplicitInv, TypeInv, LayersTyped
<1>3. CASE ReloadLayerDataNow
  <2>1. /\ UNCHANGED <<enabledNames, files, key, mLayerSets, mLintErrors, turn, changed>>
        /\ pc = "reloading" /\ tab \in mLayerSets /\ tab' = tab
        /\ mLayers' = [mLayers EXCEPT ![tab] = read]
        /\ mLayerDataIsStale' = mLayerDataIsStale \ {tab}
        /\ mLintErrorsAreStale' = mLintErrorsAreStale \cup {tab}
        /\ Lint(read)
    BY <1>3, <1>inv DEF ReloadLayerDataNow, TypeInv, tab
  <2>2. \/ pc' = "terminated" /\ UNCHANGED <<overwritten, outdated>>
        \/ /\ pc' = "linting" /\ read' = RunAllLinters(tab, read)
           /\ outdated' = outdated \ {<<tab, "errors">>} /\ UNCHANGED overwritten
    BY <2>1, <1>ends
  <2>3. /\ DOMAIN mLayers' = mLayerSets /\ mLayers'[tab] = read
        /\ \A s \in mLayerSets \ {tab} : mLayers'[s] = mLayers[s]
    BY <2>1, <1>inv DEF ExplicitTypeOK
  <2>4. \A s \in mLayerSets : LayersTyped(s, mLayers'[s])
    BY <2>1, <2>3, <1>inv DEF TypeInv, ExplicitTypeOK, LayersTyped
  <2>5. EnvironmentInv' /\ ExplicitTypeOK'
    BY <2>1, <2>2, <2>3, <2>4, <1>inv DEF EnvironmentInv, ExplicitTypeOK, LayersTyped
  <2>6. \A s : GetAPILayers(s)' = GetAPILayers(s)
    BY <2>1, SameSources
  <2>7. \A s, layers : RunAllLinters(s, layers)' = RunAllLinters(s, layers)
    BY <2>1, SameErrors
  <2>8. SignalledTabsAreCurrent'
    <3>1. ASSUME NEW s \in mLayerSets
          PROVE  \/ s \in mLayerDataIsStale' \cup changed' \cup overwritten'
                 \/ <<s, "layers">> \in outdated'
                 \/ mLayers'[s] = GetAPILayers(s)'
      <4>1. CASE s = tab
        BY <2>1, <2>2, <2>3, <2>6, <4>1 DEF ExplicitInv, ReadIsCurrent, LayersMayBeOld
      <4>2. CASE s # tab
        BY <2>1, <2>2, <2>3, <2>6, <4>2 DEF ExplicitInv, SignalledTabsAreCurrent
      <4> QED
        BY <4>1, <4>2
    <3>2. ASSUME NEW s \in mLayerSets
          PROVE  \/ s \in mLintErrorsAreStale'
                 \/ <<s, "errors">> \in outdated'
                 \/ mLintErrors'[s] = RunAllLinters(s, mLayers[s])'
      <4>1. CASE s = tab
        BY <2>1, <4>1
      <4>2. CASE s # tab
        <5>1. RunAllLinters(s, mLayers[s])' = RunAllLinters(s, mLayers[s])
          BY <2>3, <2>7, <4>2
        <5> QED
          BY <2>1, <2>2, <4>2, <5>1 DEF ExplicitInv, SignalledTabsAreCurrent
      <4> QED
        BY <4>1, <4>2
    <3> QED
      BY <2>1, <3>1, <3>2 DEF SignalledTabsAreCurrent
  <2>9. ReadIsCurrent'
    <3>1. RunAllLinters(tab, mLayers[tab])' = RunAllLinters(tab, read)
      BY <2>1, <2>3, <2>7
    <3> QED
      BY <2>1, <2>2, <3>1 DEF ReadIsCurrent
  <2> QED
    BY <2>1, <2>2, <2>5, <2>8, <2>9 DEF ExplicitInv, TypeInv
<1>4. CASE CheckLintErrors
  <2>1. /\ UNCHANGED <<enabledNames, files, key, mLayerSets, mLayers, mLintErrors, turn,
                       mLayerDataIsStale, mLintErrorsAreStale, changed>>
        /\ tab \in mLintErrorsAreStale /\ tab \in mLayerSets /\ tab' = tab
        /\ Lint(mLayers[tab])
    BY <1>4, <1>inv DEF CheckLintErrors, ExplicitTypeOK, tab
  <2>2. \/ pc' = "terminated" /\ UNCHANGED <<overwritten, outdated>>
        \/ /\ pc' = "linting" /\ read' = RunAllLinters(tab, mLayers[tab])
           /\ outdated' = outdated \ {<<tab, "errors">>} /\ UNCHANGED overwritten
    BY <2>1, <1>ends
  <2>3. EnvironmentInv' /\ ExplicitTypeOK'
    BY <2>1, <2>2, <1>inv DEF EnvironmentInv, ExplicitTypeOK
  <2>4. \A s : GetAPILayers(s)' = GetAPILayers(s)
    BY <2>1, SameSources
  <2>5. \A s : RunAllLinters(s, mLayers[s])' = RunAllLinters(s, mLayers[s])
    BY <2>1, SameErrors
  <2>6. SignalledTabsAreCurrent'
    BY <2>1, <2>2, <2>4, <2>5 DEF ExplicitInv, SignalledTabsAreCurrent
  <2>7. ReadIsCurrent'
    BY <2>1, <2>2, <2>5 DEF ReadIsCurrent
  <2> QED
    BY <2>1, <2>2, <2>3, <2>6, <2>7 DEF ExplicitInv, TypeInv
<1>5. CASE RunAllLintersNow
  <2>1. /\ UNCHANGED <<enabledNames, files, key, mLayerSets, mLayers, mLayerDataIsStale,
                       changed, overwritten, outdated>>
        /\ pc = "linting" /\ tab \in mLayerSets /\ pc' = "check"
        /\ mLintErrors' = [mLintErrors EXCEPT ![tab] = read]
        /\ mLintErrorsAreStale' = mLintErrorsAreStale \ {tab}
        /\ turn' \in DOMAIN tabOrder
    BY <1>5, <1>inv, NextTurn DEF RunAllLintersNow, TypeInv, ExplicitTypeOK
  <2>2. /\ DOMAIN mLintErrors' = mLayerSets /\ mLintErrors'[tab] = read
        /\ \A s \in mLayerSets \ {tab} : mLintErrors'[s] = mLintErrors[s]
    BY <2>1, <1>inv DEF ExplicitTypeOK
  <2>3. EnvironmentInv' /\ ExplicitTypeOK'
    BY <2>1, <2>2, <1>inv DEF EnvironmentInv, ExplicitTypeOK
  <2>4. \A s : GetAPILayers(s)' = GetAPILayers(s)
    BY <2>1, SameSources
  <2>5. \A s : RunAllLinters(s, mLayers[s])' = RunAllLinters(s, mLayers[s])
    BY <2>1, SameErrors
  <2>6. ErrorsMayBeOld(tab) \/ read = RunAllLinters(tab, mLayers[tab])
    BY <2>1 DEF ExplicitInv, ReadIsCurrent
  <2>7. SignalledTabsAreCurrent'
    <3>1. ASSUME NEW s \in mLayerSets
          PROVE  \/ s \in mLintErrorsAreStale'
                 \/ <<s, "errors">> \in outdated'
                 \/ mLintErrors'[s] = RunAllLinters(s, mLayers[s])'
      <4>1. CASE s = tab
        BY <2>1, <2>2, <2>5, <2>6, <4>1 DEF ErrorsMayBeOld
      <4>2. CASE s # tab
        BY <2>1, <2>2, <2>5, <4>2 DEF ExplicitInv, SignalledTabsAreCurrent
      <4> QED
        BY <4>1, <4>2
    <3> QED
      BY <2>1, <2>4, <3>1 DEF ExplicitInv, SignalledTabsAreCurrent
  <2> QED
    BY <2>1, <2>3, <2>7 DEF ExplicitInv, TypeInv, ReadIsCurrent
<1>6. CASE NextTab
  <2>1. /\ UNCHANGED <<enabledNames, files, key, mLayerSets, mLayers, mLintErrors, pc, read,
                       mLayerDataIsStale, mLintErrorsAreStale, changed, overwritten, outdated>>
        /\ pc = "check"
        /\ turn' \in DOMAIN tabOrder
    BY <1>6, <1>inv, NextTurn DEF NextTab, ExplicitTypeOK
  <2>2. EnvironmentInv' /\ ExplicitTypeOK'
    BY <2>1, <1>inv DEF EnvironmentInv, ExplicitTypeOK
  <2>3. SignalledTabsAreCurrent' /\ ReadIsCurrent'
    BY <2>1, SameSources, StillCurrent DEF LayersMayBeOld, ErrorsMayBeOld
  <2> QED
    BY <2>1, <2>2, <2>3, <1>inv DEF ExplicitInv, TypeInv
<1>7. CASE ReloadListClicked \/ OnLoaderData \/ UNCHANGED vars
  <2>1. /\ UNCHANGED <<enabledNames, files, key, mLayerSets, mLayers, mLintErrors, pc, read,
                       turn, changed, overwritten, outdated>>
        /\ mLayerDataIsStale \subseteq mLayerDataIsStale'
        /\ mLayerDataIsStale' \subseteq mLayerSets
        /\ mLintErrorsAreStale \subseteq mLintErrorsAreStale'
        /\ mLintErrorsAreStale' \subseteq mLayerSets
    BY <1>7, <1>inv DEF ReloadListClicked, OnLoaderData, vars, ExplicitTypeOK
  <2>2. EnvironmentInv' /\ ExplicitTypeOK'
    BY <2>1, <1>inv DEF EnvironmentInv, ExplicitTypeOK
  <2>3. SignalledTabsAreCurrent' /\ ReadIsCurrent'
    BY <2>1, SameSources, StillCurrent DEF LayersMayBeOld, ErrorsMayBeOld
  <2>4. tab' = tab
    BY <2>1 DEF tab
  <2> QED
    BY <2>1, <2>2, <2>3, <2>4, <1>inv DEF ExplicitInv, TypeInv, LayersTyped
<1>8. ASSUME NEW store \in ToSet(RegistryStores), KeyChanged(store)
      PROVE  ExplicitInv'
  <2>1. PICK k \in Keys : key' = [key EXCEPT ![store] = k]
    BY <1>8 DEF KeyChanged
  <2>2. /\ UNCHANGED <<enabledNames, files, mLayerSets, mLayers, mLintErrors, pc, read, turn,
                       mLayerDataIsStale, mLintErrorsAreStale, overwritten>>
        /\ changed' = changed \cup {store}
        /\ outdated' = outdated \cup (({sEnabledExplicit} \cap mLayerSets) \X {"layers"})
    BY <1>8 DEF KeyChanged, Change, Unsignalled
  <2>3. EnvironmentInv' /\ ExplicitTypeOK'
    BY <2>1, <2>2, <1>inv DEF EnvironmentInv, ExplicitTypeOK
  <2>4. ASSUME NEW s \in mLayerSets, ~LayersMayBeOld(s)'
        PROVE  ~LayersMayBeOld(s) /\ GetAPILayers(s)' = GetAPILayers(s)
    <3>1. s # store /\ s # sEnabledExplicit /\ ~LayersMayBeOld(s)
      BY <2>2, <2>4 DEF LayersMayBeOld
    <3>2. s = sOverridePaths \/ s \in ToSet(RegistryStores)
      BY <3>1, <1>inv, BackingStoresAre DEF ExplicitTypeOK, Stores
    <3>3. s \in ToSet(RegistryStores) => key[s]' = key[s]
      BY <2>1, <3>1, <1>inv DEF EnvironmentInv
    <3> QED
      BY <2>2, <3>1, <3>2, <3>3, SameStore
  <2>5. \A s \in mLayerSets : ~ErrorsMayBeOld(s)' => ~ErrorsMayBeOld(s) /\ files' = files
    BY <2>2 DEF ErrorsMayBeOld
  <2>6. SignalledTabsAreCurrent' /\ ReadIsCurrent'
    BY <2>2, <2>4, <2>5, StillCurrent
  <2>7. tab' = tab
    BY <2>2 DEF tab
  <2> QED
    BY <2>2, <2>3, <2>6, <2>7, <1>inv DEF ExplicitInv, TypeInv, LayersTyped
<1>9. ASSUME NEW store \in ToSet(RegistryStores), NotifyChange(store)
      PROVE  ExplicitInv'
  <2>1. /\ UNCHANGED <<enabledNames, files, key, mLayerSets, mLayers, mLintErrors, pc, read,
                       turn, mLintErrorsAreStale, outdated>>
        /\ changed' = changed \ {store}
        /\ mLayerDataIsStale' = mLayerDataIsStale \cup ({store} \cap mLayerSets)
        /\ overwritten' = IF pc = "reloading" /\ tab = store
                          THEN overwritten \cup {store} ELSE overwritten
    BY <1>9 DEF NotifyChange
  <2>2. pc = "reloading" => tab \in mLayerSets
    BY <1>inv DEF TypeInv
  <2>3. EnvironmentInv' /\ ExplicitTypeOK'
    BY <2>1, <2>2, <1>inv DEF EnvironmentInv, ExplicitTypeOK
  <2>4. \A s : GetAPILayers(s)' = GetAPILayers(s)
    BY <2>1, SameSources
  <2>5. ASSUME NEW s \in mLayerSets, ~LayersMayBeOld(s)',
               s \in mLayerDataIsStale' => pc = "reloading" /\ s = tab
        PROVE  ~LayersMayBeOld(s)
    BY <2>1, <2>5 DEF LayersMayBeOld
  <2>6. \A s \in mLayerSets : ~ErrorsMayBeOld(s)' => ~ErrorsMayBeOld(s) /\ files' = files
    BY <2>1 DEF ErrorsMayBeOld
  <2>7. SignalledTabsAreCurrent' /\ ReadIsCurrent'
    BY <2>1, <2>4, <2>5, <2>6, StillCurrent
  <2>8. tab' = tab
    BY <2>1 DEF tab
  <2> QED
    BY <2>1, <2>3, <2>7, <2>8, <1>inv DEF ExplicitInv, TypeInv, LayersTyped
<1>10. ASSUME NEW path \in Paths, FileChanged(path)
       PROVE  ExplicitInv'
  <2>1. PICK m \in Manifests : files' = [files EXCEPT ![path] = m]
    BY <1>10 DEF FileChanged
  <2>2. /\ UNCHANGED <<enabledNames, key, mLayerSets, mLayers, mLintErrors, pc, read, turn,
                       mLayerDataIsStale, mLintErrorsAreStale, changed, overwritten>>
        /\ outdated' = outdated
             \cup (({sOverridePaths, sEnabledExplicit} \cap mLayerSets) \X {"layers"})
             \cup ((Stores \cap mLayerSets) \X {"errors"})
    BY <1>10 DEF FileChanged, Change, Unsignalled
  <2>3. EnvironmentInv' /\ ExplicitTypeOK'
    BY <2>1, <2>2, <1>inv DEF EnvironmentInv, ExplicitTypeOK
  <2>4. ASSUME NEW s \in mLayerSets, ~LayersMayBeOld(s)'
        PROVE  ~LayersMayBeOld(s) /\ GetAPILayers(s)' = GetAPILayers(s)
    <3>1. s # sOverridePaths /\ s # sEnabledExplicit /\ ~LayersMayBeOld(s)
      BY <2>2, <2>4 DEF LayersMayBeOld
    <3> QED
      BY <2>2, <3>1 DEF GetAPILayers, BackingLayers, RegistryLayers
  <2>5. \A s \in mLayerSets : ErrorsMayBeOld(s)'
    BY <2>2, <1>inv DEF ErrorsMayBeOld, ExplicitTypeOK
  <2>6. SignalledTabsAreCurrent' /\ ReadIsCurrent'
    BY <2>2, <2>4, <2>5, StillCurrent
  <2>7. tab' = tab
    BY <2>2 DEF tab
  <2> QED
    BY <2>2, <2>3, <2>6, <2>7, <1>inv DEF ExplicitInv, TypeInv, LayersTyped
<1>11. CASE DirectoryRemoved
  <2>1. /\ UNCHANGED <<enabledNames, files, key, mLayerSets, mLayers, mLintErrors, pc, read,
                       turn, mLayerDataIsStale, mLintErrorsAreStale, changed, overwritten>>
        /\ outdated' = outdated
             \cup (({sOverridePaths, sEnabledExplicit} \cap mLayerSets) \X {"layers"})
    BY <1>11 DEF DirectoryRemoved, Change, Unsignalled
  <2>2. EnvironmentInv' /\ ExplicitTypeOK'
    BY <2>1, <1>inv DEF EnvironmentInv, ExplicitTypeOK
  <2>3. SignalledTabsAreCurrent' /\ ReadIsCurrent'
    BY <2>1, SameSources, StillCurrent DEF LayersMayBeOld, ErrorsMayBeOld
  <2>4. tab' = tab
    BY <2>1 DEF tab
  <2> QED
    BY <2>1, <2>2, <2>3, <2>4, <1>inv DEF ExplicitInv, TypeInv, LayersTyped
<1> QED
  BY <1>1, <1>2, <1>3, <1>4, <1>5, <1>6, <1>7, <1>8, <1>9, <1>10, <1>11 DEF Next

LEMMA ExplicitInvariant == Spec => []ExplicitInv
  BY InitExplicit, NextExplicit, PTL DEF Spec

-----------------------------------------------------------------------------
(* What follows from it. *)

\* The members of the tabs keep their types; only entries of XR_ENABLE_API_LAYERS are
\* absent, and exactly those have no path.
THEOREM ExplicitTypeCorrect == Spec => []ExplicitTypeOK
<1>1. ExplicitInv => ExplicitTypeOK
  BY DEF ExplicitInv, TypeInv
<1> QED
  BY <1>1, ExplicitInvariant, PTL

\* A tab whose flags are clear shows what its store has and what the linters find, but
\* for what changed without a signal, or with one that is still to come or came while
\* the tab was reloaded, however many stores there are and whatever they hold.
THEOREM SignalledAreCurrent == Spec => []SignalledTabsAreCurrent
<1>1. ExplicitInv => SignalledTabsAreCurrent
  BY DEF ExplicitInv
<1> QED
  BY <1>1, ExplicitInvariant, PTL

\* Applications find a layer where it is enabled, has the architecture, and works.
LEMMA AvailableIsAMatch ==
  ASSUME NEW name, NEW architecture
  PROVE  /\ Available(name, architecture) =>
              \E place \in EnabledMatches(name) : architecture \in At(place).architectures
         /\ \A place \in EnabledMatches(name) :
              architecture \in At(place).architectures /\ ~IsBroken(At(place))
                => Available(name, architecture)
<1>1. ASSUME Available(name, architecture)
      PROVE  \E place \in EnabledMatches(name) : architecture \in At(place).architectures
  <2>1. PICK n \in DOMAIN backingStores : \E i \in DOMAIN BackingLayers(backingStores[n]) :
          LET layer == BackingLayers(backingStores[n])[i]
          IN  /\ layer.value = "Enabled"
              /\ architecture \in layer.architectures
              /\ APILayerDetails(layer.path).name = name
    BY <1>1 DEF Available, ToSet
  <2>2. PICK i \in DOMAIN BackingLayers(backingStores[n]) :
          /\ At(<<n, i>>).value = "Enabled"
          /\ architecture \in At(<<n, i>>).architectures
          /\ APILayerDetails(At(<<n, i>>).path).name = name
    BY <2>1 DEF At
  <2>3. <<n, i>> \in installedLayers
    BY DEF installedLayers
  <2> QED
    BY <2>2, <2>3 DEF EnabledMatches, Matching
<1>2. ASSUME NEW place \in EnabledMatches(name),
             architecture \in At(place).architectures, ~IsBroken(At(place))
      PROVE  Available(name, architecture)
  <2>1. /\ place \in installedLayers
        /\ At(place).value = "Enabled" /\ APILayerDetails(At(place).path).name = name
    BY DEF EnabledMatches, Matching
  <2> QED
    BY <1>2, <2>1, PlacesAre DEF Available, At
<1> QED
  BY <1>1, <1>2

\* Tabs that are settled show their stores and all errors of these.
LEMMA SettledTabs ==
  ASSUME ExplicitInv, Settled, mLayerSets # {}
  PROVE  /\ mLayerSets = Stores
         /\ \A s \in Stores : /\ mLayers[s] = GetAPILayers(s)
                              /\ mLintErrors[s] = RunAllLinters(s, GetAPILayers(s))
<1>1. mLayerSets = Stores
  BY DEF ExplicitInv, TypeInv, ExplicitTypeOK
<1>2. /\ mLayerDataIsStale = {} /\ mLintErrorsAreStale = {}
      /\ changed = {} /\ overwritten = {} /\ outdated = {}
  BY DEF Settled
<1> QED
  BY <1>1, <1>2 DEF ExplicitInv, SignalledTabsAreCurrent

\* For any manifests in any stores, some error of some tab is about a name of the
\* variable that applications of an architecture do not find.
THEOREM NothingGoesUnsaid == Spec => []NothingBrokenGoesUnsaid
<1>1. ExplicitInv => NothingBrokenGoesUnsaid
  <2> SUFFICES ASSUME ExplicitInv, Settled, mLayerSets # {},
                      NEW i \in DOMAIN enabledNames, NEW architecture \in Architectures,
                      ~Available(enabledNames[i], architecture)
               PROVE  IsMentioned(enabledNames[i])
    BY DEF NothingBrokenGoesUnsaid
  <2> DEFINE name == enabledNames[i]
  <2> DEFINE entry == EnabledLayers[i]
  <2>1. EnvironmentInv /\ NoPath \notin Paths
    BY ExplicitStoresAssumption DEF ExplicitInv, TypeInv
  <2>2. /\ sEnabledExplicit \in mLayerSets
        /\ mLintErrors[sEnabledExplicit] = RunAllLinters(sEnabledExplicit, EnabledLayers)
    BY SettledTabs DEF GetAPILayers, Stores
  <2>3. entry \in ToSet(EnabledLayers) /\ entry.key = name
    BY <2>1, EntriesAre DEF ToSet
  <2>4. CASE EnabledMatches(name) = {}
    <3>1. entry.value = "EnabledButAbsent"
      BY <2>1, <2>4, EntriesAre
    <3>2. LintError("NotInstalled", entry, {}) \in mLintErrors[sEnabledExplicit]
      BY <2>2, <2>3, <3>1 DEF RunAllLinters, BadInstallationLint
    <3> QED
      BY <2>2, <2>3, <3>2 DEF IsMentioned, LintError
  <2>5. CASE \E place \in EnabledMatches(name) : architecture \in At(place).architectures
    <3>1. PICK place \in EnabledMatches(name) : architecture \in At(place).architectures
      BY <2>5
    <3>2. IsBroken(At(place))
      BY <3>1, AvailableIsAMatch
    <3>3. /\ place \in installedLayers /\ At(place).value = "Enabled"
          /\ APILayerDetails(At(place).path).name = name
      BY DEF EnabledMatches, Matching
    <3> DEFINE store == backingStores[place[1]]
    <3>4. /\ store \in Stores /\ store # sEnabledExplicit
          /\ At(place) \in ToSet(BackingLayers(store))
      BY <3>3, PlacesAre, BackingStoresAre DEF At, ToSet, Stores
    <3>5. mLintErrors[store] = RunAllLinters(store, BackingLayers(store))
      BY <3>4, SettledTabs DEF GetAPILayers
    <3>6. LintError("BadInstallation", At(place), {}) \in mLintErrors[store]
      BY <3>2, <3>3, <3>4, <3>5 DEF RunAllLinters, BadInstallationLint
    <3> QED
      BY <3>3, <3>4, <3>6, SettledTabs DEF IsMentioned, LintError
  <2>6. CASE /\ EnabledMatches(name) # {}
             /\ ~\E place \in EnabledMatches(name) : architecture \in At(place).architectures
    <3>1. /\ entry.value = "Enabled" /\ entry.path \in Paths
          /\ entry.architectures = UNION {At(place).architectures : place \in EnabledMatches(name)}
      BY <2>1, <2>6, EntriesAre
    <3>2. architecture \in Missing(sEnabledExplicit, entry)
      BY <2>6, <3>1, BackingStoresAre DEF Missing, GetArchitectures, ToSet, Stores
    <3>3. LintError("Architectures", entry, Missing(sEnabledExplicit, entry))
            \in mLintErrors[sEnabledExplicit]
      BY <2>1, <2>2, <2>3, <3>1, <3>2 DEF RunAllLinters, ExplicitLayerArchitecturesLint
    <3> QED
      BY <2>2, <2>3, <3>3 DEF IsMentioned, LintError
  <2> QED
    BY <2>4, <2>5, <2>6
<1> QED
  BY <1>1, ExplicitInvariant, PTL

\* A layer that the tab of the variable says is not installed, or has no copy for an
\* architecture, is found by no application of any, or of that, architecture.
THEOREM AbsentIsAbsent == Spec => []AbsenceIsReal
<1>1. ExplicitInv => AbsenceIsReal
  <2> SUFFICES ASSUME ExplicitInv, Settled, mLayerSets # {},
                      NEW error \in mLintErrors[sEnabledExplicit]
               PROVE  /\ error.linter = "NotInstalled" =>
                           \A architecture \in Architectures : ~Available(error.key, architecture)
                      /\ error.linter = "Architectures" =>
                           \A architecture \in error.missing : ~Available(error.key, architecture)
    BY DEF AbsenceIsReal
  <2>1. EnvironmentInv
    BY DEF ExplicitInv, TypeInv
  <2>2. error \in RunAllLinters(sEnabledExplicit, EnabledLayers)
    BY SettledTabs DEF GetAPILayers, Stores
  <2>3. CASE error.linter = "NotInstalled"
    <3>1. PICK i \in DOMAIN EnabledLayers :
            error.key = EnabledLayers[i].key /\ EnabledLayers[i].value = "EnabledButAbsent"
      BY <2>2, <2>3 DEF RunAllLinters, BadInstallationLint, ExplicitLayerArchitecturesLint,
                        LintError, ToSet
    <3>2. i \in DOMAIN enabledNames
      BY DEF EnabledLayers
    <3>3. error.key = enabledNames[i] /\ EnabledMatches(error.key) = {}
      BY <2>1, <3>1, <3>2, EntriesAre
    <3> QED
      BY <2>3, <3>3, AvailableIsAMatch
  <2>4. CASE error.linter = "Architectures"
    <3>1. PICK i \in DOMAIN EnabledLayers :
            /\ error.key = EnabledLayers[i].key /\ EnabledLayers[i].value = "Enabled"
            /\ error.missing = Missing(sEnabledExplicit, EnabledLayers[i])
      BY <2>2, <2>4 DEF RunAllLinters, BadInstallationLint, ExplicitLayerArchitecturesLint,
                        LintError, ToSet
    <3>2. i \in DOMAIN enabledNames
      BY DEF EnabledLayers
    <3>3. /\ error.key = enabledNames[i]
          /\ EnabledLayers[i].architectures =
               UNION {At(place).architectures : place \in EnabledMatches(error.key)}
      BY <2>1, <3>1, <3>2, EntriesAre
    <3>4. \A architecture \in error.missing : \A place \in EnabledMatches(error.key) :
            architecture \notin At(place).architectures
      BY <3>1, <3>3 DEF Missing
    <3> QED
      BY <2>4, <3>4, AvailableIsAMatch
  <2> QED
    BY <2>3, <2>4
<1> QED
  BY <1>1, ExplicitInvariant, PTL
=============================================================================
