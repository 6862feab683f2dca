------------------------------- MODULE Linters -------------------------------
(***************************************************************************)
(* What the linters find in the layers of a tab (Linter.cpp and linters/), *)
(* and what becomes of the list when the user clicks on Fix It! and on     *)
(* Fix Them! (GUI.cpp).                                                    *)
(*                                                                         *)
(* A click is one step: the fixes are applied to mLayers, SetAPILayers     *)
(* writes them, and the tab reloads and lints them.  LayerSet has the      *)
(* other widgets and other programs; here nothing but fixes change the     *)
(* list, and everything else that linters look at stays as it is.          *)
(***************************************************************************)
EXTENDS LayerEdits, LayerRules

CONSTANTS Rules,   \* what GetLayerRules returns
          Worlds   \* what linters may look at, other than the list

\* store: of the tab.  details: of each path that may be in the store, all empty
\* if it is not loaded.  environment: the variables that are set.  runtime: the
\* active one, by architecture.  loaderData: the names of the layers that the
\* loader enabled, for the architectures whose data has arrived.
ASSUME WorldsAssumption ==
  \A w \in Worlds :
    /\ DOMAIN w.details \subseteq Paths
    /\ w.store.bitness \in {32, 64}
    /\ DOMAIN w.loaderData \subseteq {32, 64}

\* The ids of layers that linters may meet.
LayerIDs(w) ==
  (DOMAIN Rules
     \cup (UNION {Rules[id].above \cup Rules[id].below \cup Rules[id].conflicts
                   \cup Rules[id].conflictsPerApp : id \in DOMAIN Rules})
     \cup {w.details[path].name : path \in DOMAIN w.details})
    \ (ExtensionIDs \cup Facets)

\* A Facet knows its kind, so that an id is of one kind.  The tables have rules
\* for layers and for facets, and only layers have facets.
ASSUME KindsAssumption ==
  /\ \A id \in DOMAIN Rules :
       /\ id \notin ExtensionIDs
       /\ Rules[id].facets \subseteq Facets
       /\ Rules[id].facets # {} => id \notin Facets
  /\ \A w \in Worlds : \A path \in DOMAIN w.details :
       /\ w.details[path].name \notin ExtensionIDs \cup Facets
       /\ w.details[path].extensions \cap (LayerIDs(w) \cup Facets) = {}

VARIABLES mLayers, world

vars == <<mLayers, world>>

Details(layer) == world.details[layer.path]
Name(layer) == Details(layer).name
IsLoaded(layer) == Details(layer).state = "Loaded"

-----------------------------------------------------------------------------
(* Errors.  fix is the fix of a FixableLintError in a sequence, or empty.  *)

Error(linter, affected, fix) == [linter |-> linter, affected |-> affected, fix |-> fix]

FixOf(kind, layer) == IF kind = "none" THEN <<>> ELSE <<[kind |-> kind, path |-> layer.path]>>

\* Some places of a list, in order, and what is there: a filtered view.
InOrder(places) ==
  [k \in 1..Cardinality(places) |->
     CHOOSE i \in places : Cardinality({j \in places : j < i}) = k - 1]

Filtered(list, places) ==
  [k \in 1..Cardinality(places) |-> list[InOrder(places)[k]]]

Where(Holds(_)) == {i \in DOMAIN mLayers : Holds(mLayers[i])}

\* One error for each layer at one of the places.
ErrorsAt(linter, places, kind) ==
  LET failing == Filtered(mLayers, places)
  IN  [k \in DOMAIN failing |-> Error(linter, {failing[k].path}, FixOf(kind, failing[k]))]

BadInstallationLint ==
  ErrorsAt("BadInstallation",
           Where(LAMBDA layer : ~IsLoaded(layer) \/ "exists" \notin Details(layer).library),
           "remove")

NotADWORDLint ==
  ErrorsAt("NotADWORD", Where(LAMBDA layer : layer.value = "NotDWORD"), "disable")

\* Stores of the 64-bit registry.
Is64 == world.store.bitness = 64

OpenXRToolkitLint ==
  ErrorsAt("OpenXRToolkit",
           Where(LAMBDA layer : Is64 /\ IsEnabled(layer) /\ Name(layer) = "toolkit"),
           "disable")

XRNeckSaferLint ==
  ErrorsAt("XRNeckSafer",
           Where(LAMBDA layer : /\ Is64
                                /\ IsEnabled(layer)
                                /\ Name(layer) = "XRNeckSafer"
                                /\ Details(layer).version = "1"),
           "disable")

\* Disabled layers as well.
OutdatedOpenKneeboardLint ==
  ErrorsAt("OutdatedOpenKneeboard",
           Where(LAMBDA layer : /\ Is64
                                /\ \/ Name(layer) = "NOVENDOR_OpenKneeboard"
                                   \/ /\ Name(layer) = "OpenKneeboard"
                                      /\ \/ world.store.root = "HKCU"
                                         \/ "MSIX" \in Details(layer).library),
           "remove")

ViveLayersLint ==
  ErrorsAt("ViveLayers",
           Where(LAMBDA layer : /\ world.runtime[world.store.bitness] \notin {"None", "SteamVR", "VIVE_OpenXR"}
                                /\ IsEnabled(layer)
                                /\ Name(layer) = "VIVE_MR"),
           "disable")

\* Mutant: the last index is the size.
UltraleapLastLintPastEnd ==
  LET enabled == Filtered(mLayers, Where(IsEnabled))
      i == SelectInSeq(enabled, LAMBDA layer : Name(layer) = "ULTRALEAP_hand_tracking")
  IN  IF i = 0 \/ Details(enabled[i]).version # "1" THEN <<>>
      ELSE <<Error("UltraleapLast", {enabled[i].path},
                   <<[kind |-> "last", path |-> enabled[i].path]>>)>>

UltraleapLastLint ==
  LET enabled == Filtered(mLayers, Where(IsEnabled))
      i == SelectInSeq(enabled, LAMBDA layer : Name(layer) = "ULTRALEAP_hand_tracking")
  IN  IF i = 0 \/ i = Len(enabled) \/ Details(enabled[i]).version # "1" THEN <<>>
      ELSE <<Error("UltraleapLast", {enabled[i].path},
                   <<[kind |-> "last", path |-> enabled[i].path]>>)>>

-----------------------------------------------------------------------------
(* OrderingLinter.                                                         *)

\* The layers it looks at.
checked == Filtered(mLayers, Where(LAMBDA layer : IsEnabled(layer) /\ IsLoaded(layer)))

FirstCopy(name) == SelectInSeq(checked, LAMBDA layer : Name(layer) = name)
Names == {Name(checked[i]) : i \in DOMAIN checked}

\* emplace ignores another copy of a layer: an index counts names, from 0.
layerIndices ==
  [name \in Names |-> Cardinality({Name(checked[i]) : i \in 1..(FirstCopy(name) - 1)})]

layerExtensions == [name \in Names |-> Details(checked[FirstCopy(name)]).extensions]

Expanded(layer, field) ==
  IF Name(layer) \in DOMAIN Rules
  THEN ExpandRule(Name(layer), field, layerExtensions, Rules) \cap Names
  ELSE {}

\* Mutant: the error is about the other layer only.
OrderingErrorOfOne(layer, position, other) ==
  LET relativeTo == checked[layerIndices[other] + 1]
  IN  Error("Ordering", {relativeTo.path},
            <<[kind |-> "ordering", path |-> layer.path, position |-> position,
               anchor |-> relativeTo.path]>>)

OrderingError(layer, position, other) ==
  LET relativeTo == checked[layerIndices[other] + 1]
  IN  Error("Ordering", {layer.path, relativeTo.path},
            <<[kind |-> "ordering", path |-> layer.path, position |-> position,
               anchor |-> relativeTo.path]>>)

AboveErrors(layer) ==
  {OrderingError(layer, "Above", other) : other \in
     {n \in Expanded(layer, "above") : ~(layerIndices[n] > layerIndices[Name(layer)])}}

\* Mutant: the error has the other position.
BelowErrorsReversed(layer) ==
  {OrderingError(layer, "Above", other) : other \in
     {n \in Expanded(layer, "below") : ~(layerIndices[n] < layerIndices[Name(layer)])}}

BelowErrors(layer) ==
  {OrderingError(layer, "Below", other) : other \in
     {n \in Expanded(layer, "below") : ~(layerIndices[n] < layerIndices[Name(layer)])}}

ConflictErrors(layer) ==
  {Error("Ordering", {layer.path, checked[FirstCopy(other)].path}, <<>>) :
     other \in Expanded(layer, "conflicts") \cup Expanded(layer, "conflictsPerApp")}

\* A list from each of the sets, one after the other.
Concatenations(sets) ==
  LET joined[n \in 0..Len(sets)] ==
        IF n = 0 THEN {<<>>} ELSE {list \o next : list \in joined[n - 1], next \in sets[n]}
  IN  joined[Len(sets)]

\* The order of a FacetMap's elements is unspecified, hence a set of sequences.
OrderingLint ==
  Concatenations([i \in DOMAIN checked |->
                    {above \o below : above \in SetToSeqs(AboveErrors(checked[i])),
                                      below \in SetToSeqs(BelowErrors(checked[i]))}])

-----------------------------------------------------------------------------
(* The linters whose errors cannot be fixed.                               *)

\* Mutant: the first variable that it looks at is not reported.
DisabledByEnvironmentLintHalf ==
  ErrorsAt("DisabledByEnvironment",
           Where(LAMBDA layer : LET details == Details(layer)
                                IN  /\ IsLoaded(layer)
                                    /\ world.store.kind = "Implicit"
                                    /\ details.disableEnvironment \in {""} \cup world.environment),
           "none")

DisabledByEnvironmentLint ==
  ErrorsAt("DisabledByEnvironment",
           Where(LAMBDA layer : LET details == Details(layer)
                                IN  /\ IsLoaded(layer)
                                    /\ world.store.kind = "Implicit"
                                    /\ \/ details.enableEnvironment \notin {""} \cup world.environment
                                       \/ details.disableEnvironment \in {""} \cup world.environment),
           "none")

DuplicatesLint ==
  {Error("Duplicates", copies, <<>>) : copies \in
     {c \in {{checked[i].path : i \in {j \in DOMAIN checked : Name(checked[j]) = name}} :
               name \in Names} : Cardinality(c) > 1}}

\* The loader data of the store's architecture has arrived, without the layer.
NotInLoaderData(layer) ==
  /\ world.store.bitness \in DOMAIN world.loaderData
  /\ Name(layer) \notin world.loaderData[world.store.bitness]

\* Its two errors differ in what they say of the runtime only.
SkippedByLoaderLint ==
  ErrorsAt("SkippedByLoader",
           Where(LAMBDA layer : LET details == Details(layer)
                                IN  /\ world.runtime[64] # "None"
                                    /\ IsLoaded(layer)
                                    /\ IsEnabled(layer)
                                    /\ world.store.kind = "Implicit"
                                    /\ NotInLoaderData(layer)
                                    /\ details.enableEnvironment \in {""} \cup world.environment
                                    /\ details.disableEnvironment \notin world.environment),
           "none")

ProgramFilesLint ==
  ErrorsAt("ProgramFiles",
           Where(LAMBDA layer : /\ IsEnabled(layer)
                                /\ Details(layer).library # {}
                                /\ "ProgramFiles" \notin Details(layer).library),
           "none")

\* Where signatures are not supported, nothing is reported.
UnsignedDllLint ==
  LET Signature(layer) ==
        IF IsEnabled(layer) /\ "exists" \in Details(layer).library
        THEN Details(layer).signature ELSE "NotLookedAt"
  IN  IF \E i \in DOMAIN mLayers : Signature(mLayers[i]) = "NotSupported" THEN <<>>
      ELSE ErrorsAt("UnsignedDll",
                    Where(LAMBDA layer :
                            Signature(layer) \in {"Unsigned", "UntrustedSignature", "Expired"}),
                    "none")

-----------------------------------------------------------------------------
(* RunAllLinters.                                                          *)

Warnings ==
  DuplicatesLint
    \cup (UNION {ConflictErrors(checked[i]) : i \in DOMAIN checked})
    \cup (UNION {ToSet(lint) : lint \in
            {DisabledByEnvironmentLint, SkippedByLoaderLint, ProgramFilesLint,
             UnsignedDllLint}})

\* The linters that find at most one error of each layer.
SimpleResults ==
  {BadInstallationLint, NotADWORDLint, OpenXRToolkitLint, XRNeckSaferLint,
   OutdatedOpenKneeboardLint, ViveLayersLint, UltraleapLastLint}

\* gLinters is ordered by address: the orders that the errors may be in.
FixableErrors ==
  LET results == ({{lint} : lint \in SimpleResults} \cup {OrderingLint}) \ {{<<>>}}
  IN  UNION {Concatenations(order) : order \in SetToSeqs(results)}

Errors ==
  Warnings
    \cup (UNION {ToSet(lint) : lint \in SimpleResults})
    \cup (UNION {AboveErrors(checked[i]) \cup BelowErrors(checked[i]) : i \in DOMAIN checked})

-----------------------------------------------------------------------------
\* What the tab shows after SetAPILayers and a reload.
Reloaded(newLayers) == IF newLayers = mLayers THEN mLayers ELSE Written(newLayers)

NothingClicked == UNCHANGED vars

AllFixed(errors) ==
  Reloaded(FixThem(mLayers, [i \in DOMAIN errors |-> errors[i].fix[1]]))

FixItClicked(error) ==
  /\ error.fix # <<>>
  /\ mLayers' = AllFixed(<<error>>)
  /\ UNCHANGED world

\* The errors that are shown: all, or those of the selected layer.
FixThemClicked(errors, shown) ==
  LET selected ==
        Filtered(errors, {i \in DOMAIN errors : errors[i].affected \cap shown # {}})
  IN  /\ Len(selected) > 1
      /\ mLayers' = AllFixed(selected)
      /\ UNCHANGED world

Init ==
  /\ world \in Worlds
  /\ mLayers \in {key \in Keys : PathsOf(key) \subseteq DOMAIN world.details}

Next ==
  \/ NothingClicked
  \/ \E error \in Errors : FixItClicked(error)
  \/ \E errors \in FixableErrors : \E shown \in {Paths} \cup {{path} : path \in Paths} :
       FixThemClicked(errors, shown)

Spec == Init /\ [][Next]_vars

\* A user who goes on fixing everything at once.
FixAll ==
  \/ \E errors \in FixableErrors : Len(errors) = 1 /\ FixItClicked(errors[1])
  \/ \E errors \in FixableErrors : FixThemClicked(errors, Paths)

FairSpec == Spec /\ WF_vars(FixAll)

-----------------------------------------------------------------------------
(* Properties.                                                             *)

\* The list remains a key, and what LayerSet assumes of errors holds: each is
\* about layers of the list, and a fix is one of those that LayerEdits has.
TypeOK ==
  /\ IsKey(mLayers)
  /\ world \in Worlds /\ PathsOf(mLayers) \subseteq DOMAIN world.details
  /\ \A error \in Errors :
       /\ error.affected # {} /\ error.affected \subseteq PathsOf(mLayers)
       /\ error.fix # <<>> => /\ error.fix[1] \in Fixes
                              /\ error.fix[1].path \in error.affected

\* What the comments of LayerRules.hpp say of a layer's rules: the features that
\* have to be below it or above it, those of its own facets included, and the
\* features that it has.
Features(layer) ==
  {Name(layer)} \cup Details(layer).extensions
    \cup (IF Name(layer) \in DOMAIN Rules THEN Rules[Name(layer)].facets ELSE {})

Demanded(layer, field) ==
  UNION {Rules[id][field] : id \in Features(layer) \cap DOMAIN Rules}

\* The linters leave nothing out: where neither OrderingLinter nor
\* DuplicatesLinter has an error, all enabled layers are in the order that the
\* rules ask for, and no two of them conflict.
NoErrorMeansRulesHold ==
  (\A error \in Errors : error.linter \notin {"Ordering", "Duplicates"}) =>
    \A i, j \in DOMAIN checked : i # j =>
      LET Demands(field) == Demanded(checked[i], field) \cap Features(checked[j]) # {}
      IN  /\ Demands("above") => i < j
          /\ Demands("below") => i > j
          /\ ~Demands("conflicts") /\ ~Demands("conflictsPerApp")

Copies == \E i, j \in DOMAIN checked : i # j /\ Name(checked[i]) = Name(checked[j])

\* "Features that should be above this layer" (LayerRules.hpp:119) and below it:
\* what an ordering error wants the layer to be below or above has such a feature.
ErrorAlwaysNamesDemandedLayer ==
  \A error \in Errors : error.linter = "Ordering" /\ error.fix # <<>> =>
    LET fix == error.fix[1]
        moved == mLayers[FindKey(mLayers, fix.path)]
        anchor == mLayers[FindKey(mLayers, fix.anchor)]
    IN  Demanded(moved, IF fix.position = "Above" THEN "above" ELSE "below")
          \cap Features(anchor) # {}

\* It does where there are no copies of a layer, so that the indices which
\* OrderingLinter counts are those which it uses.
ErrorNamesDemandedLayer == ~Copies => ErrorAlwaysNamesDemandedLayer

\* No layer goes missing without a word: an enabled layer that the loader did
\* not enable is in some error, though SkippedByLoaderLinter leaves out all that
\* it expects other linters to report.
SkippedIsExplained ==
  world.store.kind = "Implicit" /\ world.runtime[64] # "None" =>
    \A i \in DOMAIN mLayers :
      /\ IsEnabled(mLayers[i])
      /\ NotInLoaderData(mLayers[i])
      => \E error \in Errors : mLayers[i].path \in error.affected

\* A fix fixes its error: unless there are copies of a layer, Fix It! changes the
\* list, and what it was clicked for is not reported of the new one.  (An error
\* that asks a layer to be above or below itself cannot be fixed.)
FixItFixes ==
  /\ [](\A error \in Errors :
         (/\ ~Copies
          /\ error.fix # <<>>
          /\ error.linter = "Ordering" => Cardinality(error.affected) = 2)
           => AllFixed(<<error>>) # mLayers)
  /\ [][\A error \in Errors \cap Errors' : FixItClicked(error) => Copies]_vars

\* Rules ask for layer j to be below layer i.
Below(i, j) ==
  \/ Name(checked[j]) \in Expanded(checked[i], "above")
  \/ Name(checked[i]) \in Expanded(checked[j], "below")

\* No order satisfies the rules.
Circular ==
  \E cycle \in SUBSET DOMAIN checked :
    cycle # {} /\ \A i \in cycle : \E j \in cycle : Below(i, j)

\* A layer's own rules ask for it to be above one layer and below another.
Torn ==
  \E i \in DOMAIN checked :
    Expanded(checked[i], "above") # {} /\ Expanded(checked[i], "below") # {}

NothingToFix == FixableErrors = {<<>>}

\* Unless there are copies, no order satisfies the rules, or a layer is torn, Fix
\* Them! does something while there is anything to fix, and not for ever: a user
\* who goes on clicking ends with a list in which there is nothing to fix.
FixThemSettles ==
  /\ [](~(Copies \/ Circular \/ Torn) =>
          \A errors \in FixableErrors \ {<<>>} : AllFixed(errors) # mLayers)
  /\ []<><<FixAll>>_vars => <>[](Copies \/ Circular \/ Torn)

\* "A lint error that can be fixed by reordering layers" (Linter.hpp:48): if some
\* order satisfies the rules, Fix Them! comes to one.
FixThemAlwaysSettles ==
  <>[](NothingToFix \/ Copies \/ Circular)
=============================================================================
