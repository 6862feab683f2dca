---------------------------- MODULE ExplicitStores ----------------------------
(***************************************************************************)
(* The tabs of explicit layers: those in the registry, those in the        *)
(* directories of XR_API_LAYER_PATH, and those named by                    *)
(* XR_ENABLE_API_LAYERS (OverridePathsAPILayerStore.cpp,                   *)
(* EnabledExplicitAPILayerStore.cpp), with what APILayerDetails makes of a *)
(* manifest and what BadInstallationLinter and                             *)
(* ExplicitLayerArchitecturesLinter say of them.                           *)
(*                                                                         *)
(* The last two stores are computed from the first ones and from files.    *)
(* Only a write to a registry key is signalled, and only to the tab of     *)
(* that key: the other tabs stay as they are until Reload List.            *)
(*                                                                         *)
(* As in GUI, others write and signal between the steps of a reload and of *)
(* a lint.  When there is a frame, and which of its tabs is open, is left  *)
(* to GUI: here one frame follows another, and each tab may be open.  So   *)
(* is what an edit does to the tab it is made in.                          *)
(***************************************************************************)
EXTENDS Integers, FiniteSets, SequencesExt

CONSTANTS Paths,           \* of manifests
          NoPath,          \* the empty path
          RegistryStores,  \* the explicit stores of the registry, in order
          Bitness,         \* of each of them, the architecture
          OverridePaths,   \* the places in the directories of XR_API_LAYER_PATH
          Keys,            \* what a registry key may hold
          Manifests,       \* what may be at a path
          Environments,    \* what XR_ENABLE_API_LAYERS may hold
          MaxChanges       \* bound on what others write while the program runs

\* What a file may be: "illTyped" is JSON in which a value has another type than
\* APILayerDetails asks for.
Contents == {"absent", "unreadable", "text", "noLayer", "illTyped", "layer"}

\* WindowsPlatform::GetArchitectures.
Architectures == {"x86", "x64"}

sEnabledExplicit == "XR_ENABLE_API_LAYERS"
sOverridePaths == "XR_API_LAYER_PATHS"
backingStores == <<sOverridePaths>> \o RegistryStores
Stores == {sEnabledExplicit} \cup ToSet(backingStores)

\* The order of their tabs.
tabOrder == <<sEnabledExplicit>> \o backingStores

ASSUME ExplicitStoresAssumption ==
  /\ NoPath \notin Paths
  /\ OverridePaths \in Seq(Paths)
  /\ RegistryStores \in Seq(STRING \ {sEnabledExplicit, sOverridePaths})
  /\ Bitness \in [ToSet(RegistryStores) -> {"x86", "x64"}]
  /\ \A k \in Keys : k \in Seq([path : Paths, value : {"Enabled", "Disabled", "NotDWORD"}])
  /\ \A m \in Manifests : m.content \in Contents
  /\ MaxChanges \in Nat

VARIABLES
  enabledNames,         \* GetEnabledExplicitAPILayers: does not change
  directoriesExist,     \* all that are in XR_API_LAYER_PATH
  files, key,           \* what is at each path, and in the key of each store
  mLayerSets,           \* the stores that have a tab
  mLayers, mLintErrors, \* by tab
  mLayerDataIsStale, mLintErrorsAreStale,   \* the tabs whose flag is set
  pc,                   \* of the main thread
  turn,                 \* the place of the tab whose turn it is
  read,                 \* what GetAPILayers or RunAllLinters has found for it
  changed,              \* the registry stores whose signal is to come
  changes,              \* how many there were
  \* history
  overwritten,          \* tabs whose signal came while they were reloaded
  outdated              \* what tabs show that has changed without a signal

environment == <<enabledNames, directoriesExist, files, key>>
tabs == <<mLayers, mLintErrors>>
flags == <<mLayerDataIsStale, mLintErrorsAreStale>>
mainThread == <<pc, turn, read>>
history == <<overwritten, outdated>>
vars == <<environment, tabs, flags, mainThread, mLayerSets, changed, changes, history>>

-----------------------------------------------------------------------------
(* APILayerDetails.                                                        *)

StateOf == [absent |-> "NoJsonFile", unreadable |-> "UnreadableJsonFile",
            text |-> "InvalidJson", noLayer |-> "MissingData", layer |-> "Loaded"]

\* library: "none" if the manifest has none, "missing" if there is no such file,
\* and else its architecture, or "other" for a file that is no DLL for Windows.
APILayerDetails(path) ==
  LET file == IF path = NoPath THEN [content |-> "absent"] ELSE files[path]
  IN  IF file.content = "layer"
      THEN [state |-> "Loaded", name |-> file.name, library |-> file.library]
      ELSE [state |-> StateOf[file.content], name |-> "", library |-> "none"]

\* nlohmann::json::value and conversions throw, and nobody catches that.
Throws(path) == path # NoPath /\ files[path].content = "illTyped"

GetSharedLibraryArchitectures(library) == {library} \cap Architectures

-----------------------------------------------------------------------------
(* The stores.                                                             *)

\* The constructor: the key is the path, the architectures are the store's.
APILayer(path, value, architectures) ==
  [path |-> path, key |-> path, value |-> value, architectures |-> architectures]

MakeForEnvVar(name, value) ==
  [path |-> NoPath, key |-> name, value |-> value, architectures |-> {}]

RegistryLayers(store) ==
  [i \in DOMAIN key[store] |->
     APILayer(key[store][i].path, key[store][i].value, {Bitness[store]})]

\* By their places, the files that the iteration of the directories yields.
OverrideFiles ==
  Restrict(OverridePaths,
           {i \in DOMAIN OverridePaths : files[OverridePaths[i]].content # "absent"})

OverrideLayers ==
  [i \in DOMAIN OverrideFiles |->
     LET details == APILayerDetails(OverrideFiles[i])
     IN  APILayer(OverrideFiles[i],
                  IF details.name \in ToSet(enabledNames) THEN "Enabled" ELSE "Disabled",
                  GetSharedLibraryArchitectures(details.library))]

BackingLayers(store) ==
  IF store = sOverridePaths THEN OverrideLayers ELSE RegistryLayers(store)

\* The places of the layers of all these stores, in order: of the store, and in it.
installedLayers ==
  UNION {{n} \X DOMAIN BackingLayers(backingStores[n]) : n \in DOMAIN backingStores}

At(place) == BackingLayers(backingStores[place[1]])[place[2]]

LastOf(places) ==
  LET n == Max({place[1] : place \in places})
  IN  <<n, Max({place[2] : place \in {q \in places : q[1] = n}})>>

Matching(name) ==
  {place \in installedLayers : APILayerDetails(At(place).path).name = name}

MergeAll(entry, matches) ==
  IF matches = {} THEN entry
  ELSE [entry EXCEPT !.value = "Enabled", !.path = At(LastOf(matches)).path,
                     !.architectures = UNION {At(place).architectures : place \in matches}]

\* Mutant: any match makes an entry Enabled.
MergeAny(entry, matching) == MergeAll(entry, matching)

\* Mutant: the value is copied from any match.
MergeValue(entry, matching) ==
  IF matching = {} THEN entry
  ELSE [MergeAll(entry, matching) EXCEPT !.value = At(LastOf(matching)).value]

\* Mutant: the architectures are those of the last match.
MergeLast(entry, matching) ==
  LET enabled == {place \in matching : At(place).value = "Enabled"}
  IN  MergeAll(entry, IF enabled = {} THEN {} ELSE {LastOf(enabled)})

\* The loop over the matches: an enabled one adds its architectures, and leaves its
\* path if no other follows.
Merge(entry, matching) ==
  MergeAll(entry, {place \in matching : At(place).value = "Enabled"})

EnabledLayers ==
  [i \in DOMAIN enabledNames |->
     Merge(MakeForEnvVar(enabledNames[i], "EnabledButAbsent"),
           Matching(enabledNames[i]))]

GetAPILayers(store) ==
  IF store = sEnabledExplicit THEN EnabledLayers ELSE BackingLayers(store)

\* directory_iterator throws for a directory that does not exist, and an ill-typed
\* manifest throws in APILayerDetails; both end the program, as GetAPILayers of
\* these two stores is noexcept.
GetAPILayersThrows(store) ==
  /\ store \in {sOverridePaths, sEnabledExplicit}
  /\ \/ ~directoriesExist
     \/ \E i \in DOMAIN OverrideFiles : Throws(OverrideFiles[i])
     \/ /\ store = sEnabledExplicit
        /\ \E place \in installedLayers : Throws(At(place).path)

GetArchitectures(store) ==
  IF store \in ToSet(RegistryStores) THEN {Bitness[store]} ELSE Architectures

-----------------------------------------------------------------------------
(* The linters.                                                            *)

LintError(linter, layer, missing) ==
  [linter |-> linter, key |-> layer.key, path |-> layer.path, missing |-> missing]

\* The reasons of BadInstallationLinter for a layer that is not absent.
IsBroken(layer) ==
  LET details == APILayerDetails(layer.path)
  IN  details.state # "Loaded" \/ details.library \in {"none", "missing"}

BadInstallationLint(layers) ==
  {LintError("NotInstalled", layer, {}) :
     layer \in {l \in ToSet(layers) : l.value = "EnabledButAbsent"}}
  \cup
  {LintError("BadInstallation", layer, {}) :
     layer \in {l \in ToSet(layers) : l.value # "EnabledButAbsent" /\ IsBroken(l)}}

Missing(store, layer) == GetArchitectures(store) \ layer.architectures

ExplicitLayerArchitecturesLint(store, layers) ==
  {LintError("Architectures", layer, Missing(store, layer)) :
     layer \in {l \in ToSet(layers) :
                  /\ l.path # NoPath
                  /\ l.value = "Enabled"
                  /\ Missing(store, l) # {}}}

RunAllLinters(store, layers) ==
  BadInstallationLint(layers) \cup ExplicitLayerArchitecturesLint(store, layers)

-----------------------------------------------------------------------------
(* The tabs.                                                               *)

tab == tabOrder[turn]
NoRead == {}

Init ==
  /\ enabledNames \in Environments
  /\ directoriesExist \in IF OverridePaths = <<>> THEN {TRUE} ELSE BOOLEAN
  /\ files \in [Paths -> Manifests]
  /\ key \in [ToSet(RegistryStores) -> Keys]
  /\ mLayerSets = {}
  /\ mLayers = <<>> /\ mLintErrors = <<>>
  /\ mLayerDataIsStale = {} /\ mLintErrorsAreStale = {}
  /\ pc = "constructing" /\ turn = 1 /\ read = NoRead
  /\ changed = {} /\ changes = 0
  /\ overwritten = {} /\ outdated = {}

IsRunning == pc \notin {"constructing", "terminated"}

\* An exception that nobody catches.
Terminate == pc' = "terminated" /\ UNCHANGED <<read, history>>

\* The constructor of GUI.  The store of XR_ENABLE_API_LAYERS is asked first, and
\* not at all if the tabs are shown ALWAYS.
Construct(always) ==
  /\ pc = "constructing"
  /\ IF ~always /\ GetAPILayersThrows(sEnabledExplicit)
     THEN Terminate /\ UNCHANGED <<tabs, mLayerSets, mLayerDataIsStale>>
     ELSE LET showExplicit == always \/ \E s \in Stores : GetAPILayers(s) # <<>>
          IN  /\ pc' = "check"
              /\ mLayerSets' = IF showExplicit THEN Stores ELSE {}
              /\ mLayers' = [s \in mLayerSets' |-> <<>>]
              /\ mLintErrors' = [s \in mLayerSets' |-> {}]
              /\ mLayerDataIsStale' = mLayerSets'
              /\ UNCHANGED <<read, history>>
  /\ UNCHANGED <<environment, mLintErrorsAreStale, turn, changed, changes>>

\* HasErrors, or Draw, of a tab: ReloadLayerDataNow calls GetAPILayers ...
ReadLayers ==
  /\ pc = "check"
  /\ tab \in mLayerDataIsStale
  /\ IF GetAPILayersThrows(tab) THEN Terminate
     ELSE /\ pc' = "reloading"
          /\ read' = GetAPILayers(tab)
          /\ overwritten' = overwritten \ {tab}
          /\ outdated' = outdated \ {<<tab, "layers">>}
  /\ UNCHANGED <<environment, tabs, flags, turn, mLayerSets, changed, changes>>

\* RunAllLintersNow: the linters look at the manifests of the tab's layers ...
Lint(layers) ==
  IF \E i \in DOMAIN layers : Throws(layers[i].path) THEN Terminate
  ELSE /\ pc' = "linting"
       /\ read' = RunAllLinters(tab, layers)
       /\ outdated' = outdated \ {<<tab, "errors">>}
       /\ UNCHANGED overwritten

\* ... and then clears the flag, which may have been set since.  It sets the other
\* one, so the linters run next.
ReloadLayerDataNow ==
  /\ pc = "reloading"
  /\ mLayers' = [mLayers EXCEPT ![tab] = read]
  /\ mLayerDataIsStale' = mLayerDataIsStale \ {tab}
  /\ mLintErrorsAreStale' = mLintErrorsAreStale \cup {tab}
  /\ Lint(read)
  /\ UNCHANGED <<environment, mLintErrors, turn, mLayerSets, changed, changes>>

CheckLintErrors ==
  /\ pc = "check"
  /\ tab \in mLintErrorsAreStale \ mLayerDataIsStale
  /\ Lint(mLayers[tab])
  /\ UNCHANGED <<environment, tabs, flags, turn, mLayerSets, changed, changes>>

\* HasErrors has returned: it is the next tab's turn, or Draw looks at the flags of
\* the same one again.
TurnEnds == turn' \in {turn, (turn % Len(tabOrder)) + 1}

\* Both flags are clear.
NextTab ==
  /\ pc = "check"
  /\ tab \in mLayerSets \ (mLayerDataIsStale \cup mLintErrorsAreStale)
  /\ TurnEnds
  /\ UNCHANGED <<environment, tabs, flags, pc, read, mLayerSets, changed, changes, history>>

\* ... and that flag is cleared when they are done.
RunAllLintersNow ==
  /\ pc = "linting"
  /\ pc' = "check"
  /\ mLintErrors' = [mLintErrors EXCEPT ![tab] = read]
  /\ mLintErrorsAreStale' = mLintErrorsAreStale \ {tab}
  /\ read' = NoRead
  /\ TurnEnds
  /\ UNCHANGED <<environment, mLayers, mLayerDataIsStale, mLayerSets, changed, changes,
                 history>>

\* Draw follows HasErrors, if the tab is the open one: the button is in every tab.
ReloadListClicked ==
  /\ pc = "check"
  /\ tab \in mLayerSets
  /\ mLayerDataIsStale' = mLayerDataIsStale \cup {tab}
  /\ UNCHANGED <<environment, tabs, mLintErrorsAreStale, mainThread, mLayerSets, changed,
                 changes, history>>

\* mOnLoaderDataSignal, of data that these linters do not use: at first, and whenever
\* some store has changed.
OnLoaderData ==
  /\ IsRunning
  /\ mLintErrorsAreStale' = mLayerSets
  /\ UNCHANGED <<environment, tabs, mLayerDataIsStale, mainThread, mLayerSets, changed,
                 changes, history>>

Change ==
  /\ IsRunning
  /\ changes < MaxChanges
  /\ changes' = changes + 1
  /\ UNCHANGED <<enabledNames, tabs, flags, mainThread, mLayerSets, overwritten>>

\* Of tabs that nobody tells of a change, what it leaves as it was.
Unsignalled(stores, part) == (stores \cap mLayerSets) \X {part}

\* A registry key is written, by another program or (for the other tabs) by an edit.
KeyChanged(store) ==
  /\ Change
  /\ \E k \in Keys \ {key[store]} : key' = [key EXCEPT ![store] = k]
  /\ changed' = changed \cup {store}
  /\ outdated' = outdated \cup Unsignalled({sEnabledExplicit}, "layers")
  /\ UNCHANGED <<directoriesExist, files>>

\* Mutant: the signal reaches the main loop but not the tab.
NotifyChangeSilently(store) ==
  /\ IsRunning
  /\ store \in changed
  /\ changed' = changed \ {store}
  /\ UNCHANGED <<environment, tabs, flags, mainThread, mLayerSets, changes, history>>

\* The slot of the store's tab.
NotifyChange(store) ==
  /\ IsRunning
  /\ store \in changed
  /\ changed' = changed \ {store}
  /\ mLayerDataIsStale' = mLayerDataIsStale \cup ({store} \cap mLayerSets)
  /\ overwritten' =
       IF pc = "reloading" /\ tab = store THEN overwritten \cup {store} ELSE overwritten
  /\ UNCHANGED <<environment, tabs, mLintErrorsAreStale, mainThread, mLayerSets, changes,
                 outdated>>

\* Another program writes a manifest or a library, or removes a directory.
FileChanged(path) ==
  /\ Change
  /\ \E m \in Manifests \ {files[path]} : files' = [files EXCEPT ![path] = m]
  /\ outdated' = outdated \cup Unsignalled({sOverridePaths, sEnabledExplicit}, "layers")
                          \cup Unsignalled(Stores, "errors")
  /\ UNCHANGED <<directoriesExist, key, changed>>

DirectoryRemoved ==
  /\ Change
  /\ OverridePaths # <<>>
  /\ directoriesExist
  /\ directoriesExist' = FALSE
  /\ outdated' = outdated \cup Unsignalled({sOverridePaths, sEnabledExplicit}, "layers")
  /\ UNCHANGED <<files, key, changed>>

Next ==
  \/ \E always \in BOOLEAN : Construct(always)
  \/ ReadLayers \/ ReloadLayerDataNow \/ CheckLintErrors \/ RunAllLintersNow
  \/ NextTab \/ ReloadListClicked
  \/ OnLoaderData
  \/ \E s \in ToSet(RegistryStores) : KeyChanged(s) \/ NotifyChange(s)
  \/ \E path \in Paths : FileChanged(path)
  \/ DirectoryRemoved

Spec == Init /\ [][Next]_vars

-----------------------------------------------------------------------------
(* Properties.                                                             *)

\* The values that the layers of a store may have.
ValuesOf(store) ==
  CASE store = sEnabledExplicit -> {"Enabled", "EnabledButAbsent"}
    [] store = sOverridePaths -> {"Enabled", "Disabled"}
    [] OTHER -> {"Enabled", "Disabled", "NotDWORD"}

\* The members of the tabs and the layers of each store keep their types: only the
\* store of XR_ENABLE_API_LAYERS has absent layers, and it has no disabled ones.
ExplicitTypeOK ==
  /\ pc \in {"constructing", "check", "reloading", "linting", "terminated"}
  /\ turn \in DOMAIN tabOrder
  /\ mLayerSets \in {{}, Stores}
  /\ changed \subseteq ToSet(RegistryStores) /\ overwritten \subseteq mLayerSets
  /\ outdated \subseteq mLayerSets \X {"layers", "errors"}
  /\ mLayerDataIsStale \subseteq mLayerSets
  /\ mLintErrorsAreStale \subseteq mLayerSets
  /\ DOMAIN mLayers = mLayerSets /\ DOMAIN mLintErrors = mLayerSets
  /\ \A s \in mLayerSets : \A i \in DOMAIN mLayers[s] :
       /\ mLayers[s][i].value \in ValuesOf(s)
       /\ mLayers[s][i].architectures \subseteq Architectures
       /\ mLayers[s][i].path \in Paths \cup {NoPath}
       /\ mLayers[s][i].path = NoPath <=> mLayers[s][i].value = "EnabledButAbsent"

\* Nothing is asked for or on its way, and nothing that tabs show was overtaken by
\* what changed without a signal or was signalled during a reload.
Settled ==
  /\ IsRunning
  /\ mLayerDataIsStale \cup mLintErrorsAreStale = {}
  /\ changed \cup overwritten = {}
  /\ outdated = {}

\* An application of the architecture finds the layer, by a manifest that the
\* program would find as well, and its library.
Available(name, architecture) ==
  \E store \in ToSet(backingStores) : \E i \in DOMAIN BackingLayers(store) :
    LET layer == BackingLayers(store)[i]
    IN  /\ layer.value = "Enabled"
        /\ architecture \in layer.architectures
        /\ APILayerDetails(layer.path).name = name
        /\ ~IsBroken(layer)

\* An error, in any tab, about the name or about a manifest that has it.
IsMentioned(name) ==
  \E s \in mLayerSets : \E error \in mLintErrors[s] :
    error.key = name \/ APILayerDetails(error.path).name = name

\* Each layer of XR_ENABLE_API_LAYERS is available to applications of every
\* architecture, or some tab has an error about it: the tab of the variable shows
\* one manifest of several, and the others are left to other tabs.
NothingBrokenGoesUnsaid ==
  Settled /\ mLayerSets # {} =>
    \A i \in DOMAIN enabledNames : \A architecture \in Architectures :
      \/ Available(enabledNames[i], architecture)
      \/ IsMentioned(enabledNames[i])

\* What the tab of XR_ENABLE_API_LAYERS says of a name is so: a layer that is "not
\* installed" is available to nobody, and an architecture that is said to be
\* missing has no copy of it.
AbsenceIsReal ==
  Settled /\ mLayerSets # {} =>
    \A error \in mLintErrors[sEnabledExplicit] :
      /\ error.linter = "NotInstalled" =>
           \A architecture \in Architectures : ~Available(error.key, architecture)
      /\ error.linter = "Architectures" =>
           \A architecture \in error.missing : ~Available(error.key, architecture)

\* What a tab shows and what is so part in no more ways than these.  A registry store
\* was written: its tab is told, and is told in vain if it is just being reloaded, for
\* the flag is cleared after the read.  What the layers of the two computed stores, or
\* the errors of any tab, were found in was written, and nobody is told; errors are
\* outdated by files only, as their layers are the tab's own.  No other order of writes,
\* signals, loader data, reloads and lints leaves a tab old with its flags clear.  (For
\* edits, which change mLayers in place, see LayersAreFollowed in GUI.)
SignalledTabsAreCurrent ==
  \A s \in mLayerSets :
    /\ \/ s \in mLayerDataIsStale \cup changed \cup overwritten
       \/ <<s, "layers">> \in outdated
       \/ mLayers[s] = GetAPILayers(s)
    /\ \/ s \in mLintErrorsAreStale
       \/ <<s, "errors">> \in outdated
       \/ mLintErrors[s] = RunAllLinters(s, mLayers[s])
=============================================================================
