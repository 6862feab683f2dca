# A TLA+ model of OpenXR API Layers GUI

OpenXR API Layers GUI shows and edits the OpenXR API layers that are registered
on a Windows computer, warns of problems that it knows of, and can fix some of
them. This directory models the parts of it that keep state, that run
concurrently or that write to the registry; TLC checks them on small instances,
and TLAPS proves some of the results for every instance.

Source paths below are relative to `src/` in the repository.

## 1. Inventory

### The parts of the program

| Part | Source | State | Operations |
|---|---|---|---|
| Main loop | `windows/WindowsPlatform.cpp:208-257` | `mWindowClosed`, `mNewFrameEvent`, the subscriptions to the stores | messages, a frame, the wait for the event or input |
| Loader-data thread | `windows/WindowsPlatform.cpp:728-997` | `mLoaderDataIsStale`, `mLoaderData`, `mLoaderDataCondition`, under `mMutex`; `mLoaderDataThread`, `mLoaderDataJob` | `GetLoaderData`, `WaitForLoaderData`, `EnsureLoaderDataThread`, `LoaderDataThreadMain`, `SpawnLoaderData`, `LoaderDataProcess::Wait` |
| Loader-data helper | `LoaderDataMain.cpp`, `LoaderData.cpp` | none (a process per architecture) | queries the OpenXR loader, prints JSON |
| Change signals | `APILayerStore.hpp`, `windows/WindowsAPILayerStore.cpp:68-71` | the connected slots | `OnChange`, `NotifyChange`, on a thread-pool thread |
| Windows layer store | `windows/WindowsAPILayerStore.cpp` | a registry key, `mHaveBackup` | `GetAPILayers`, `SetAPILayers`, `BackupAPILayers` |
| Explicit stores | `EnabledExplicitAPILayerStore.cpp`, `OverridePathsAPILayerStore.cpp` | none: computed from environment variables, files and the explicit keys, at each call | `GetAPILayers`, `GetArchitectures` |
| Tabs | `GUI.cpp`, class `GUI::LayerSet` | `mLayers`, `mSelectedLayer`, `mLintErrors`, `mLayerDataIsStale`, `mLintErrorsAreStale`; ImGui keeps the popup and the drag | every widget, `HasErrors`, `Draw`, `ReloadLayerDataNow`, `RunAllLintersNow` |
| Linters | `Linter.cpp`, `linters/` | none | `Lint`, and `Fix` of the fixable errors |
| Ordering rules | `LayerRules.cpp`, `linters/OrderingLinter.cpp` | none | expansion of facets to layers, ordering errors |
| Manifests | `APILayerDetails.cpp` | none | reads a layer's JSON file |
| Report | `SaveReport.cpp` | none | formats everything, waits up to ten seconds for loader data |
| Updater | `windows/CheckForUpdates.cpp`, `windows/WindowsPlatform.cpp:294-301` | `mUpdater`: the updater's job and completion port, `mHaveActivatedWindow`; `mFrameCounter` | starts the updater, looks for its window, activates it |
| Window, Direct3D, fonts, DPI | `windows/WindowsPlatform.cpp` | handles of the operating system | set-up, resize |

### How they interact

Four kinds of thread share memory. The *main thread* runs `MainLoop`, which
draws a frame whenever `mNewFrameEvent` is set or there is input; the frame
draws the tabs, which call the stores, the linters and `GetLoaderData`. The
*watchers' threads* run `NotifyChange` when a registry key was written, by this
program or another; the slots set a tab's `mLayerDataIsStale` and, for
`MainLoop`, mark the loader data stale, notify the condition variable and set
the event. The *loader-data thread* sleeps until the data is stale, runs one
*helper process* per architecture, publishes what they print, notifies, calls the
slots that set the tabs' `mLintErrorsAreStale`, and sets the event. Outside the
program, *other programs* write the same registry keys at any time.

The *updater* runs in a job of its own, and may start further processes there
and terminate the program; the main thread hears of them through the job's
completion port, which it reads once in sixty frames. Manifests, libraries and
the directories of `XR_API_LAYER_PATH` are read whenever a tab is reloaded or
linted, and nothing tells when they change.

`mLoaderDataIsStale` and `mLoaderData` are under `mMutex`. The flags of the tabs
are plain `bool`s that three threads write without a lock: the models treat each
access as a step of its own, which is what the compiler makes of them on x86.

### What is hard

- *Wake-ups*: a condition variable with two waiters and two notifiers, and an
  event that a frame resets. A lost wake-up is a screen that stays old.
- *Overtaking*: a change of the registry while helpers run.
- *The end*: the destructor relies on the order of two members to kill the
  helpers before it joins the thread that waits for them.
- *Flags cleared late*: `ReloadLayerDataNow` and `RunAllLintersNow` clear their
  flag when they are done, so a request that comes meanwhile is dropped.
- *A write that is many registry calls*, with other programs between them, or
  the end of the process.
- *References that outlive a frame*: the selected layer under the popup, the
  index in a drag's payload.
- *Fixes in a row*: Fix Them! applies fixes that were computed for the list that
  the first of them changes, and each click may undo the one before it.
- *Stores computed from stores*: the layers of XR_ENABLE_API_LAYERS come from
  five other stores, several manifests may have the same name, and each tab says
  only part of what is wrong.
- *Exceptions where nobody catches*: a directory that is missing, JSON of another
  type, a read-only tab that is asked for the store to write to.
- *Another process that does what it wants*: the runtime changes the helper's
  environment between two looks at it, layers are installed between the call that
  counts them and the one that lists them, and the job of the updater may lose
  messages.
- *Rules through rules*: an order is asked for in terms of extensions and facets,
  and what is reported of a layer may be left to another linter.

`PROJECT.json` lists every hazard at its line, with the properties that are
about it or the reason why there is none.

### What makes each part correct

- Main loop and loader-data thread: no lost wake-up (`NoLostNotify`), no result
  that was overtaken (`FreshWhenSettled`), no stale screen (`NoStaleScreen`,
  `EventuallyShown`), helpers killed before the join (`KilledBeforeJoin`,
  `CloseExits`).
- Tabs: flags that lead to frames (`NoFlagLeftAsleep`), layers that are old only
  while that is known (`LayersAreFollowed`), errors about the layers that are shown
  or about to be reloaded (`ErrorsAreAboutLayers`), content that becomes current
  (`EventuallyCurrentOrOverwritten`), widgets that act on what the store holds
  (`InSync`), no dangling selection or drag (`TerminatesOnlyIfDisturbed`), edits
  that do what their label says (`OneLayerPerClick`, `DropLandsOnTarget`,
  `FixesLoseNothing`).
- Linters and rules: nothing wrong goes unsaid (`NoErrorMeansRulesHold`,
  `SkippedIsExplained`), errors are about the right layers
  (`ErrorNamesDemandedLayer`), fixes mend what they are offered for
  (`FixItFixes`), and fixing ends (`FixThemSettles`).
- Store: a write is atomic but for crashes (`ImplementsAtomicStore`), nothing is
  deleted that was not backed up (`SavedBeforeDeleted`), interference stays
  local (`OnlyTouchedDiffer`).
- Explicit stores: between them the tabs mention every layer that applications
  would not get (`NothingBrokenGoesUnsaid`), what is said to be absent is absent
  (`AbsenceIsReal`), and only changes without a signal, or with one that comes while
  the tab is reloaded, leave a tab out of date (`SignalledTabsAreCurrent`).
- Loader data: a layer is said to be blocked if and only if the runtime blocks it
  (`BlockedByRuntime`), and to be skipped only if it was (`SkippedWasNotListed`);
  a report keeps what is not about XR to itself (`ReportIsCensored`).
- Updater: one start and one interruption (`OnceOnly`), nothing left suspended
  (`NothingLeftSuspended`), a search that ends (`LookingEnds`).

## 2. Modules

```
WindowsPlatform <-- GUI <-- GUIProofs

LayerEdits <-- AtomicStore, LayerStore, LayerSet     LayerRules, LayerEdits <-- Linters
LayerEdits <-- LayerEditsProofs <-- LayerStoreProofs, LayerSetProofs, LintersProofs

ExplicitStores <-- ExplicitStoresProofs
LoaderData <------ LoaderDataProofs
Updater <--------- UpdaterProofs
```

An arrow goes from a module to the one that it extends; a `*Proofs` module extends
the one of its name. LayerStore has an instance of AtomicStore, for the
refinement.

**WindowsPlatform** has one action per critical section or system call of the
main loop, the watchers' callbacks and the loader-data thread. What a helper
prints is the *version* of the registry when it read it, so that "up to date" is
a comparison of numbers; an architecture that failed has an entry as well, as in
the code. `wait(lock, token, predicate)` is `BeginFetch`, `StopLoader` and
`SleepLoader`: the predicate decides even after a stop request. The destructor
is `CloseJob`, `RequestStop`, `Join`, in reverse order of declaration.

**GUI** puts the tabs inside the frames of WindowsPlatform: its next-state
relation conjoins actions of WindowsPlatform with the LayerSets' part of them.
A tab's layers are a version as well. Each read of a flag, the read of the store
and the assignment of the result are steps of their own, as the watchers and the
loader-data thread write the flags in between. `SetAPILayers` returns TRUE for an edit
that changes the key, and FALSE if the key already holds the edited list, because
another program made the same change and the tab was not reloaded since. A checkbox
and Enable or Disable edit `mLayers` before the call and set flags only after TRUE:
with FALSE, the tab has the new layers and the errors of the old ones, until the
change of the other program is handled. As `SetAPILayers` normalises values, an edit in
place may leave `mLayers` at a list that the key never holds (`Edited`). Saving a report and closing
the window are left to WindowsPlatform. `byUser` and `overwritten` are history
variables: which flags are due to a click on Reload List, and which requests
were made while one like them was being served.

**LayerEdits** has no state: the edits of the buttons and the fixes of the
linters as operators on sequences of layers, and a registry key as the list that
enumeration yields. A layer is a path and one of the values `Enabled`,
`Disabled` and `NotDWORD`. (`EnabledButAbsent` is only in read-only stores, see
ExplicitStores.)

**LayerSet** is one tab, read-write or not, with all its widgets. A frame is a reload, if
one was asked for, and then at most one widget. The pointer `mSelectedLayer` is
an index or 0. The tab of a read-only store has the same list, with drag and drop,
but no edits; its store changes without a signal. A drag may have begun in
another tab, of which only the index in its payload matters. Fixes come from the constant `LintFixes`: any list of them that
is about layers of `mLayers`. A dereference of a null selection, an index out of
range and `GetReadWriteStore` without such a store lead to `terminated`. `disturbed` is a history variable: the store came
to differ from `mLayers` by something else than a widget that asks for a reload.

**LayerRules** has the table of rules as it is in `LayerRules.cpp`, and its
expansion to the layers that are there: passes of `ExpandFacets` until nothing
changes, as a recursive function, and the rules that a layer has through its
facets. The traces, which are only shown, are left out.

**Linters** has what each linter finds in the list of a read-write tab, as a
sequence of errors with the paths that they affect and their fix; a manifest is
reduced to what linters compare. A filtered view is a function of the places that
it keeps (`Filtered`), and most linters are one error for each place (`ErrorsAt`). A click on Fix It! or Fix Them! is one step:
the fixes, the write and the reload, as LayerSet has them one by one. `gLinters`
is ordered by address and a `FacetMap` has no specified order: the model fixes
errors in any order of the linters and of one layer's ordering errors, and may take
another one at every click, which includes what any build does.

**LayerStore** is `SetAPILayers` one registry call at a time: two enumerations
by index, the deletions, and the writes. **AtomicStore** is what its callers
count on: where nobody interferes with a call it is a single step, and once
somebody has, only the next call is promised anything. LayerStore implements it,
with other programs writing at any point, under the refinement mapping `Atomic`,
which takes the key to be the old list until the call returns or is interfered
with.

**ExplicitStores** has the two computed stores over any number of explicit keys,
the tabs of all of them, and the two linters that tell explicit layers apart. A
manifest is what `APILayerDetails` finds: no file, no JSON, JSON without a layer,
JSON of the wrong types, or a name and a library with its architecture. The tabs
have their turns as in a frame. `ReadLayers` is the read of the store;
`ReloadLayerDataNow` the assignment, the clearing of the flag and the linters' look at
the manifests; `RunAllLintersNow` the assignment and the clearing of the other flag.
Writes, signals and loader data come between them. (What is a step here and several
in GUI only sets flags, or uses a tab's own layers, and so could be done in any
order.) Signals follow the writes of keys: `changed` has those that are to come. What
an edit does to its own tab is in GUI and LayerSet; here a key may be written at any
time. Where the code throws and nobody catches, the state is `terminated`. There are
two history variables: `outdated`, what tabs show that has changed without a signal
since it was read, and `overwritten`, the tabs that were signalled during a reload.

**LoaderData** is one helper, call by call: the two-call enumerations, the two
copies of the environment, JSON, `Wait`, and what `SkippedByLoaderLinter` and the
report make of it. Layers and extensions may be installed or removed between any
two calls, and the first enumeration of extensions, which loads the runtime, may
leave any environment. `to_json` writes the result for layers in the place of that
for extensions, as the code does.

**Updater** is the main thread's part of an update, the processes of the job, and
the completion port as a queue that may lose messages. What happens before
`ResumeThread` is one step, as the updater cannot take part yet; each failure of
it is a step of its own.

**MC...** modules declare model values and symmetry for TLC.

The operators marked as mutants stand for plausible mistakes in the code; each
property is violated when one of them replaces the definition it stands beside.

## 3. What is checked

| Run | Instance | Shows |
|---|---|---|
| `WindowsPlatform` | 2 architectures, 1 store, 1 change, helpers may hang, fair | `TypeOK`, `FreshWhenSettled`, `NoLostNotify`, `NoStaleScreen`, `KilledBeforeJoin`, `EventuallyShown`, `CloseExits` |
| `GUI` | 1 architecture, 2 stores, 1 tab, 1 change, fair | `GUITypeOK`, `NoFlagLeftAsleep`, `LayersAreFollowed`, `ErrorsAreAboutLayers`, `EventuallyCurrentOrOverwritten` |
| `GUIRequestLost` | 1 architecture, 1 store with a tab, 1 change, fair | a violation of `EventuallyCurrent` (section 6) |
| `LayerStore` | 2 paths, 2 writes by others at any point, 1 restart | `TypeOK`, `SavedBeforeDeleted`, `OnlyTouchedDiffer`, `ImplementsAtomicStore` |
| `LayerSet` | 3 paths, 1 change by others, 2 fixes at a time, read-write or not | `TypeOK`, `InSync`, `TerminatesOnlyIfDisturbed`, `OneLayerPerClick`, `DropLandsOnTarget`, `FixesLoseNothing` |
| `LayerSetReadOnly` | the same | a violation of `ReadOnlyTabsKeepOut` (section 6) |
| `Linters` | 3 or 4 layers of the rules' table, every list of them | `TypeOK`, `NoErrorMeansRulesHold`, `ErrorNamesDemandedLayer`, `SkippedIsExplained`, `FixItFixes`, `FixThemSettles` |
| `LintersTorn` | 3 layers, one of them between the others, fair | a violation of `FixThemAlwaysSettles` (section 6) |
| `LintersCopies` | 3 layers, two of them copies | a violation of `ErrorAlwaysNamesDemandedLayer` (section 6) |
| `ExplicitStores` | 2 explicit keys of different bitness, 2 manifests in each of 5 states, 1 change | `ExplicitTypeOK`, `NothingBrokenGoesUnsaid`, `AbsenceIsReal`, `SignalledTabsAreCurrent` |
| `Updater` | 3 processes, a look every 3 frames | `UpdaterTypeOK`, `OnceOnly`, `NothingLeftSuspended`, `LookingEnds` |
| `LoaderData` | 2 layers, 1 extension, 2 variables, 2 changes | `LoaderDataTypeOK`, `BlockedByRuntime`, `SkippedWasNotListed`, `ReportIsCensored` |

**Bounds.** `MaxChanges` counts writes to the registry: with the first fetch of
the program under way, one more write is enough for a result that is overtaken.
Two architectures are needed for a fetch of which one helper is assigned to the
job and the other is not. What further stores and changes do to the five
invariants of WindowsPlatform is left to their proofs, which are for any number.
A tab only interacts with another through the loader data, so one tab, and a
store without one, have every interleaving of the flags. One change is enough for an
edit that is in the key already: another program writes it, and it is made in the tab
before the watcher is heard. Two writes by other
programs are enough for a value that is deleted and set again, and for one before
and one during a call; one restart is enough for a backup that is begun anew.
Three layers are what Move Up, a drag across a layer, and a fix with an anchor
need, as every edit moves one layer relative to one other. `MCForeignKeys` are
the lists that another program may leave in LayerSet: one layer only, another
order, or a value that is no DWORD. `MaxErrors = 2` has every pair
of fixes in both orders: a fix only interferes with the next by what it did to
the list.

The run of ExplicitStores starts with any of three lists in each of two explicit keys,
and two manifests, absent, of the wrong types, broken, or for one architecture or the
other, of which the second is in a directory of XR_API_LAYER_PATH as well: two
manifests of one name, one good and one broken, or for one architecture each, are
among them, and so is a manifest that is enabled in one key and no DWORD in the other.
One change after that is what may not be signalled, or be signalled before the read,
between the read and the clearing of the flag, or after it. With a variable that is
not set and no other explicit layers there are no tabs. The program may also start
while the directory is missing. In LoaderData, two changes are one
before the call that counts and one before the call that fills; one layer has a
variable that disables it, the other has none. In Updater, three processes are an
updater, one that outlives it, and one that has exited already; `FramesPerCheck`
is 60 in the code, and three let other things happen before, between and after.

The runs of Linters begin with every list of the layers of a *world*, with any
values. The worlds are chosen from the table: rules about a name, about an
extension and about a facet, alone, in chains of three or four layers and against
each other, a conflict, copies of a layer, and for each other linter a layer that
it is about, under an environment, a runtime, an architecture and a hive that it
tells apart. A rule relates two layers, and a third shows what a fix does to
what it was not meant for.

**Deadlock** is checked everywhere but in four runs: in `WindowsPlatform` a
helper that hangs and is not in the job stops the program at the join; in
`ExplicitStores`, `Updater` and `LoaderData` the program or the helper ends, and
nothing is modelled after that.

**Fairness.** Weak fairness of each watcher's callback and of each thread: the
operating system schedules runnable threads, and every wait in them is a step
that is only enabled when the wait is over. Weak fairness of a helper's exit:
a helper ends unless it hangs, which it may do where `HelpersMayHang`. `Frame` and
`WakeByEvent` are fair, input is not: nobody has to move the mouse or to close
the window, and the registry does not have to change. The time-out of a report's
wait is fair, as time passes. Nobody has to click on Fix Them!: `FixThemSettles`
says of a user who does so for ever that the layers are torn or cannot be put in
order, and so needs no fairness. `LintersTorn` assumes a user who goes on
clicking, as it is about what that leads to. In the same way `LookingEnds` assumes
no fairness: it is about a program that goes on drawing frames, and nobody has to
give it input.

## 4. What is proved

The modules `*Proofs.tla` hold proofs that TLAPS checks, for every value of the
constants. Every invariant and action property of the passing runs is proved, and
the refinement of AtomicStore; what is left is liveness. Each theorem rests on an
inductive invariant, as a property is seldom kept by every step on its own.

**Main loop and loader-data thread** (`GUIProofs`): `TypeCorrect`,
`Freshness`, `Notification`, `Screen`, `JobKilled`, of every behaviour of
WindowsPlatform. `Freshness` needs to know which
data each stage of a fetch may hold, relative to `handled`, the version at the last
change that was handled: the flag is set, or what is being collected is no older.
`Screen` needs to know for each state of the main thread that either what was drawn
is what `GetLoaderData` returns, or something that sets the event is on its way.
`JobKilled` follows from the fact that a process joins the job only while it is
open.

**Tabs and frames** (`GUIProofs`): `GUIImplementsWindowsPlatform` says that every
behaviour of GUI is one of WindowsPlatform, so that the theorems above hold of the
program with its tabs. `GUITypeCorrect` uses it for the types of the platform.
`LayersFollowStore` and `ErrorsFollowLayers` are about `LayersAreFollowed` and
`ErrorsAreAboutLayers`. `CopiesInv` is these two and a third part, that between the
read of a store and the assignment of what was read, only a change that is on its way
or whose request will be overwritten makes it old. `FlagsAreServed` is
`NoFlagLeftAsleep`, which says nothing of the frame in which flags are served; its
invariant `FlagsInv` does: `FrameComing` (something that wakes the main loop is
under way, or a frame is about to begin, with all tabs to visit), or each tab is
`Served`: its turn is to come, or its check has yet to read the flag, or nothing is
left of its flags but what Reload List asked for. Only `BeginFrame` takes
`FrameComing` away, and then every turn is to come.

**Edits** (`LayerEditsProofs`) has the lemmas about lists that the next three rest on:
where `find` finds a layer, what `erase` and `insert` leave at each place, that
every edit of a list without doubled paths is one without doubled paths, and that
Move Up, Move Down, a drop and an ordering fix are all the same operation: one layer
is taken out and put elsewhere (`Moved`). `DragDropReorderAssertions` is about the
two `assert`s of `DragDropReorder` (`GUI.cpp:718, 724`), for every list, source and
target. Fix Them! and Add Layers are recursive functions over the errors and the
paths; what they keep is proved by induction on the number that were applied, from
the set of numbers for which it holds (`Induction`).

**One tab** (`LayerSetProofs`):
- `Sync` is `InSync`. `SyncInv`: unless `disturbed`, `mLayers` is the key, or a
  reload has been asked for that the next frame begins with.
- `LayerSetTypeCorrect` is `TypeOK`, of which the part that may go wrong is that no
  list ever has a path twice: it follows from the lemmas about each edit.
- `GesturesAreSafe` is `TerminatesOnlyIfDisturbed`. `GestureInv`: a popup and a drag
  exclude one another, so no edit comes between the beginning and the end of either;
  while the store does not change behind the tab's back, `mLayers` is the key all
  along, and the selection and the index outlive every reload.
- `ClicksAreLocal`, `DropsLand` and `FixesKeepLayers` are the action properties
  `OneLayerPerClick`, `DropLandsOnTarget` and `FixesLoseNothing`, from the invariants
  above and the lemmas; normalising the values and leaving out a layer do not
  disturb one another (`WrittenWithout`).

**Store** (`LayerStoreProofs`), for every list that is written, every other writer,
crash and restart:
- `StoreTypeCorrect` is `TypeOK`.
- `Saved` is `SavedBeforeDeleted`, by `SavedInv`: while the backup is made, what lies
  behind the index is in the list that will be saved; once it was made, all that is
  in the key is in a backup, or was set or missed since.
- `OnlyDisturbedDiffer` is `OnlyTouchedDiffer`, by `DifferInv`, which says how far
  the call has come: what it has read, what is left to delete, what it has set.
- `StoreIsAtomic` is `ImplementsAtomicStore`. `AloneInv`: where nobody interferes, the
  key is the old list, then the end of the old list, then the beginning of the new
  one; each step maps to one of AtomicStore, or to a stutter.

**Linters and rules** (`LintersProofs`), for every table of rules, every list of
layers and every world. The list changes only by fixes, and the invariant is small:
`LintersInv`, the list is a key and each of its layers has a manifest. The rest is
about what linters find in such a list.
- `ExpandFacetsAssertion`: whatever the rules are, the first pass of `ExpandFacets`
  turns every facet into layers and the second changes nothing, so the loop ends and
  the `assert` after it (`linters/OrderingLinter.cpp:55`) holds. It rests on the
  three kinds of ids being apart.
- `LintersTypeCorrect` is `TypeOK`. `ErrorKinds` sorts all errors into four: about
  one layer, Ultraleap's, about an order, and those that cannot be fixed; the
  induction over the errors that Fix Them! applies is in LayerEditsProofs.
- `RulesHold` is `NoErrorMeansRulesHold` and `ErrorsNameDemanded` is
  `ErrorNamesDemandedLayer`. `ExpandedIsDemanded`: without copies, a layer is in an
  expanded rule if and only if it has a feature that is asked for;
  `IndicesArePlaces`: without copies, `layerIndices` are the places in the filtered
  list that they are used as. Copies are an error of their own (`CopiesAreReported`).
- `SkippedExplained` is `SkippedIsExplained`, by the linter that each early return of
  SkippedByLoaderLinter relies on.
- `FixItAlwaysFixes` is `FixItFixes`. `Unfixed` says of a list and a fix that what the
  fix is for is still so: the layer is there, not disabled, not last, or on the wrong
  side of the other. Whatever is reported is unfixed (`ErrorsAreUnfixed`), and is not
  after the fix (`FixFixes`) and the write (`WrittenFixed`); and as a fix enables
  nothing, it makes no copies for which this would not hold (`CopiesWereThere`).

**Explicit stores** (`ExplicitStoresProofs`): `ExplicitTypeCorrect`,
`SignalledAreCurrent`, `NothingGoesUnsaid`, `AbsentIsAbsent`. The invariant
`ExplicitInv` has `SignalledTabsAreCurrent`, the types, and `ReadIsCurrent`: the flag of
the tab that is reloaded or linted stays set until what was read is shown, and what was
read is as current, until then, as the property says of what is shown. The last two theorems are then facts about what linters find
in lists that were computed from one another: the layers of XR_ENABLE_API_LAYERS are
merged from all copies of a name, and a copy that is broken is in another tab.

**Loader-data helper** (`LoaderDataProofs`): `HelperTypeCorrect`,
`BlockedIsByRuntime`, `SkippedWasSkipped`, `ReportsAreCensored`. `HelperInv` follows
the helper's calls: names are only there once they were asked for and not of a layer
that a variable disables; the runtime's variables are those of the second look
without those of the first; what the program reads back is that, with one result in
the place of another.

**Updater** (`UpdaterProofs`): `UpdaterTypeCorrect`, `Once` and `AllResumed`, for every
set of processes and every interval between two looks. `OnceInv`: before the optional
has a value nothing was started and the main thread is at the top of a frame, and a
search is only under way if no window was activated.

**Assumptions.** The proofs assume what the modules assume of their constants, by
name, and nothing else:
- bounds are natural numbers, `LayerSets` is a non-empty subset of `Stores`,
  `LintFixes` and `ForeignKeys` are among the fixes and the lists that there are;
- `KindsAssumption` and `WorldsAssumption`: a facet knows its kind, so that an id of a
  layer, of an extension and of an explicit facet are never the same, and only layers
  have facets; manifests are of paths that there are;
- `PathsAssumption`: finitely many paths, as every key is a finite list of them; it
  bounds the index in a drag's payload;
- `ExplicitStoresAssumption`: keys, manifests and directories are what the code may
  find, and a key's display name is not that of one of the two computed stores;
- `LoaderDataAssumption`: a layer has one variable that disables it, or none;
- `UpdaterAssumption`: the updater is one of finitely many processes.

**Only model-checked** is liveness, which is out of the prover's reach:
`EventuallyShown`, `CloseExits`, `EventuallyCurrentOrOverwritten`, `LookingEnds` and
`FixThemSettles`. The last has an invariant as its first half, that Fix Them! does
something while there is anything to fix. That is a fact about fixes in a row, which
may undo each other; TLC finds it to hold of the program's table of rules, and whether
it does of every table is open. What is proved of fixes in a row is that they leave a key
(`LintersTypeCorrect`) and lose no layer but those
that an error asks to remove (`FixesKeepLayers`).

## 5. What is not modelled

- The registry calls of `SetAPILayers` succeed, as do those of the watcher; the
  code ignores their results.
- The names of values are distinct and compared by case. (The registry ignores
  case, `GUI.cpp:603` does not.)
- In LayerSet, what linters find: `LintFixes` is any set of fixes, and `TypeOK` of
  Linters says that what linters find is among those that LayerSet allows for.
- In ExplicitStores, the other linters: they are in Linters, and leave explicit
  layers alone or treat them as any other. Duplicate copies of a path in one
  directory, links and subdirectories; the case of an extension. The texts: an
  architecture error is a set of architectures.
- In LoaderData, what a layer needs besides its variable: the linter passes over
  layers that are disabled, not loaded or that need a variable, which
  `SkippedIsExplained` is about. Names are compared as they are.
- In Updater, windows that are hidden: `EnumWindows` finds them too, and
  SetForegroundWindow is called for them; the name `ActivateWindowIfVisible`
  suggests another thing, but what Windows does then is not modelled.
- The texts of the report, its runtimes and its layers. (Two lines of it differ
  from what they seem to mean: `SaveReport.cpp:168` has no place in its format for
  the runtime's name, and `LoaderData.cpp:22` makes it show the wrong result for the
  extensions.)
- Signals after the LayerSets are destroyed, at the end of the program.
- The data race on `mLoaderDataJob` between its creation and the destructor is an
  atomic assignment.
- The rest of the inventory's parts: see `components` in `PROJECT.json`.

## 6. Disagreements with the repository's comments

`GUI.hpp:77-80` says to set `mLayerDataIsStale` or `mLintErrorsAreStale` rather
than to call `ReloadLayerDataNow` or `RunAllLintersNow`: the flags are requests.
`GUIRequestLost` shows that they may be lost:

- the linters run while the loader data is pending (`GUI.cpp:594`); the data
  arrives and its slot sets the flag; the flag is cleared (`GUI.cpp:595`). The
  warnings about skipped layers do not appear;
- likewise, a tab reads its store (`GUI.cpp:569`); another program writes the
  store and the watcher sets the flag; the tab clears it (`GUI.cpp:579`). The
  event wakes the main loop, which draws the old layers.

The run `GUI` shows that these are the only ways for a tab to stay old, other than
the click on Reload List, which waits for the next input to take effect.
`LayersFollowStore` proves it of the layers and `SignalledAreCurrent` of the explicit
tabs, except for what nobody signals.

`GUI.hpp:53` throws a `logic_error`, "Attempted to get read-write store from
read-only store". `LayerSetReadOnly` shows how a user gets there: the checkbox
and the buttons of a read-only tab are disabled, but a layer can be dragged
(`GUI.cpp:153`) and dropped on another (`GUI.cpp:159`), and `DragDropReorder` begins
with `GetReadWriteStore()` (`GUI.cpp:700`). Nobody catches, and the program ends.

`Linter.hpp:48` says that an `OrderingLintError` "can be fixed by reordering
layers". `LintersTorn` shows one that Fix Them! does not fix: motion_compensation
has to be above HandTrackedCockpitClicking and below OpenKneeboard. Where they
are the other way round, each fix moves it just past one of them, and so to the
wrong side of the other, though the order OpenKneeboard, motion_compensation,
HandTrackedCockpitClicking satisfies both rules.

`LayerRules.hpp:119` says that `mBelow` has the features that should be above a
layer. `LintersCopies` shows an error that asks for a layer without such a feature
to be above: `OrderingLinter.cpp:202` numbers distinct names, `:242` uses the
number as a position among all layers. With two enabled copies of
motion_compensation, one is asked to be below the other.

## 7. What could follow

What the repository does not promise, and the models only have as behaviour: a backup
that cannot be written does not stop the edit (`LayerStore!SaveBackup`); an edit made
before another program's change was handled undoes it (`LayersAreFollowed` says when);
the thread may create a job after the destructor has closed the one that it found
(`WindowsPlatform!CreateJob`); the tab of XR_ENABLE_API_LAYERS does not follow the stores
that it is computed from (`outdated` in ExplicitStores); an
updater that sends no message between two looks is let go while it runs
(`Updater!CheckRunning`); a missing directory or a manifest of the wrong types
ends the program (`ExplicitStores!GetAPILayersThrows`); a tab of
XR_API_LAYER_PATHS says that a layer is missing for an architecture for which
another manifest has it.

A proof of the first half of `FixThemSettles` would need to know of a list of ordering
fixes, none of whose layers is torn, that the last of them to take effect leaves its
layer where no list that had its error has it. For a new rule in `LayerRules.cpp`,
`KindsAssumption` is what the table has to satisfy for the theorems about linters to
hold, and `Torn` what it should avoid for Fix Them! to come to an end.
