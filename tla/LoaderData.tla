------------------------------ MODULE LoaderData ------------------------------
(***************************************************************************)
(* The data of one loader-data helper, from the OpenXR loader to the       *)
(* warnings and the report: QueryLoaderDataInCurrentProcess, call by call  *)
(* (LoaderDataMain.cpp), JSON (LoaderData.cpp), LoaderDataProcess::Wait    *)
(* (WindowsPlatform.cpp), SkippedByLoaderLinter, and the environment       *)
(* variables of a report (SaveReport.cpp).                                 *)
(*                                                                         *)
(* The loader reads the installed layers at every call, and the first      *)
(* enumeration of extensions loads the runtime, which may change the       *)
(* helper's environment.  WindowsPlatform has when helpers are run.        *)
(***************************************************************************)
EXTENDS Integers, FiniteSets, Functions

CONSTANTS Layers,          \* implicit and enabled in the registry
          Extensions,
          Variables,       \* of the environment
          Contents,        \* what a variable may hold
          DisableEnv,      \* of each layer, a variable, or NoVariable
          NoVariable,
          Shown,           \* variables with a name that is about XR
          getenv,          \* the variables of the program itself
          MaxChanges       \* bound on what other programs install or remove

ASSUME LoaderDataAssumption ==
  /\ NoVariable \notin Variables
  /\ DisableEnv \in [Layers -> Variables \cup {NoVariable}]
  /\ Shown \subseteq Variables /\ getenv \subseteq Variables
  /\ MaxChanges \in Nat

Environments == UNION {[some -> Contents] : some \in SUBSET Variables}

Results == {"Success", "SizeInsufficient", "Failure", "MaxEnum"}

VARIABLES
  pc, env, data,        \* of the helper; data is what it collects
  capacity,             \* the size of the vector for the second call
  noise,                \* the runtime wrote to the standard output
  installed, available, \* layers, and extensions of the runtime
  received,             \* the entry of the architecture in mLoaderData
  changes,
  setByRuntime,         \* history: the variables that the runtime added
  listed                \* history: what the loader had at the last call

vars == <<pc, env, data, capacity, noise, installed, available, received, changes,
          setByRuntime, listed>>

NoData == [queryExtensionsResult |-> "MaxEnum", queryLayersResult |-> "MaxEnum",
           enabledLayerNames |-> {}, availableExtensionNames |-> {},
           before |-> <<>>, after |-> <<>>]

Error(kind) == [error |-> kind]
IsData(result) == "error" \notin DOMAIN result

-----------------------------------------------------------------------------
(* The helper.                                                             *)

Init ==
  /\ pc = "none"
  /\ env \in Environments
  /\ data = NoData /\ capacity = 0 /\ noise = FALSE
  /\ installed \in SUBSET Layers /\ available \in SUBSET Extensions
  /\ received = Error("Pending")
  /\ changes = 0 /\ setByRuntime = {} /\ listed = {}

\* What the loader lists: it leaves out what a variable disables.
Listed == {layer \in installed : DisableEnv[layer] \notin DOMAIN env}

\* SpawnLoaderData.
FailToSpawn ==
  /\ pc = "none"
  /\ pc' = "done"
  /\ received' \in {Error(kind) : kind \in
       {"PipeCreation", "PipeAttribute", "CanNotFindCurrentExecutable",
        "CanNotFindHelperExecutable", "UnsignedHelper", "CanNotSpawn"}}
  /\ UNCHANGED <<env, data, capacity, noise, installed, available, changes,
                 setByRuntime, listed>>

StartHelper ==
  /\ pc = "none"
  /\ pc' = "countExtensions"
  /\ data' = [data EXCEPT !.before = env]
  /\ UNCHANGED <<env, capacity, noise, installed, available, received, changes,
                 setByRuntime, listed>>

\* xrEnumerate... with a capacity of 0: the number, or a failure that skips the
\* second call.
Count(names, result, field, second, next) ==
  /\ data' = [data EXCEPT ![field] = result]
  /\ capacity' = Cardinality(names)
  /\ pc' = IF result = "Success" THEN second ELSE next

CountExtensions ==
  /\ pc = "countExtensions"
  /\ \E result \in {"Success", "Failure"} :
       Count(available, result, "queryExtensionsResult", "fillExtensions", "countLayers")
  /\ \E newEnv \in Environments :
       /\ env' = newEnv
       /\ setByRuntime' = DOMAIN newEnv \ DOMAIN env
  /\ noise' \in BOOLEAN
  /\ UNCHANGED <<installed, available, received, changes, listed>>

\* Mutant: a vector that is too small is filled with nothing.
FillFromEmpty(names, resultField, namesField) ==
  data' = [data EXCEPT
    ![resultField] = "Success",
    ![namesField] = IF Cardinality(names) > capacity THEN {} ELSE names]

\* Mutant: the names are taken whatever the result.
FillUnchecked(names, resultField, namesField) ==
  data' = [data EXCEPT
    ![resultField] = IF Cardinality(names) > capacity THEN "SizeInsufficient" ELSE "Success",
    ![namesField] = names]

\* ... with the capacity that was asked for.  The vector keeps its size, so names
\* that are gone are left empty.
Fill(names, resultField, namesField) ==
  IF Cardinality(names) > capacity
  THEN data' = [data EXCEPT ![resultField] = "SizeInsufficient"]
  ELSE data' = [data EXCEPT
         ![resultField] = "Success",
         ![namesField] = names \cup (IF Cardinality(names) < capacity THEN {""} ELSE {})]

FillExtensions ==
  /\ pc = "fillExtensions"
  /\ Fill(available, "queryExtensionsResult", "availableExtensionNames")
  /\ pc' = "countLayers"
  /\ UNCHANGED <<env, capacity, noise, installed, available, received, changes,
                 setByRuntime, listed>>

CountLayers ==
  /\ pc = "countLayers"
  /\ \E result \in {"Success", "Failure"} :
       Count(Listed, result, "queryLayersResult", "fillLayers", "readEnvironment")
  /\ UNCHANGED <<env, noise, installed, available, received, changes, setByRuntime,
                 listed>>

FillLayers ==
  /\ pc = "fillLayers"
  /\ Fill(Listed, "queryLayersResult", "enabledLayerNames")
  /\ listed' = Listed
  /\ pc' = "readEnvironment"
  /\ UNCHANGED <<env, capacity, noise, installed, available, received, changes,
                 setByRuntime>>

ReadEnvironment ==
  /\ pc = "readEnvironment"
  /\ data' = [data EXCEPT !.after = env]
  /\ pc' = "print"
  /\ UNCHANGED <<env, capacity, noise, installed, available, received, changes,
                 setByRuntime, listed>>

\* The result for extensions is written from that for layers.
to_json(d) == [d EXCEPT !.queryExtensionsResult = d.queryLayersResult]

\* Mutant: the environments change places.
from_jsonSwapped(j) == [j EXCEPT !.before = j.after, !.after = j.before]

\* Each field is read by the name it was written with.
from_json(j) == j

\* The helper prints and exits, and Wait parses all that it wrote.
PrintJSON ==
  /\ pc = "print"
  /\ pc' = "done"
  /\ received' = IF noise THEN Error("InvalidJSON") ELSE from_json(to_json(data))
  /\ UNCHANGED <<env, data, capacity, noise, installed, available, changes,
                 setByRuntime, listed>>

\* A DLL of the loader, of a layer or of the runtime ends the process.
HelperDies ==
  /\ pc \notin {"none", "done"}
  /\ pc' = "done"
  /\ received' = Error("BadExitCode")
  /\ UNCHANGED <<env, data, capacity, noise, installed, available, changes,
                 setByRuntime, listed>>

\* Other programs install and remove layers, and extensions of a runtime.
Install ==
  /\ pc \notin {"none", "done"}
  /\ changes < MaxChanges
  /\ changes' = changes + 1
  /\ installed' \in SUBSET Layers
  /\ available' \in SUBSET Extensions
  /\ UNCHANGED <<pc, env, data, capacity, noise, received, setByRuntime, listed>>

Next ==
  \/ FailToSpawn \/ StartHelper \/ CountExtensions \/ FillExtensions \/ CountLayers
  \/ FillLayers \/ ReadEnvironment \/ PrintJSON \/ HelperDies \/ Install

Spec == Init /\ [][Next]_vars

-----------------------------------------------------------------------------
(* What the program makes of it.                                           *)

\* SkippedByLoaderLinter, for the layers of Layers: those that it warns of, and those
\* that it says the runtime blocks.
Skipped ==
  IF ~IsData(received) THEN {}
  ELSE {layer \in Layers \ received.enabledLayerNames : DisableEnv[layer] \notin getenv}

Blocked ==
  IF ~IsData(received) THEN {}
  ELSE {layer \in Skipped :
          DisableEnv[layer] \in DOMAIN received.after \ DOMAIN received.before}

\* The lines of a report: the name, what happened, and the contents that are shown.
Line(key, verdict, contents) ==
  [key |-> key, verdict |-> verdict,
   contents |-> IF key \in Shown THEN contents ELSE {}]

\* Mutant: what was modified is never censored.
EnvironmentLineOpen(key, before, after) ==
  CASE key \notin DOMAIN after -> Line(key, "unset", {before[key]})
    [] key \notin DOMAIN before -> Line(key, "added", {after[key]})
    [] OTHER -> [key |-> key, verdict |-> "modified", contents |-> {before[key], after[key]}]

EnvironmentLine(key, before, after) ==
  CASE key \notin DOMAIN after -> Line(key, "unset", {before[key]})
    [] key \notin DOMAIN before -> Line(key, "added", {after[key]})
    [] key \in DOMAIN before \cap DOMAIN after ->
         Line(key, IF before[key] = after[key] THEN "kept" ELSE "modified",
              {before[key], after[key]})

EnvironmentReport ==
  {EnvironmentLine(key, received.before, received.after) :
     key \in DOMAIN received.before \cup DOMAIN received.after}

-----------------------------------------------------------------------------
(* Properties.                                                             *)

\* The helper's data and what is received keep their types; names are only there
\* with a result that says so.
LoaderDataTypeOK ==
  /\ env \in Environments
  /\ {data.before, data.after} \subseteq Environments
  /\ {data.queryExtensionsResult, data.queryLayersResult} \subseteq Results
  /\ data.enabledLayerNames # {} => data.queryLayersResult = "Success"
  /\ data.availableExtensionNames # {} => data.queryExtensionsResult = "Success"
  /\ IsData(received) => DOMAIN received = DOMAIN data

\* The runtime is said to block a layer if and only if it set, in the helper, the
\* variable that disables it, which takes a first look at the environment before
\* the runtime is loaded, one after it, and both through JSON in their places.  (A
\* layer without a name is taken for one that is enabled where a name is left empty.)
BlockedByRuntime ==
  IsData(received) =>
    \A layer \in Layers \ {""} :
      layer \in Blocked <=> DisableEnv[layer] \in setByRuntime \ getenv

\* A layer that is said not to be loaded was not listed by the loader, whatever was
\* installed or removed between its calls, if the query succeeded.
SkippedWasNotListed ==
  IsData(received) /\ received.queryLayersResult = "Success" =>
    Skipped \cap listed = {}

\* A report shows every variable that the runtime was given or left, once, and
\* with its contents only if it is about XR.
ReportIsCensored ==
  IsData(received) =>
    \A key \in DOMAIN received.before \cup DOMAIN received.after :
      \E line \in EnvironmentReport :
        /\ {l \in EnvironmentReport : l.key = key} = {line}
        /\ line.contents # {} => key \in Shown
        /\ line.verdict = "added" <=> key \in setByRuntime
=============================================================================
