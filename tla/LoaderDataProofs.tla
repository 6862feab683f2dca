--------------------------- MODULE LoaderDataProofs ---------------------------
(***************************************************************************)
(* Proofs about LoaderData: for any layers, extensions and variables,      *)
(* whatever the runtime does to the environment, and whatever is installed *)
(* or removed meanwhile.                                                   *)
(***************************************************************************)
EXTENDS LoaderData, TLAPS

Data ==
  [queryExtensionsResult : Results, queryLayersResult : Results,
   enabledLayerNames : SUBSET (Layers \cup {""}),
   availableExtensionNames : SUBSET (Extensions \cup {""}),
   before : Environments, after : Environments]

\* The calls that were made when the helper is about to make the next one.
BeforeFillExtensions == pc \in {"none", "countExtensions", "fillExtensions"}
BeforeFillLayers == BeforeFillExtensions \/ pc \in {"countLayers", "fillLayers"}
RuntimeIsLoaded ==
  pc \in {"fillExtensions", "countLayers", "fillLayers", "readEnvironment", "print"}

TypeInv ==
  /\ pc \in {"none", "countExtensions", "fillExtensions", "countLayers", "fillLayers",
             "readEnvironment", "print", "done"}
  /\ env \in Environments
  /\ data \in Data
  /\ installed \subseteq Layers /\ available \subseteq Extensions

\* Names are only there once they were asked for, and none of a layer that a
\* variable disables, but those that the last call listed.
NamesInv ==
  /\ BeforeFillExtensions => data.availableExtensionNames = {}
  /\ BeforeFillLayers => data.enabledLayerNames = {} /\ listed = {}
  /\ data.availableExtensionNames # {} => data.queryExtensionsResult = "Success"
  /\ data.enabledLayerNames # {} => data.queryLayersResult = "Success"
  /\ ~BeforeFillLayers /\ pc # "done" =>
       \A layer \in data.enabledLayerNames \ {""} : DisableEnv[layer] \notin DOMAIN env
  /\ pc # "done" /\ data.queryLayersResult = "Success" => listed \subseteq data.enabledLayerNames

\* What the runtime added is what the second look has and the first has not.
EnvironmentInv ==
  /\ pc \in {"none", "countExtensions"} => setByRuntime = {}
  /\ pc = "countExtensions" => data.before = env
  /\ RuntimeIsLoaded => setByRuntime = DOMAIN env \ DOMAIN data.before
  /\ pc = "print" => data.after = env

\* The program has what the helper had when it printed.
ReceivedInv ==
  IF IsData(received)
  THEN /\ pc = "done"
       /\ received = [data EXCEPT !.queryExtensionsResult = data.queryLayersResult]
       /\ setByRuntime = DOMAIN data.after \ DOMAIN data.before
       /\ \A layer \in data.enabledLayerNames \ {""} :
            DisableEnv[layer] \notin DOMAIN data.after
       /\ data.queryLayersResult = "Success" => listed \subseteq data.enabledLayerNames
  ELSE TRUE

HelperInv == TypeInv /\ NamesInv /\ EnvironmentInv /\ ReceivedInv

-----------------------------------------------------------------------------
LEMMA ErrorIsNoData == \A kind : ~IsData(Error(kind))
  BY DEF IsData, Error

LEMMA InitHelper == Init => HelperInv
<1> SUFFICES ASSUME Init PROVE HelperInv
  OBVIOUS
<1>1. <<>> \in Environments
  <2>1. <<>> \in [{} -> Contents]
    OBVIOUS
  <2> QED
    BY <2>1 DEF Environments
<1>2. data \in Data
  BY <1>1 DEF Init, NoData, Data, Results
<1>3. TypeInv
  BY <1>2 DEF Init, TypeInv
<1>4. NamesInv /\ EnvironmentInv
  BY DEF Init, NoData, NamesInv, EnvironmentInv, BeforeFillExtensions, BeforeFillLayers,
         RuntimeIsLoaded
<1>5. ReceivedInv
  BY ErrorIsNoData DEF Init, ReceivedInv
<1> QED
  BY <1>3, <1>4, <1>5 DEF HelperInv

(* A count puts a result in a field, a fill also names in another. *)
LEMMA CountTyped ==
  ASSUME data \in Data, NEW names, NEW second, NEW next, NEW result \in Results,
         NEW field \in {"queryExtensionsResult", "queryLayersResult"},
         Count(names, result, field, second, next)
  PROVE  /\ data' \in Data
         /\ data' = [data EXCEPT ![field] = result]
         /\ pc' \in {second, next}
         /\ result # "Success" => pc' = next
  BY DEF Count, Data

LEMMA FillExtensionsTyped ==
  ASSUME data \in Data, available \subseteq Extensions,
         Fill(available, "queryExtensionsResult", "availableExtensionNames")
  PROVE  /\ data' \in Data
         /\ data' = [data EXCEPT !.queryExtensionsResult = data'.queryExtensionsResult,
                                 !.availableExtensionNames = data'.availableExtensionNames]
         /\ \/ data'.availableExtensionNames = data.availableExtensionNames
            \/ data'.queryExtensionsResult = "Success"
<1> DEFINE filled == available \cup (IF Cardinality(available) < capacity THEN {""} ELSE {})
<1>1. filled \in SUBSET (Extensions \cup {""})
  OBVIOUS
<1>2. \/ data' = [data EXCEPT !.queryExtensionsResult = "SizeInsufficient"]
      \/ data' = [data EXCEPT !.queryExtensionsResult = "Success",
                              !.availableExtensionNames = filled]
  BY DEF Fill
<1> HIDE DEF filled
<1> QED
  BY <1>1, <1>2 DEF Data, Results

LEMMA FillLayersTyped ==
  ASSUME data \in Data, installed \subseteq Layers,
         Fill(Listed, "queryLayersResult", "enabledLayerNames")
  PROVE  /\ data' \in Data
         /\ data' = [data EXCEPT !.queryLayersResult = data'.queryLayersResult,
                                 !.enabledLayerNames = data'.enabledLayerNames]
         /\ \/ /\ data'.queryLayersResult = "SizeInsufficient"
               /\ data'.enabledLayerNames = data.enabledLayerNames
            \/ /\ data'.queryLayersResult = "Success"
               /\ Listed \subseteq data'.enabledLayerNames
               /\ data'.enabledLayerNames \subseteq Listed \cup {""}
<1>1. Listed \subseteq Layers
  BY DEF Listed
<1> DEFINE filled == Listed \cup (IF Cardinality(Listed) < capacity THEN {""} ELSE {})
<1>2. /\ filled \in SUBSET (Layers \cup {""})
      /\ Listed \subseteq filled /\ filled \subseteq Listed \cup {""}
  BY <1>1
<1>3. \/ data' = [data EXCEPT !.queryLayersResult = "SizeInsufficient"]
      \/ data' = [data EXCEPT !.queryLayersResult = "Success", !.enabledLayerNames = filled]
  BY DEF Fill
<1> HIDE DEF filled
<1> QED
  BY <1>2, <1>3 DEF Data, Results

(* The program has nothing of a helper that is not done. *)
LEMMA NothingReceived ==
  ASSUME HelperInv, pc # "done", received' = received
  PROVE  ReceivedInv'
<1>1. ~IsData(received)
  BY DEF HelperInv, ReceivedInv
<1>2. ~IsData(received)'
  BY <1>1 DEF IsData
<1> QED
  BY <1>2 DEF ReceivedInv

LEMMA ErrorReceived ==
  ASSUME NEW kind, received' = Error(kind)
  PROVE  ReceivedInv'
<1>1. ~IsData(received)'
  BY ErrorIsNoData DEF IsData
<1> QED
  BY <1>1 DEF ReceivedInv

LEMMA NextHelper == HelperInv /\ [Next]_vars => HelperInv'
<1> SUFFICES ASSUME HelperInv, [Next]_vars PROVE HelperInv'
  OBVIOUS
<1> USE DEF BeforeFillExtensions, BeforeFillLayers, RuntimeIsLoaded
<1>inv. TypeInv /\ NamesInv /\ EnvironmentInv /\ ReceivedInv
  BY DEF HelperInv
<1>1. CASE FailToSpawn
  <2>1. TypeInv'
    BY <1>1, <1>inv DEF FailToSpawn, TypeInv
  <2>2. NamesInv' /\ EnvironmentInv'
    BY <1>1, <1>inv DEF FailToSpawn, NamesInv, EnvironmentInv
  <2>3. ReceivedInv'
    BY <1>1, ErrorReceived DEF FailToSpawn
  <2> QED
    BY <2>1, <2>2, <2>3 DEF HelperInv
<1>2. CASE StartHelper
  <2>1. TypeInv'
    BY <1>2, <1>inv DEF StartHelper, TypeInv, Data
  <2>2. NamesInv'
    BY <1>2, <1>inv DEF StartHelper, NamesInv, TypeInv, Data
  <2>3. EnvironmentInv'
    BY <1>2, <1>inv DEF StartHelper, EnvironmentInv, TypeInv, Data
  <2>4. ReceivedInv'
    BY <1>2, NothingReceived DEF StartHelper
  <2> QED
    BY <2>1, <2>2, <2>3, <2>4 DEF HelperInv
<1>3. CASE CountExtensions
  <2>1. PICK result \in {"Success", "Failure"} :
          Count(available, result, "queryExtensionsResult", "fillExtensions", "countLayers")
    BY <1>3 DEF CountExtensions
  <2>2. /\ data' \in Data
        /\ data' = [data EXCEPT !.queryExtensionsResult = result]
        /\ pc' \in {"fillExtensions", "countLayers"}
    BY <2>1, <1>inv, CountTyped DEF TypeInv, Results
  <2>3. data.before = env /\ pc = "countExtensions"
    BY <1>3, <1>inv DEF CountExtensions, EnvironmentInv
  <2>4. env' \in Environments /\ setByRuntime' = DOMAIN env' \ DOMAIN env
    BY <1>3 DEF CountExtensions
  <2>5. UNCHANGED <<installed, available, received, listed>>
    BY <1>3 DEF CountExtensions
  <2>6. TypeInv'
    BY <2>2, <2>4, <2>5, <1>inv DEF TypeInv
  <2>7. NamesInv'
    BY <2>2, <2>3, <2>5, <1>inv DEF NamesInv, TypeInv, Data
  <2>8. EnvironmentInv'
    BY <2>2, <2>3, <2>4, <1>inv DEF EnvironmentInv, TypeInv, Data
  <2>9. ReceivedInv'
    BY <2>3, <2>5, NothingReceived
  <2> QED
    BY <2>6, <2>7, <2>8, <2>9 DEF HelperInv
<1>4. CASE FillExtensions
  <2>1. /\ data' \in Data
        /\ data' = [data EXCEPT !.queryExtensionsResult = data'.queryExtensionsResult,
                                !.availableExtensionNames = data'.availableExtensionNames]
        /\ \/ data'.availableExtensionNames = data.availableExtensionNames
           \/ data'.queryExtensionsResult = "Success"
    BY <1>4, <1>inv, FillExtensionsTyped DEF FillExtensions, TypeInv
  <2>2. /\ pc = "fillExtensions" /\ pc' = "countLayers"
        /\ UNCHANGED <<env, installed, available, received, setByRuntime, listed>>
    BY <1>4 DEF FillExtensions
  <2>3. /\ data'.before = data.before /\ data'.after = data.after
        /\ data'.enabledLayerNames = data.enabledLayerNames
        /\ data'.queryLayersResult = data.queryLayersResult
    BY <2>1, <1>inv DEF TypeInv, Data
  <2>4. TypeInv'
    BY <2>1, <2>2, <1>inv DEF TypeInv
  <2>5. NamesInv'
    BY <2>1, <2>2, <2>3, <1>inv DEF NamesInv
  <2>6. EnvironmentInv'
    BY <2>2, <2>3, <1>inv DEF EnvironmentInv
  <2>7. ReceivedInv'
    BY <2>2, NothingReceived
  <2> QED
    BY <2>4, <2>5, <2>6, <2>7 DEF HelperInv
<1>5. CASE CountLayers
  <2>1. PICK result \in {"Success", "Failure"} :
          Count(Listed, result, "queryLayersResult", "fillLayers", "readEnvironment")
    BY <1>5 DEF CountLayers
  <2>2. /\ data' \in Data
        /\ data' = [data EXCEPT !.queryLayersResult = result]
        /\ pc' \in {"fillLayers", "readEnvironment"}
    BY <2>1, <1>inv, CountTyped DEF TypeInv, Results
  <2>3. /\ pc = "countLayers"
        /\ UNCHANGED <<env, installed, available, received, setByRuntime, listed>>
    BY <1>5 DEF CountLayers
  <2>4. /\ data'.before = data.before /\ data'.after = data.after
        /\ data'.enabledLayerNames = data.enabledLayerNames
        /\ data'.availableExtensionNames = data.availableExtensionNames
        /\ data'.queryExtensionsResult = data.queryExtensionsResult
    BY <2>2, <1>inv DEF TypeInv, Data
  <2>5. TypeInv'
    BY <2>2, <2>3, <1>inv DEF TypeInv
  <2>6. NamesInv'
    BY <2>2, <2>3, <2>4, <1>inv DEF NamesInv
  <2>7. EnvironmentInv'
    BY <2>2, <2>3, <2>4, <1>inv DEF EnvironmentInv
  <2>8. ReceivedInv'
    BY <2>3, NothingReceived
  <2> QED
    BY <2>5, <2>6, <2>7, <2>8 DEF HelperInv
<1>6. CASE FillLayers
  <2>1. /\ data' \in Data
        /\ data' = [data EXCEPT !.queryLayersResult = data'.queryLayersResult,
                                !.enabledLayerNames = data'.enabledLayerNames]
        /\ \/ /\ data'.queryLayersResult = "SizeInsufficient"
              /\ data'.enabledLayerNames = data.enabledLayerNames
           \/ /\ data'.queryLayersResult = "Success"
              /\ Listed \subseteq data'.enabledLayerNames
              /\ data'.enabledLayerNames \subseteq Listed \cup {""}
    BY <1>6, <1>inv, FillLayersTyped DEF FillLayers, TypeInv
  <2>2. /\ pc = "fillLayers" /\ pc' = "readEnvironment" /\ listed' = Listed
        /\ UNCHANGED <<env, installed, available, received, setByRuntime>>
    BY <1>6 DEF FillLayers
  <2>3. /\ data'.before = data.before /\ data'.after = data.after
        /\ data'.availableExtensionNames = data.availableExtensionNames
        /\ data'.queryExtensionsResult = data.queryExtensionsResult
    BY <2>1, <1>inv DEF TypeInv, Data
  <2>4. \A layer \in data'.enabledLayerNames \ {""} : DisableEnv[layer] \notin DOMAIN env
    BY <2>1, <2>2, <1>inv DEF NamesInv, Listed
  <2>5. TypeInv'
    BY <2>1, <2>2, <1>inv DEF TypeInv
  <2>6. NamesInv'
    BY <2>1, <2>2, <2>3, <2>4, <1>inv DEF NamesInv
  <2>7. EnvironmentInv'
    BY <2>2, <2>3, <1>inv DEF EnvironmentInv
  <2>8. ReceivedInv'
    BY <2>2, NothingReceived
  <2> QED
    BY <2>5, <2>6, <2>7, <2>8 DEF HelperInv
<1>7. CASE ReadEnvironment
  <2>1. TypeInv'
    BY <1>7, <1>inv DEF ReadEnvironment, TypeInv, Data
  <2>2. NamesInv'
    BY <1>7, <1>inv DEF ReadEnvironment, NamesInv, TypeInv, Data
  <2>3. EnvironmentInv'
    BY <1>7, <1>inv DEF ReadEnvironment, EnvironmentInv, TypeInv, Data
  <2>4. ReceivedInv'
    BY <1>7, NothingReceived DEF ReadEnvironment
  <2> QED
    BY <2>1, <2>2, <2>3, <2>4 DEF HelperInv
<1>8. CASE PrintJSON
  <2>1. TypeInv'
    BY <1>8, <1>inv DEF PrintJSON, TypeInv
  <2>2. NamesInv' /\ EnvironmentInv'
    BY <1>8, <1>inv DEF PrintJSON, NamesInv, EnvironmentInv
  <2>3. ReceivedInv'
    <3>1. CASE noise
      BY <1>8, <3>1, ErrorReceived DEF PrintJSON
    <3>2. CASE ~noise
      BY <1>8, <3>2, <1>inv DEF PrintJSON, from_json, to_json, ReceivedInv, NamesInv, EnvironmentInv
    <3> QED
      BY <3>1, <3>2
  <2> QED
    BY <2>1, <2>2, <2>3 DEF HelperInv
<1>9. CASE HelperDies
  <2>1. TypeInv'
    BY <1>9, <1>inv DEF HelperDies, TypeInv
  <2>2. NamesInv' /\ EnvironmentInv'
    BY <1>9, <1>inv DEF HelperDies, NamesInv, EnvironmentInv
  <2>3. ReceivedInv'
    BY <1>9, ErrorReceived DEF HelperDies
  <2> QED
    BY <2>1, <2>2, <2>3 DEF HelperInv
<1>10. CASE Install
  <2>1. TypeInv'
    BY <1>10, <1>inv DEF Install, TypeInv
  <2>2. NamesInv' /\ EnvironmentInv'
    BY <1>10, <1>inv DEF Install, NamesInv, EnvironmentInv
  <2>3. ReceivedInv'
    BY <1>10, NothingReceived DEF Install
  <2> QED
    BY <2>1, <2>2, <2>3 DEF HelperInv
<1>11. CASE UNCHANGED vars
  BY <1>11, <1>inv DEF vars, HelperInv, TypeInv, NamesInv, EnvironmentInv, ReceivedInv, IsData
<1> QED
  BY <1>1, <1>2, <1>3, <1>4, <1>5, <1>6, <1>7, <1>8, <1>9, <1>10, <1>11 DEF Next

LEMMA HelperInvariant == Spec => []HelperInv
  BY InitHelper, NextHelper, PTL DEF Spec

-----------------------------------------------------------------------------
(* What follows from it. *)

\* The data of a helper has its type at every step, and names are only there with a
\* result that says so.
THEOREM HelperTypeCorrect == Spec => []LoaderDataTypeOK
<1>1. HelperInv => LoaderDataTypeOK
  <2> SUFFICES ASSUME HelperInv PROVE LoaderDataTypeOK
    OBVIOUS
  <2>1. /\ env \in Environments /\ data \in Data
        /\ data.enabledLayerNames # {} => data.queryLayersResult = "Success"
        /\ data.availableExtensionNames # {} => data.queryExtensionsResult = "Success"
    BY DEF HelperInv, TypeInv, NamesInv
  <2>2. IsData(received) => DOMAIN received = DOMAIN data
    BY DEF HelperInv, ReceivedInv
  <2> QED
    BY <2>1, <2>2 DEF LoaderDataTypeOK, Data
<1> QED
  BY <1>1, HelperInvariant, PTL

\* For any environment, and whatever the runtime does to it, the layers that the
\* program says the runtime blocks are those for which the runtime set the variable
\* that disables them.
THEOREM BlockedIsByRuntime == Spec => []BlockedByRuntime
<1>1. HelperInv => BlockedByRuntime
  <2> SUFFICES ASSUME HelperInv, IsData(received), NEW layer \in Layers \ {""}
               PROVE  layer \in Blocked <=> DisableEnv[layer] \in setByRuntime \ getenv
    BY DEF BlockedByRuntime
  <2>1. /\ received = [data EXCEPT !.queryExtensionsResult = data.queryLayersResult]
        /\ setByRuntime = DOMAIN data.after \ DOMAIN data.before
        /\ \A l \in data.enabledLayerNames \ {""} : DisableEnv[l] \notin DOMAIN data.after
    BY DEF HelperInv, ReceivedInv
  <2>2. /\ received.before = data.before /\ received.after = data.after
        /\ received.enabledLayerNames = data.enabledLayerNames
    BY <2>1 DEF HelperInv, TypeInv, Data
  <2>3. layer \in Blocked <=>
          /\ layer \notin data.enabledLayerNames
          /\ DisableEnv[layer] \notin getenv
          /\ DisableEnv[layer] \in DOMAIN data.after \ DOMAIN data.before
    BY <2>2 DEF Blocked, Skipped
  <2> QED
    BY <2>1, <2>3
<1> QED
  BY <1>1, HelperInvariant, PTL

\* For any number of layers that come and go between the calls, a layer that is said
\* not to be loaded is none of those that the loader listed, if the query succeeded.
THEOREM SkippedWasSkipped == Spec => []SkippedWasNotListed
<1>1. HelperInv => SkippedWasNotListed
  <2> SUFFICES ASSUME HelperInv, IsData(received), received.queryLayersResult = "Success"
               PROVE  Skipped \cap listed = {}
    BY DEF SkippedWasNotListed
  <2>1. /\ received = [data EXCEPT !.queryExtensionsResult = data.queryLayersResult]
        /\ data.queryLayersResult = "Success" => listed \subseteq data.enabledLayerNames
    BY DEF HelperInv, ReceivedInv
  <2>2. /\ received.enabledLayerNames = data.enabledLayerNames
        /\ received.queryLayersResult = data.queryLayersResult
    BY <2>1 DEF HelperInv, TypeInv, Data
  <2> QED
    BY <2>1, <2>2 DEF Skipped
<1> QED
  BY <1>1, HelperInvariant, PTL

LEMMA LinesAreCensored ==
  ASSUME NEW before, NEW after, NEW name \in DOMAIN before \cup DOMAIN after
  PROVE  /\ EnvironmentLine(name, before, after).key = name
         /\ EnvironmentLine(name, before, after).contents # {} => name \in Shown
         /\ EnvironmentLine(name, before, after).verdict = "added"
              <=> name \in DOMAIN after \ DOMAIN before
<1>1. CASE name \notin DOMAIN after
  BY <1>1 DEF EnvironmentLine, Line
<1>2. CASE name \in DOMAIN after /\ name \notin DOMAIN before
  BY <1>2 DEF EnvironmentLine, Line
<1>3. CASE name \in DOMAIN after /\ name \in DOMAIN before
  BY <1>3 DEF EnvironmentLine, Line
<1> QED
  BY <1>1, <1>2, <1>3

\* A report has one line about each variable that the runtime was given or left, which
\* says whether the runtime added it, and shows no contents but those about XR.
THEOREM ReportsAreCensored == Spec => []ReportIsCensored
<1>1. HelperInv => ReportIsCensored
  <2> SUFFICES ASSUME HelperInv, IsData(received),
                      NEW name \in DOMAIN received.before \cup DOMAIN received.after
               PROVE  \E line \in EnvironmentReport :
                        /\ {l \in EnvironmentReport : l.key = name} = {line}
                        /\ line.contents # {} => name \in Shown
                        /\ line.verdict = "added" <=> name \in setByRuntime
    BY DEF ReportIsCensored
  <2>1. setByRuntime = DOMAIN received.after \ DOMAIN received.before
    BY DEF HelperInv, ReceivedInv, TypeInv, Data
  <2> DEFINE line == EnvironmentLine(name, received.before, received.after)
  <2>2. line \in EnvironmentReport
    BY DEF EnvironmentReport
  <2>3. \A l \in EnvironmentReport : l.key = name => l = line
    BY LinesAreCensored DEF EnvironmentReport
  <2>4. {l \in EnvironmentReport : l.key = name} = {line}
    BY <2>2, <2>3, LinesAreCensored
  <2> QED
    BY <2>1, <2>2, <2>4, LinesAreCensored
<1> QED
  BY <1>1, HelperInvariant, PTL
=============================================================================
