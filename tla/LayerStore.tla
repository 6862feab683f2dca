------------------------------ MODULE LayerStore ------------------------------
(***************************************************************************)
(* Writing a list of layers to a registry key                              *)
(* (ReadWriteWindowsAPILayerStore, src/windows/WindowsAPILayerStore.cpp).  *)
(*                                                                         *)
(* SetAPILayers is many registry calls: it enumerates the key, by index,   *)
(* for a backup and again to compare, deletes each value that it found,    *)
(* and sets the new ones in order.  Other programs may write between any   *)
(* two of them, and the process may die.  The key is open: where it is not *)
(* GetAPILayers finds nothing and SetAPILayers writes nothing.  The other  *)
(* registry calls succeed: the code ignores what they return.              *)
(*                                                                         *)
(* Backup files only matter by the paths they hold.                        *)
(***************************************************************************)
EXTENDS LayerEdits

CONSTANTS MaxForeign,  \* bound: writes by other programs
          MaxRestarts  \* bound: times that the program starts again

ASSUME BoundsAssumption == MaxForeign \in Nat /\ MaxRestarts \in Nat

VARIABLES
  key,          \* the registry key
  saved,        \* the paths in backup files
  mHaveBackup,
  \* the call of SetAPILayers
  pc,           \* what it is doing
  wanted,       \* newLayers
  layers,       \* what GetAPILayers has found so far; then oldLayers
  index,        \* of the next value to read, to delete or to set
  result,       \* what the last call returned
  \* history and bounds
  recent,       \* paths set since the backup was begun
  skipped,      \* paths an enumeration passed over, or no backup was saved of
  touched,      \* paths that others wrote since the call began
  foreign,      \* writes by others so far
  restarts

call == <<pc, wanted, layers, index, result>>
vars == <<key, saved, mHaveBackup, call, recent, skipped, touched, foreign, restarts>>

Enumerating == pc \in {"backup", "compare"}

TypeOK ==
  /\ IsKey(key)
  /\ saved \subseteq Paths
  /\ mHaveBackup \in BOOLEAN
  /\ pc \in {"idle", "backup", "compare", "delete", "set"}
  /\ IsKey(wanted)
  /\ layers \in Seq(Layer)
  /\ index \in Nat \ {0}
  /\ Enumerating => index = Len(layers) + 1
  /\ pc = "delete" => index <= Len(layers) + 1
  /\ pc = "set" => index <= Len(wanted) + 1
  /\ result \in BOOLEAN
  /\ recent \subseteq Paths
  /\ skipped \subseteq Paths
  /\ touched \subseteq Paths
  /\ foreign \in 0..MaxForeign
  /\ restarts \in 0..MaxRestarts

Init ==
  /\ key \in Keys
  /\ saved = {}
  /\ mHaveBackup = FALSE
  /\ pc = "idle"
  /\ wanted = <<>>
  /\ layers = <<>>
  /\ index = 1
  /\ result = FALSE
  /\ recent = {}
  /\ skipped = {}
  /\ touched = {}
  /\ foreign = 0
  /\ restarts = 0

\* GetAPILayers is called.
Enumerate ==
  /\ layers' = <<>>
  /\ index' = 1

\* SetAPILayers(newLayers): there is one backup in the life of the program.
Call(newLayers) ==
  /\ pc = "idle"
  /\ wanted' = newLayers
  /\ pc' = IF mHaveBackup THEN "compare" ELSE "backup"
  /\ Enumerate
  /\ recent' = IF mHaveBackup THEN recent ELSE {}
  /\ skipped' = IF mHaveBackup THEN skipped ELSE {}
  /\ touched' = {}
  /\ UNCHANGED <<key, saved, mHaveBackup, result, foreign, restarts>>

\* RegEnumValueW(index++).
EnumValue ==
  /\ Enumerating
  /\ index <= Len(key)
  /\ layers' = Append(layers, key[index])
  /\ index' = index + 1
  /\ UNCHANGED <<key, saved, mHaveBackup, pc, wanted, result, recent, skipped,
                 touched, foreign, restarts>>

\* Mutant: the backup has the enabled layers only.
SaveBackupOfEnabled ==
  /\ pc = "backup"
  /\ index > Len(key)
  /\ mHaveBackup' = TRUE
  /\ \/ saved' = saved \cup PathsOf(SelectSeq(layers, IsEnabled)) /\ UNCHANGED skipped
     \/ skipped' = skipped \cup PathsOf(layers) /\ UNCHANGED saved
  /\ pc' = "compare"
  /\ Enumerate
  /\ UNCHANGED <<key, wanted, result, recent, touched, foreign, restarts>>

\* No more items: the backup is saved, or is not; the code does not look.
SaveBackup ==
  /\ pc = "backup"
  /\ index > Len(key)
  /\ mHaveBackup' = TRUE
  /\ \/ saved' = saved \cup PathsOf(layers) /\ UNCHANGED skipped
     \/ skipped' = skipped \cup PathsOf(layers) /\ UNCHANGED saved
  /\ pc' = "compare"
  /\ Enumerate
  /\ UNCHANGED <<key, wanted, result, recent, touched, foreign, restarts>>

NothingToWrite ==
  /\ pc = "compare"
  /\ index > Len(key)
  /\ layers = wanted
  /\ pc' = "idle"
  /\ result' = FALSE
  /\ UNCHANGED <<key, saved, mHaveBackup, wanted, layers, index, recent, skipped,
                 touched, foreign, restarts>>

SomethingToWrite ==
  /\ pc = "compare"
  /\ index > Len(key)
  /\ layers # wanted
  /\ pc' = "delete"
  /\ index' = 1
  /\ UNCHANGED <<key, saved, mHaveBackup, wanted, layers, result, recent, skipped,
                 touched, foreign, restarts>>

\* Mutant: a value that will be set again is not deleted.
DeleteUnwantedValue ==
  /\ pc = "delete"
  /\ index <= Len(layers)
  /\ key' = IF layers[index].path \in PathsOf(wanted) THEN key
            ELSE RegDeleteValue(key, layers[index].path)
  /\ index' = index + 1
  /\ UNCHANGED <<saved, mHaveBackup, pc, wanted, layers, result, recent, skipped,
                 touched, foreign, restarts>>

DeleteValue ==
  /\ pc = "delete"
  /\ index <= Len(layers)
  /\ key' = RegDeleteValue(key, layers[index].path)
  /\ index' = index + 1
  /\ UNCHANGED <<saved, mHaveBackup, pc, wanted, layers, result, recent, skipped,
                 touched, foreign, restarts>>

\* Mutant: as many values are deleted as there are new ones.
AsManyDeletedAsSet ==
  /\ pc = "delete"
  /\ index > Len(layers) \/ index > Len(wanted)
  /\ pc' = "set"
  /\ index' = 1
  /\ UNCHANGED <<key, saved, mHaveBackup, wanted, layers, result, recent, skipped,
                 touched, foreign, restarts>>

\* Mutant: the second loop goes on where the first one stopped.
AllDeletedKeepingIndex ==
  /\ pc = "delete"
  /\ index > Len(layers)
  /\ pc' = "set"
  /\ UNCHANGED <<key, saved, mHaveBackup, wanted, layers, index, result, recent, skipped,
                 touched, foreign, restarts>>

AllDeleted ==
  /\ pc = "delete"
  /\ index > Len(layers)
  /\ pc' = "set"
  /\ index' = 1
  /\ UNCHANGED <<key, saved, mHaveBackup, wanted, layers, result, recent, skipped,
                 touched, foreign, restarts>>

SetNext ==
  /\ pc = "set"
  /\ index <= Len(wanted)
  /\ key' = RegSetValue(key, Written(wanted)[index])
  /\ recent' = recent \cup {wanted[index].path}
  /\ index' = index + 1
  /\ UNCHANGED <<saved, mHaveBackup, pc, wanted, layers, result, skipped, touched,
                 foreign, restarts>>

Return ==
  /\ pc = "set"
  /\ index > Len(wanted)
  /\ pc' = "idle"
  /\ result' = TRUE
  /\ UNCHANGED <<key, saved, mHaveBackup, wanted, layers, index, recent, skipped,
                 touched, foreign, restarts>>

-----------------------------------------------------------------------------
(* Other programs.                                                         *)

Foreign(path) ==
  /\ foreign < MaxForeign
  /\ foreign' = foreign + 1
  /\ touched' = touched \cup {path}
  /\ UNCHANGED <<saved, mHaveBackup, call, restarts>>

ForeignSet(layer) ==
  /\ Foreign(layer.path)
  /\ key' = RegSetValue(key, layer)
  /\ recent' = recent \cup {layer.path}
  /\ UNCHANGED skipped

\* The values behind the deleted one move up, and the one that was next to be
\* enumerated may be passed over.
ForeignDelete(path) ==
  /\ path \in PathsOf(key)
  /\ Foreign(path)
  /\ key' = RegDeleteValue(key, path)
  /\ skipped' =
       IF Enumerating /\ FindKey(key, path) < index /\ index <= Len(key)
       THEN skipped \cup {key[index].path} ELSE skipped
  /\ UNCHANGED recent

\* The program ends, in the middle of a call or not, and is started again.
Restart ==
  /\ restarts < MaxRestarts
  /\ restarts' = restarts + 1
  /\ mHaveBackup' = FALSE
  /\ pc' = "idle"
  /\ layers' = <<>>
  /\ index' = 1
  /\ result' = FALSE
  /\ UNCHANGED <<key, saved, wanted, recent, skipped, touched, foreign>>

Write ==
  \/ EnumValue \/ SaveBackup \/ NothingToWrite \/ SomethingToWrite
  \/ DeleteValue \/ AllDeleted \/ SetNext \/ Return

Next ==
  \/ \E newLayers \in Keys : Call(newLayers)
  \/ Write
  \/ \E layer \in Layer : ForeignSet(layer)
  \/ \E path \in Paths : ForeignDelete(path)
  \/ Restart

Spec == Init /\ [][Next]_vars

-----------------------------------------------------------------------------
(* Properties.                                                             *)

\* BackupAPILayers: when a value is about to be deleted, its path is in a backup
\* file, unless it was set after the backup of this run of the program, or the
\* backup missed it.  (A crash between the deletion and SetNext loses a layer
\* that is in none.)
SavedBeforeDeleted ==
  pc = "delete"
    => \A i \in index..Len(layers) : layers[i].path \in saved \cup recent \cup skipped

\* SetAPILayers, whatever other programs do meanwhile: when it returns TRUE, the
\* key and the new list disagree only on layers that another program wrote
\* during the call, or that one made GetAPILayers pass over.
OnlyTouchedDiffer ==
  pc = "idle" /\ result
    => /\ PathsOf(key) \ PathsOf(wanted) \subseteq touched \cup skipped
       /\ PathsOf(wanted) \ PathsOf(key) \subseteq touched

\* SetAPILayers is one step of an atomic store, unless another program writes
\* meanwhile: the old list is there until the call returns.
Interfered == pc # "idle" /\ touched # {}

Atomic == INSTANCE AtomicStore WITH
  key <- IF pc \in {"delete", "set"} /\ ~Interfered THEN layers ELSE key,
  writing <- pc # "idle",
  interfered <- Interfered

ImplementsAtomicStore == Atomic!Spec
=============================================================================
