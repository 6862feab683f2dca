----------------------------- MODULE AtomicStore -----------------------------
(***************************************************************************)
(* What ReadWriteAPILayerStore::SetAPILayers promises its callers: the     *)
(* store becomes the list it was given, or it already was and FALSE is     *)
(* returned.  A process that dies meanwhile leaves the end of the old list *)
(* or the beginning of the new one.  Once another program has written      *)
(* during a call, nothing is promised of what that call leaves, but the    *)
(* next one starts from whatever is there.                                 *)
(***************************************************************************)
EXTENDS LayerEdits

VARIABLES key,        \* the registry key
          writing,    \* a call is being made
          interfered, \* another program wrote during the call
          wanted,     \* its argument
          result      \* what the last call returned

vars == <<key, writing, interfered, wanted, result>>

Init ==
  /\ IsKey(key)
  /\ writing = FALSE
  /\ interfered = FALSE
  /\ wanted = <<>>
  /\ result = FALSE

\* Another program, between calls.
Change ==
  /\ ~writing
  /\ IsKey(key')
  /\ UNCHANGED <<writing, interfered, wanted, result>>

\* Another program, during a call, and what the call then does.
Interfere ==
  /\ writing
  /\ interfered' = TRUE
  /\ IsKey(key')
  /\ UNCHANGED <<writing, wanted, result>>

Call ==
  /\ ~writing
  /\ writing' = TRUE
  /\ IsKey(wanted')
  /\ UNCHANGED <<key, interfered, result>>

Return ==
  /\ writing
  /\ writing' = FALSE
  /\ interfered' = FALSE
  /\ \/ /\ ~interfered
        /\ key' = IF key = wanted THEN key ELSE Written(wanted)
        /\ result' = (key # wanted)
     \/ /\ interfered
        /\ IsKey(key')
        /\ result' \in BOOLEAN
  /\ UNCHANGED wanted

\* The program ends, in a call or not, and starts again.
Restart ==
  /\ writing' = FALSE
  /\ interfered' = FALSE
  /\ result' = FALSE
  /\ \/ key' = key
     \/ writing /\ IsSuffix(key', key)
     \/ writing /\ IsPrefix(key', Written(wanted))
     \/ interfered /\ IsKey(key')
  /\ UNCHANGED wanted

Next == Change \/ Interfere \/ Call \/ Return \/ Restart

Spec == Init /\ [][Next]_vars
=============================================================================
