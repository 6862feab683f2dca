--------------------------- MODULE MCExplicitStores ---------------------------
(* An instance of ExplicitStores for TLC. *)
EXTENDS ExplicitStores

CONSTANTS p, q

MCRegistryStores == <<"Explicit Win64-HKLM", "Explicit Win32-HKLM">>
MCBitness ==
  ("Explicit Win64-HKLM" :> "x64") @@ ("Explicit Win32-HKLM" :> "x86")

MCOverridePaths == <<q>>

Entry(path, value) == [path |-> path, value |-> value]

MCKeys ==
  {<<>>, <<Entry(p, "NotDWORD")>>, <<Entry(p, "Enabled"), Entry(q, "Enabled")>>}

MCManifests ==
  {[content |-> content] : content \in {"absent", "illTyped"}}
    \cup [content : {"layer"}, name : {"A"}, library : {"missing", "x86", "x64"}]

\* Unset, and one name with a semicolon after it.
MCEnvironments == {<<>>, <<"A", "">>}
=============================================================================
