------------------------------ MODULE MCLayerSet ------------------------------
(* An instance of LayerSet for TLC. *)
EXTENDS LayerSet

CONSTANTS a, b, c

\* One fix of each kind, with those that disturb one another: a belongs above b,
\* c below a; b does not load; a is known to be bad; b must be last.
MCFixes ==
  {[kind |-> "ordering", path |-> a, position |-> "Above", anchor |-> b],
   [kind |-> "ordering", path |-> c, position |-> "Below", anchor |-> a],
   [kind |-> "remove", path |-> b],
   [kind |-> "disable", path |-> a],
   [kind |-> "last", path |-> b]}

\* Another program removes layers, puts them in another order, or
\* writes a value that is no DWORD.
Enabled(path) == [path |-> path, value |-> "Enabled"]

MCForeignKeys ==
  {<<Enabled(b)>>, <<Enabled(c), Enabled(b), Enabled(a)>>,
   <<[path |-> a, value |-> "NotDWORD"], Enabled(b), Enabled(c)>>}
=============================================================================
