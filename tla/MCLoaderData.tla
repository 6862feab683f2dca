---------------------------- MODULE MCLoaderData ----------------------------
(* An instance of LoaderData for TLC. *)
EXTENDS LoaderData, TLC

CONSTANTS a, b, XR_DISABLE, PATH

\* One layer that a variable disables, and one that none does.
MCDisableEnv == (a :> XR_DISABLE) @@ (b :> NoVariable)
=============================================================================
