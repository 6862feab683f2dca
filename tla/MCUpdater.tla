------------------------------ MODULE MCUpdater ------------------------------
(* An instance of Updater for TLC. *)
EXTENDS Updater

CONSTANTS setup, installer, helper
=============================================================================
