-------------------------- MODULE MCWindowsPlatform --------------------------
(* An instance of WindowsPlatform for TLC. *)
EXTENDS WindowsPlatform

CONSTANTS x86, x64, hkcu
=============================================================================
