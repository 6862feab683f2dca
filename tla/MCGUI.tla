-------------------------------- MODULE MCGUI --------------------------------
(* Instances of GUI for TLC.                                               *)
EXTENDS GUI

CONSTANTS x64, hkcu, hklm
=============================================================================
