------------------------- MODULE MCComponentsManager -------------------------
(* Small instances of ComponentsManager for TLC.                           *)
EXTENDS ComponentsManager, TLC
=============================================================================
