--------------------------- MODULE MCSessaoRefresh ---------------------------
(* Instances of SessaoRefresh for TLC.                                     *)
EXTENDS SessaoRefresh, TLC
=============================================================================
