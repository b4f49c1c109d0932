--------------------------- MODULE MCOfflineShell ---------------------------
(* Instances of the service worker for TLC.                                *)
EXTENDS OfflineShellProperties
=============================================================================
