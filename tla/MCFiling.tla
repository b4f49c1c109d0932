------------------------------ MODULE MCFiling ------------------------------
(* Instances of filing a request for TLC.                                  *)
EXTENDS FilingProperties
=============================================================================
