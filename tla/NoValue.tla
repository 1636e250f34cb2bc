------------------------------- MODULE NoValue -------------------------------
(***************************************************************************)
(* The Python value None, for the models that are looked at side by side.  *)
(***************************************************************************)
CONSTANT None
==============================================================================
