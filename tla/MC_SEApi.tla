------------------------------- MODULE MC_SEApi -------------------------------
(***************************************************************************)
(* Instances of SEApi for TLC.                                             *)
(***************************************************************************)
EXTENDS SEApi

=============================================================================
