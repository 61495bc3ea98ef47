------------------------------- MODULE MC_T1Link ------------------------------
(***************************************************************************)
(* Instances of T1Link for TLC: the information in a card block is the     *)
(* exchange it answers and its place in the response.                      *)
(***************************************************************************)
EXTENDS T1Link

CONSTANTS Calls, Blocks
ResponseInf == [call : Calls, n : Blocks]
=============================================================================
