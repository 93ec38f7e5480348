----------------------------- MODULE MCMapBook ------------------------------
(***************************************************************************)
(* Instances of MapBook for TLC.                                           *)
(***************************************************************************)
EXTENDS MapProperties, MCRequests
=============================================================================
