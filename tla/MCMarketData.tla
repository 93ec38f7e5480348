---------------------------- MODULE MCMarketData ----------------------------
(***************************************************************************)
(* Instances of LadderMarketData for TLC.                                  *)
(***************************************************************************)
EXTENDS LadderMarketData, MCRequests
=============================================================================
