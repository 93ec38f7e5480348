----------------------------- MODULE MCTwoBooks -----------------------------
(***************************************************************************)
(* Instances of TwoBooks for TLC.                                          *)
(***************************************************************************)
EXTENDS TwoBooks, MCRequests

\* The ladder never reads the order that a free node still holds.
LiveContentsOfBoth ==
  <<handlerVars, levelVars, lookup, prev, next, next_free, in_use, pool_size, free_head,
    [n \in in_use |-> order[n]], mapVars>>
=============================================================================
