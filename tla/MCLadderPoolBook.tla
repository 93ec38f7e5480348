-------------------------- MODULE MCLadderPoolBook --------------------------
(***************************************************************************)
(* Instances of LadderPoolBook for TLC.                                    *)
(***************************************************************************)
EXTENDS LadderPoolProperties, MCRequests

\* The book never reads the order that a free node still holds, so states that
\* differ only in those contents need not be told apart.
LiveContents ==
  <<handlerVars, levelVars, lookup, prev, next, next_free, in_use, pool_size, free_head,
    [n \in in_use |-> order[n]]>>
=============================================================================
