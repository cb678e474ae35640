------------------------------ MODULE MCMalloc ------------------------------
(* Requests for the runs of Malloc. *)
EXTENDS MallocRefinement

\* Blocks of one and of two units, none of it, and aligned ones.
MCRequest == [size : {0, 4, 16}, align : {1}] \cup [size : {8, 16}, align : {16, 32}]

MCAligned == [size : {8}, align : {1, 16}]
=============================================================================
