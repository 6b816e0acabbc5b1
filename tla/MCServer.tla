------------------------------- MODULE MCServer -------------------------------
(***************************************************************************)
(* Server on small instances.                                              *)
(***************************************************************************)
EXTENDS Server, TLC

\* The workers are interchangeable; the clients are not, their order matters.
Symmetric == Permutations(Workers)

==============================================================================
