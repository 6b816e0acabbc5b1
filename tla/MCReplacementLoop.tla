--------------------------- MODULE MCReplacementLoop ---------------------------
(***************************************************************************)
(* ReplacementLoop on small instances.                                     *)
(***************************************************************************)
EXTENDS ReplacementLoop, LockServices, TLC

\* Clients and files are interchangeable.
Symmetric == Permutations(Clients) \cup Permutations(Files)

================================================================================
