----------------------------- MODULE MCFileStorage -----------------------------
(***************************************************************************)
(* FileStorage on small instances.                                         *)
(***************************************************************************)
EXTENDS LockServices, TLC

\* Clients and files are interchangeable: sound for invariants and action
\* properties, not used where a leads-to is checked.
Symmetric == Permutations(Clients) \cup Permutations(Files)

==============================================================================
