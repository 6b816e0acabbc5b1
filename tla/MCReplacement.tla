----------------------------- MODULE MCReplacement -----------------------------
(***************************************************************************)
(* Replacement on small instances.                                         *)
(***************************************************************************)
EXTENDS Replacement, TLC

Symmetric == Permutations(Clients) \cup Permutations(Files)

\* test1.sh, test2.sh and test3.sh name the log after the policy.
TestConfigs == {[policy_type |-> p, log_name |-> p] : p \in Policies}

================================================================================
