----------------------------- MODULE MCMetaCalls -----------------------------
(* The calls of one recipient, for TLC. *)
EXTENDS MetaCalls, TLC

\* Nothing tells two agents, keys, calls or answers apart.
Symmetry == Permutations(Users) \cup Permutations(Keys) \cup
            Permutations(Calls) \cup Permutations(Answers)
=============================================================================
