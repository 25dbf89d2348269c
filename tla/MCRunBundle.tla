---------------------------- MODULE MCRunBundle ----------------------------
(* RunBundle with two processes that share a run id and one that has its own. *)
EXTENDS RunBundle, TLC

CONSTANTS r1, r2, r3, contract, dockerfile

RunIdOf == [r \in Runs |-> IF r = r3 THEN "other" ELSE "shared"]

Symmetric == Permutations({r1, r2}) \union Permutations(Paths)
=============================================================================
