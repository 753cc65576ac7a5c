----------------------------- MODULE MCChainView ----------------------------
(* The vault of the curve and two token accounts of two owners.            *)
EXTENDS ChainView

CONSTANTS vault, a1, a2, program, o1, o2

McAccounts == {vault, a1, a2}
McOwners == {program, o1, o2}
McSymmetry == Permutations({a1, a2}) \cup Permutations({o1, o2})
=============================================================================
