------------------------- MODULE MCShredReconciler --------------------------
(* Two signatures and one key without a signature. *)
EXTENDS ShredReconciler

CONSTANTS s1, s2, u1

McKeys == {s1, s2, u1}
McSigned == {s1, s2}
=============================================================================
