--------------------------- MODULE MCTentativeSells ---------------------------
(* Two sells of one wallet and two reports of each, with or without the          *)
(* signature.  One report decoded a slot or an amount far from those of the      *)
(* others, of its own transaction too; the others are close.                     *)
EXTENDS TentativeSells

CONSTANTS t1, t2, w1, m1, raw, deshred

OneSeller == [t \in Transactions |-> w1]
OneMint == [t \in Transactions |-> m1]
Close == {pq \in Signals \X Signals : <<t2, raw>> \notin {pq[1], pq[2]}}
=============================================================================
