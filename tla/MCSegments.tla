----------------------------- MODULE MCSegments -----------------------------
(* Instances of Segments for TLC. *)
EXTENDS Segments, TLC

(* Records are interchangeable: no action tells two of them apart. *)
RecordSymmetry == Permutations(Records)

(* Symmetry is not sound for liveness.  With numbers for records, the runs  *)
(* that accept them in their order stand for all the others.               *)
AppendsInOrder == \A r \in appended' : 1 .. r \subseteq appended'

OrderedFairSpec == Init /\ [][Next /\ AppendsInOrder]_vars /\ Fairness
=============================================================================
