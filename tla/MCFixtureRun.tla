---------------------------- MODULE MCFixtureRun ----------------------------
(* Two tokens, a pause of one of them, of all, and their resumption. *)
EXTENDS FixtureRun

CONSTANTS m1, m2, s1, s2

McTrades == {[mint |-> m1, key |-> s1], [mint |-> m2, key |-> s2]}
McGaps == {[tokens |-> {m1}, resume |-> FALSE], [tokens |-> {m1}, resume |-> TRUE],
           [tokens |-> {}, resume |-> FALSE], [tokens |-> {}, resume |-> TRUE]}
=============================================================================
