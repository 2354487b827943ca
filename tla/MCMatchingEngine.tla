-------------------------- MODULE MCMatchingEngine --------------------------
(* Small instances of MatchingEngine for TLC. *)
EXTENDS EngineRestart, TLC

Wide == [max_order_size |-> 2, max_long_position |-> 3, max_short_position |-> 3]
Narrow == [max_order_size |-> 2, max_long_position |-> 2, max_short_position |-> 2]
Tight == [max_order_size |-> 1, max_long_position |-> 1, max_short_position |-> 1]
LongOne == [max_order_size |-> 1, max_long_position |-> 1, max_short_position |-> 2]

MCDefaultLimits == Wide
MCNarrowLimits == Narrow
MCLimits == {Tight}
MCNoLimits == {}
MCLongOne == LongOne

\* Ids and accounts are interchangeable: nothing orders them or names one of them.
Symmetry == Permutations(Ids) \cup Permutations(Accounts)
=============================================================================
