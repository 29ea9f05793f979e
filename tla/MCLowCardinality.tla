-------------------------- MODULE MCLowCardinality --------------------------
(* LowCardinality with two columns of FixedStrings, whose default is padded. *)
EXTENDS LowCardinality

CONSTANTS a, b, empty, zeros, x, y, long, null

MCCols == {a, b}
MCValues == {empty, zeros, x, y, long}
FewValues == {empty, zeros, x, long}
MCPadded == [v \in MCValues |-> IF v = empty THEN zeros ELSE v]
FewPadded == [v \in FewValues |-> MCPadded[v]]
MCRefused == {long}
MCPlains == {<<>>, <<zeros>>, <<x, null>>}
Symmetry == Permutations(MCCols)
MCCapacity == [w \in Width |-> 8]
=============================================================================
