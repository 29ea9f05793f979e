--------------------------- MODULE MCStringColumn ---------------------------
(* StringColumn with two columns; a block holds two letters, a text one    *)
(* or three of them.                                                       *)
EXTENDS StringColumn

CONSTANTS one, two

MCCols == {one, two}
MCTexts == {<<"a">>, <<"b", "c", "d">>}
MCSent == {<<<<"a">>, <<"b", "c", "d">>>>}
Symmetry == Permutations(MCCols)
=============================================================================
