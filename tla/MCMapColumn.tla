---------------------------- MODULE MCMapColumn -----------------------------
(* MapColumn with two columns, two keys, two values and NULL. *)
EXTENDS MapColumn, TLC

CONSTANTS one, two, k, l, zero, v, null, long

MCCols == {one, two}
MCKeys == {k, l}
MCValues == {zero, v}

\* A first entry that is refused leaves nothing behind if its value is; the
\* last two rows leave an entry, and a value without a key.
MCInputs == {<<>>, <<<<k, v>>>>, <<<<k, null>>, <<l, v>>>>, <<<<k, long>>>>,
             <<<<k, v>>, <<l, long>>>>, <<<<long, v>>>>}

\* Under NULL the server stores the default or another value.
MCSent ==
    {[rows   |-> <<<<>>>>,
      column |-> [offsets |-> <<0>>, keys |-> <<>>, nulls |-> <<>>, values |-> <<>>]],
     [rows   |-> <<<<>>, <<<<k, v>>, <<l, zero>>>>>>,
      column |-> [offsets |-> <<0, 2>>, keys |-> <<k, l>>, nulls |-> <<0, 0>>,
                  values |-> <<v, zero>>]]}
    \cup {[rows   |-> <<<<<<l, null>>>>, <<<<k, v>>>>>>,
           column |-> [offsets |-> <<1, 2>>, keys |-> <<l, k>>, nulls |-> <<1, 0>>,
                       values |-> <<under, v>>]] : under \in MCValues}

Symmetry == Permutations(MCCols)
=============================================================================
