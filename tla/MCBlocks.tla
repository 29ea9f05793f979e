------------------------------- MODULE MCBlocks ------------------------------
(* Two columns in two blocks, over bytes of two bits: a text of four bytes *)
(* takes a length of two.                                                  *)
EXTENDS Blocks

MCKinds == [c \in Column |-> CASE c = "c1" -> "string"
                               [] c = "c2" -> "prefixed"]
MCStrings == {<<>>, <<4, 0, 7, 7>>}
MCParameters == BoundedSeq(Special \cup {0, 4}, 2)

=============================================================================
