----------------------------- MODULE MCTransport -----------------------------
(* Servers on both sides of the revisions at which the layouts change, one *)
(* of them exactly on such a revision.                                     *)
EXTENDS Transport

MCRevision == [s \in Servers |-> CASE s = "old" -> 54058
                                   [] s = "new" -> 54459]

=============================================================================
