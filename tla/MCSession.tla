----------------------------- MODULE MCSession ------------------------------
(* Session for TLC; the bounds are set in the configurations.              *)
EXTENDS Session

MCOptions == [ping_before_query : BOOLEAN, rethrow_exceptions : BOOLEAN]
NoPing == [ping_before_query : {FALSE}, rethrow_exceptions : {TRUE}]
=============================================================================
