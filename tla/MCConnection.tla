---------------------------- MODULE MCConnection ----------------------------
(* Connection with few endpoints and retries; the values are in the .cfg files. *)
EXTENDS Connection
=============================================================================
