--------------------------- MODULE MCAsyncRunner ----------------------------
(* AsyncRunner for TLC: the configurations give Requests and Cap. *)
EXTENDS AsyncRunner
=============================================================================
