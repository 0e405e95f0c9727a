--------------------------- MODULE MCExecuteStream ---------------------------
(***************************************************************************)
(* The instances of ExecuteStream for TLC. Its cfgs give the constants:    *)
(* requests and contexts are model values, and are not permuted, since the *)
(* run of stream_promise checks liveness, for which symmetry is unsound.   *)
(***************************************************************************)
EXTENDS ExecuteStream
==============================================================================
