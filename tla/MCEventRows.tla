----------------------------- MODULE MCEventRows ----------------------------
(* v and w are the workers of the run's coroutine. *)
EXTENDS EventRows

CONSTANTS v, w
=============================================================================
