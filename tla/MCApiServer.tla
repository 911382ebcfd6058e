---------------------------- MODULE MCApiServer ----------------------------
(***************************************************************************)
(* ApiServer with few requests: more requests than permits and threads,    *)
(* and a quota that one client can exhaust and wait out.                   *)
(***************************************************************************)
EXTENDS ApiServer

CONSTANTS r1, r2, r3

=============================================================================
