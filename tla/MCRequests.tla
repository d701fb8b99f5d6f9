----------------------------- MODULE MCRequests -----------------------------
(***************************************************************************)
(* Two requests at a time: one may be answered, or time out, while another *)
(* is under way across a reset of the counters.                            *)
(***************************************************************************)
EXTENDS Requests

CONSTANTS r1, r2
=============================================================================
