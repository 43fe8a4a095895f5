----------------------------- MODULE MCRequests -----------------------------
(* The instance of Requests that TLC checks, given by the .cfg file. *)
EXTENDS Requests
=============================================================================
