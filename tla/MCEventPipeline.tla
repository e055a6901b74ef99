-------------------------- MODULE MCEventPipeline --------------------------
(* Three messages of two users: two of one user, to see the order within a *)
(* session, and one of another, to see the sessions kept apart.            *)
EXTENDS EventPipeline

CONSTANTS u1, u2, m1, m2, m3

MCSender == (m1 :> u1) @@ (m2 :> u1) @@ (m3 :> u2)
=============================================================================
