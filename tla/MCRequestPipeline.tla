-------------------------- MODULE MCRequestPipeline --------------------------
(* Requests for TLC: each instance names the requests that arrive. *)
EXTENDS RequestPipeline

CONSTANTS f1, f2, f3, p1, p2, d1, s1, u1

AllKinds == [r \in {f1, f2, f3, p1, p2, d1, s1, u1} |->
               CASE r \in {f1, f2, f3} -> "File"
                 [] r \in {p1, p2} -> "Process"
                 [] r = d1 -> "Direct"
                 [] r = s1 -> "Stop"
                 [] r = u1 -> "Unknown"]

KindOf == [r \in Requests |-> AllKinds[r]]

=============================================================================
