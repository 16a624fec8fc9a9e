------------------------- MODULE MCServiceLifecycle -------------------------
(* The lifecycle needs no other instance than its four services. *)
EXTENDS ServiceLifecycle

=============================================================================
