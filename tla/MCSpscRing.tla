----------------------------- MODULE MCSpscRing -----------------------------
(* A ring of three slots passed over more than twice, two contents, two sizes. *)
EXTENDS SpscRing

=============================================================================
