------------------------------- MODULE Eager -------------------------------
(* A LET definition or an operator's argument is evaluated anew wherever it   *)
(* is used, a loop written with operators many times over.                   *)

\* Op(x), with x evaluated once.
Given(x, Op(_)) == CHOOSE y \in {Op(v) : v \in {x}} : TRUE
=============================================================================
