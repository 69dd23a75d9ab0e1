---------------------------- MODULE MCLazyPirate ----------------------------
(* LazyPirate with few clients and short times. *)
EXTENDS LazyPirate

=============================================================================
