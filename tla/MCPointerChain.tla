---------------------------- MODULE MCPointerChain ----------------------------
(* Two chains of five elements, in every order. *)
EXTENDS PointerChain
=============================================================================
