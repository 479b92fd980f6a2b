-------------------------- MODULE MCProductRequests --------------------------
(* Two users with URLs of every shape, for one product.                      *)
EXTENDS ProductRequests

CONSTANTS r1, r2

MCShape == [u \in Url |-> u]
MCNamed == [u \in Url |-> 1]
==============================================================================
