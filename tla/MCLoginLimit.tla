------------------------------ MODULE MCLoginLimit ------------------------------
(* A small instance of LoginLimit for TLC. *)
EXTENDS LoginLimit, TLC

CONSTANTS h1, h2, h3

Requests == Permutations(Handler)

\* Two attempts; a lockout longer, as long and shorter than the window.
Lengths == {[attempts |-> 2, window |-> 2, lockout |-> l] : l \in 1..3}
=============================================================================
