------------------------------ MODULE MCSessions ------------------------------
(* Small instances of Sessions for TLC. *)
EXTENDS Sessions, TLC

CONSTANTS h1, h2, h3

\* Requests are interchangeable.
Requests == Permutations(Handler)
=============================================================================
