---------------------------- MODULE MCCustomFields ----------------------------
(* Small instances of CustomFields for TLC. *)
EXTENDS CustomFields

CONSTANTS loop, api, api2

\* The second column called rack gets the key that one called rack_2 would.
KeyText(name, i) ==
  CASE name = "rack" /\ i = 1 -> "rack"
    [] name = "rack" /\ i = 2 -> "rack_2"
    [] name = "rack" /\ i = 3 -> "rack_3"
    [] name = "rack_2" /\ i = 1 -> "rack_2"
    [] name = "rack_2" /\ i = 2 -> "rack_2_2"
    [] OTHER -> "rack_2_3"

OnlyNumbers == [t \in Type |-> IF t = "number" THEN Value \cap {"", "7"} ELSE Value]
=============================================================================
