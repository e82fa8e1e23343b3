--------------------------- MODULE MCSidecarWriter ---------------------------
(***************************************************************************)
(* Two calls in one process, and one in another with the sequence of the     *)
(* older of the two, which trusts the digest that it was given.             *)
(***************************************************************************)
EXTENDS SidecarWriter

Where == [c \in Calls |-> IF c = "c3" THEN "q" ELSE "p"]
Generations == [c \in Calls |-> IF c = "c1" THEN 3 ELSE 2]
=============================================================================
