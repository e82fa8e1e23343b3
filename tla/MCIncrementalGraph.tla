------------------------- MODULE MCIncrementalGraph -------------------------
(***************************************************************************)
(* Three modules: 1 is a library, 2 a facade of the same package that       *)
(* re-exports it, 3 an application of another package that imports 2.       *)
(***************************************************************************)
EXTENDS IncrementalGraph

Same == {<<2, 1>>}

\* A comment, a package-internal signature and a public signature may change
\* in the library; the facade may drop its re-export, the application may go.
Edited == [m \in 1 .. 3 |->
             CASE m = 1 -> {"base", "body", "internal", "public"}
               [] m = 2 -> {"base", "cut"}
               [] m = 3 -> {"base", Absent}]

Few == [m \in 1 .. 3 |->
          CASE m = 1 -> {"base", "public"} [] m = 2 -> {"cut"} [] m = 3 -> {Absent}]

ImportsOf(m, s) ==
    CASE m = 2 /\ s[2] = "base" -> {1} [] m = 3 /\ s[3] = "base" -> {2}
      [] OTHER -> {}

\* A re-export resolves to the module that declares the symbol.
EdgesOf(m, s) == IF m = 2 THEN ImportsOf(2, s) ELSE ImportsOf(m, s)

Facts(s) == [public |-> s[1] = "public", internal |-> s[1] = "internal"]

InterfaceOf(m, s) ==
    CASE m = 1 -> Facts(s)
      [] m = 2 -> [public |-> IF s[2] = "base" THEN <<Facts(s).public>> ELSE <<>>,
                   internal |-> <<>>]
      [] m = 3 -> [public |-> "app", internal |-> "app"]
=============================================================================
