-------------------------- MODULE MCLanguageServer --------------------------
(***************************************************************************)
(* Two documents and two texts.  The documents are interchangeable: instead *)
(* of a symmetry set, which a run with liveness does not take, the first one *)
(* that the client opens is a, and the second is a again, closed or not, or  *)
(* b.                                                                       *)
(***************************************************************************)
EXTENDS LanguageServer

\* A document opened again looks the same: same version, same text.
FirstIsA == <<{<<"a", 1, "s">>}, {<<"a", 1, "s">>, <<"b", 1, "s">>}>>
=============================================================================
