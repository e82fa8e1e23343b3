-------------------------- MODULE MCScopedParallel --------------------------
(***************************************************************************)
(* Instances of ScopedParallel for TLC.  Tasks and workers are numbered and *)
(* the number matters (spawn order, the reaping loop), so no symmetry set   *)
(* is declared.                                                             *)
(***************************************************************************)
EXTENDS ScopedParallel

\* Between them the two instances have every outcome a body may return, and a
\* value that is none.
OneOfEach  == {<<"SUCCESS", "none">>, <<"CANCELLED", "none">>,
               <<"PANIC", "no valid outcome">>}
Panics     == {<<"SUCCESS", "none">>, <<"PANIC", "own">>}
EitherWay  == BOOLEAN
Always     == {TRUE}
=============================================================================
