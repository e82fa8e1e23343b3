--------------------------- MODULE SidecarContract ---------------------------
(***************************************************************************)
(* What the writers of a typed sidecar promise together: the stored          *)
(* generation only grows, each call has its effect at one instant or not at  *)
(* all, and what it answers was true at that instant.                        *)
(***************************************************************************)
EXTENDS Integers

CONSTANTS Calls, Sequence

VARIABLES stored, outcome

vars == <<stored, outcome>>

Init ==
    /\ stored.kind \in {"absent", "document", "other", "invalid", "unsafe"}
    /\ outcome = [c \in Calls |-> "open"]

\* The call replaces nothing, or a document of a smaller sequence.
Commit(c) ==
    /\ outcome[c] = "open"
    /\ \/ stored.kind = "absent"
       \/ stored.kind = "document" /\ stored.sequence < Sequence[c]
    /\ stored'.kind = "document" /\ stored'.sequence = Sequence[c]
    /\ outcome' = [outcome EXCEPT ![c] = "ok"]

\* The call comes too late.
Refuse(c) ==
    /\ outcome[c] = "open"
    /\ stored.kind = "document" /\ stored.sequence >= Sequence[c]
    /\ outcome' = [outcome EXCEPT ![c] = "stale"]
    /\ UNCHANGED stored

\* The call fails, for any other reason, and has changed nothing.
GiveUp(c) ==
    /\ outcome[c] = "open"
    /\ outcome' = [outcome EXCEPT ![c] = "failed"]
    /\ UNCHANGED stored

Next == \E c \in Calls : Commit(c) \/ Refuse(c) \/ GiveUp(c)

Spec == Init /\ [][Next]_vars
=============================================================================
