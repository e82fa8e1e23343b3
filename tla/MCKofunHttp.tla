----------------------------- MODULE MCKofunHttp -----------------------------
(***************************************************************************)
(* Scripts for the HTTP server, small enough for TLC.                       *)
(***************************************************************************)
EXTENDS KofunHttp, SequencesExt, TLC

\* Request k as a header of `heads` units and its end, then its body.
Request(k, heads, end, body) ==
    [i \in 1 .. heads |-> [req |-> k, part |-> "head"]]
    \o <<[req |-> k, part |-> end]>>
    \o [i \in 1 .. body |-> [req |-> k, part |-> "body"]]

Pipelined  == Request(1, 0, "post", 1) \o Request(2, 1, "get", 0)
ThenCloses == Request(1, 0, "get", 0) \o Request(2, 0, "close", 0)
                                      \o Request(3, 0, "get", 0)
ThenBad    == Request(1, 1, "get", 0) \o Request(2, 0, "bad", 0)
ThenLarge  == Request(1, 0, "get", 0) \o Request(2, 0, "large", 1)
LongHeader == Request(1, 2, "get", 0)
SlowHeader == Request(1, 3, "get", 0)

FiveGets   == [k \in 1 .. 5 |-> [req |-> k, part |-> "get"]]

OneClient   == {Pipelined, FiveGets, ThenCloses, ThenBad, ThenLarge, LongHeader}
ShortScript == {Request(1, 0, "get", 0)}
Slow        == {SlowHeader}

\* The behaviours of Spec in which the server is never late and the client never
\* silent: time passes only while epoll has nothing to report, and never until
\* a connection was idle for the timeout.
TrickleSpec ==
    Init /\ [][Next /\ (tick => /\ phase = "wait" /\ Ready = {}
                               /\ \A s \in Slots : connections'[s].age < idle_timeout)]_vars

ClientSymmetry == Permutations(Clients)
=============================================================================
