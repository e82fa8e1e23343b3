----------------------------- MODULE KofunHttp -----------------------------
(***************************************************************************)
(* The HTTP/1.1 server of framework/http/src/kofun_http.c: one thread, one  *)
(* epoll loop, a fixed table of connections, drain on SIGINT or SIGTERM.    *)
(*                                                                          *)
(* A handler of the loop is one step; the kernel and the clients move       *)
(* between handlers, so an event may be old when its turn comes.  Data is   *)
(* counted in units: a header is some "head" units and one unit that ends   *)
(* it and stands for what the header says, a body is "body" units, and      *)
(* every response is ResponseUnits long.  The socket buffer towards client  *)
(* c has room[c] units left.  A socket descriptor is a number the kernel    *)
(* uses again as soon as it is closed.                                      *)
(***************************************************************************)
EXTENDS Integers, Sequences, FiniteSets

CONSTANTS
    Clients,                \* each opens at most one connection
    Scripts,                \* what a client may write: sequences of units
    maximum_connections, maximum_header, maximum_body,
    idle_timeout, drain_timeout,              \* in ticks
    KH_MAX_HEADER, KH_MAX_BODY, KH_MAX_EVENTS, KH_MAX_ROUTES,
    ResponseUnits, SendRoom,
    NoClient

InputCapacity == KH_MAX_HEADER + KH_MAX_BODY + 1    \* KH_INPUT_CAPACITY

ASSUME LimitsAssumption ==
    /\ {maximum_connections, idle_timeout, drain_timeout, KH_MAX_EVENTS,
        KH_MAX_ROUTES, ResponseUnits, SendRoom} \subseteq Nat \ {0}
    /\ KH_MAX_HEADER \in Nat /\ maximum_header \in 1 .. KH_MAX_HEADER
    /\ KH_MAX_BODY \in Nat /\ maximum_body \in 0 .. KH_MAX_BODY
    /\ NoClient \notin Clients

Slots == 1 .. maximum_connections
NoFd       == -1
ListenerFd == 0
SignalFd   == 1
ConnectionFds == 2 .. maximum_connections + 2   \* one more than there are slots

\* The unit that ends a header: what the request turns out to be.
Ends == {"get", "post", "close", "bad", "large"}

ContentLength(end) ==
    CASE end = "post" -> 1 [] end = "large" -> maximum_body + 1 [] OTHER -> 0

Unit == [req : Nat \ {0}, part : {"head", "body"} \cup Ends]

\* What a client writes is a sequence of requests, numbered from 1: a header
\* that ends, then the units of its body.  Any text reads like that: what
\* follows a request is the next one.  A body that is too large is never read
\* and takes the rest.
IsScript(S) ==
    /\ S \in Seq(Unit)
    /\ \A i, j \in DOMAIN S : i <= j => S[i].req <= S[j].req
    /\ S # <<>> => S[1].req = 1 /\ S[1].part # "body"
    /\ \A i \in DOMAIN S : S[i].part = "head" =>
         i + 1 \in DOMAIN S /\ S[i + 1].req = S[i].req /\ S[i + 1].part # "body"
    /\ \A i \in DOMAIN S : S[i].part = "large" =>
         \A j \in i + 1 .. Len(S) : S[j].part = "body"
    /\ \A i \in DOMAIN S : S[i].part \in Ends \ {"large"} =>
         LET last == i + ContentLength(S[i].part) IN
         /\ last \in DOMAIN S /\ S[last].req = S[i].req
         /\ \A j \in i + 1 .. last : S[j].part = "body"
         /\ last < Len(S) => S[last + 1].req = S[i].req + 1
                             /\ S[last + 1].part # "body"

ASSUME ScriptsAssumption == \A S \in Scripts : IsScript(S)

VARIABLES
    \* the loop and the fields of struct KhServer
    phase, status, routes, configuration_error,
    listener, draining, drain_left, active_connections,
    \* the table of struct KhConnection, the events left of this iteration
    connections, batch,
    \* the kernel: open sockets, the accept queue, a pending signal, and for
    \* each client the units on their way, its end or reset, its buffer space
    socket, backlog, signal, inbound, fin, rst, room,
    \* the clients: what each writes, how much it has written, what it got
    script, written, joined, got

configVars == <<routes, configuration_error>>
drainVars  == <<listener, draining, drain_left>>
tableVars  == <<connections, active_connections, socket>>
wireVars   == <<inbound, fin, rst, room>>
clientVars == <<script, written, joined>>
serverVars == <<phase, status, configVars, drainVars, tableVars, batch>>
worldVars  == <<wireVars, clientVars, got>>
vars == <<serverVars, backlog, signal, worldVars>>

NoResponse == [req |-> 0, status |-> 0, close |-> FALSE]

\* waited is not in the code: the ticks since the request in the input began.
Free == [fd |-> NoFd, peer |-> NoClient, input |-> <<>>, request |-> 0,
         out |-> NoResponse, sent |-> 0, age |-> 0, waited |-> 0,
         peer_closed |-> FALSE, drain |-> FALSE, want_out |-> FALSE]

Used == {s \in Slots : connections[s].fd # NoFd}

Smallest(S) == CHOOSE x \in S : \A y \in S : x <= y
Lesser(a, b) == IF a < b THEN a ELSE b

\* kofun_http_server_new has bound the listener and opened it.
Init ==
    /\ phase = "config" /\ status = 0
    /\ routes = 0 /\ configuration_error = FALSE
    /\ listener = ListenerFd /\ draining = FALSE /\ drain_left = 0
    /\ active_connections = 0
    /\ connections = [s \in Slots |-> Free]
    /\ batch = {}
    /\ socket = [fd \in ConnectionFds |-> NoClient]
    /\ backlog = <<>> /\ signal = FALSE
    /\ inbound = [c \in Clients |-> <<>>]
    /\ fin = [c \in Clients |-> FALSE] /\ rst = [c \in Clients |-> FALSE]
    /\ room = [c \in Clients |-> SendRoom]
    /\ script \in [Clients -> Scripts]
    /\ written = [c \in Clients |-> 0] /\ joined = {}
    /\ got = [c \in Clients |-> <<>>]

-----------------------------------------------------------------------------
\* One connection: operators from a connection to a connection.  Free is
\* what a handler returns when the connection must be closed.
HasResponse(c) == c.out # NoResponse

prepare_response(c, req, code, close) ==
    [c EXCEPT !.out = [req |-> req, status |-> code, close |-> close],
              !.sent = 0]

update_connection_events(c) == [c EXCEPT !.want_out = HasResponse(c)]

\* The answer to the request in the first `length` units of the input.
answer(c, length, code, close) ==
    prepare_response([c EXCEPT !.request = length], c.input[1].req, code, close)

find_header_end(input) ==
    LET ends == {i \in DOMAIN input : input[i].part \in Ends}
    IN IF ends = {} THEN 0 ELSE Smallest(ends)

\* Mutant: a draining server keeps the connection.
close_after_request(end, c) == end = "close"

close_after(end, c) == end = "close" \/ c.drain \/ draining

\* Mutant: the body is left in the input.
request_length_header(length, body) == length

\* The body is part of the request.
request_length(length, body) == length + body

\* Mutant: only a header that has not ended yet is checked.
header_too_large_unended(c, length) == length = 0 /\ Len(c.input) >= maximum_header

header_too_large(c, length) ==
    \/ length = 0 /\ Len(c.input) >= maximum_header
    \/ length > maximum_header

\* c itself when more units are needed.
process_request(c) ==
    LET length == find_header_end(c.input)
        end    == IF length = 0 THEN "none" ELSE c.input[length].part
        body   == ContentLength(end)
    IN IF header_too_large(c, length)
       THEN answer(c, IF length = 0 THEN Len(c.input) ELSE length, 431, TRUE)
       ELSE CASE length = 0 -> c
              [] end = "bad" -> answer(c, length, 400, TRUE)
              [] body > maximum_body -> answer(c, length, 413, TRUE)
              [] OTHER -> IF Len(c.input) < length + body THEN c
                          ELSE answer(c, request_length(length, body), 200,
                                      close_after(end, c))

consume_request(c) ==
    [c EXCEPT !.input = SubSeq(@, c.request + 1, Len(@)), !.request = 0,
              !.out = NoResponse, !.sent = 0, !.waited = 0]

\* Mutant: EPOLLOUT is not asked for.
drive_requests_unwatched(c) == IF HasResponse(c) THEN c ELSE process_request(c)

drive_requests(c) ==
    LET next == IF HasResponse(c) THEN c ELSE process_request(c)
    IN IF HasResponse(next) THEN update_connection_events(next) ELSE next

finished(c) == c.peer_closed /\ ~HasResponse(c)

\* Mutant: every event counts as activity.
activity_always(c, n) == [c EXCEPT !.age = 0]

\* last_activity_ms moves when units were read or sent.
activity(c, n) == [c EXCEPT !.age = IF n > 0 THEN 0 ELSE @]

\* Mutant: recv is not told what is left of the buffer.
taken_unbounded(c) == Len(inbound[c.peer])

\* The units recv returns until the input is full or the socket empty.
taken(c) == Lesser(InputCapacity - Len(c.input), Len(inbound[c.peer]))

read_connection(c) ==
    LET read  == activity([c EXCEPT !.input =
                              @ \o SubSeq(inbound[c.peer], 1, taken(c))], taken(c))
        ended == [read EXCEPT !.peer_closed = @ \/ fin[c.peer]]
        next  == IF HasResponse(ended) THEN ended ELSE drive_requests(ended)
    IN CASE Len(read.input) >= InputCapacity ->
                update_connection_events(prepare_response(read, 0, 413, TRUE))
         [] Len(read.input) < InputCapacity ->
                IF rst[c.peer] \/ finished(next) THEN Free ELSE next

\* The units send takes until the response is out or the buffer is full.
sendable(c) ==
    IF rst[c.peer] THEN 0 ELSE Lesser(ResponseUnits - c.sent, room[c.peer])

\* Mutant: the connection goes on after every response.
response_close_ignored(c) == FALSE

\* A response that says so ends the connection.
response_close(c) == c.out.close

flush_connection(c) ==
    LET sent == activity([c EXCEPT !.sent = @ + sendable(c)], sendable(c))
        next == drive_requests(consume_request(sent))
    IN IF rst[c.peer] THEN Free
       ELSE IF sent.sent < ResponseUnits THEN update_connection_events(sent)
       ELSE IF response_close(c) \/ c.request > Len(c.input) \/ finished(next)
       THEN Free ELSE update_connection_events(next)

\* What the client gets of the response when n more units are sent.
response_units(c, n) ==
    [i \in 1 .. n |-> [req |-> c.out.req, part |-> c.sent + i,
                       status |-> c.out.status, close |-> c.out.close]]

-----------------------------------------------------------------------------
\* Configuration, before the loop.
\* A route that is not acceptable, or one too many, poisons the server.
kofun_http_route(acceptable) ==
    /\ phase = "config"
    /\ IF acceptable /\ routes < KH_MAX_ROUTES
       THEN routes' = routes + 1 /\ UNCHANGED configuration_error
       ELSE configuration_error' = TRUE /\ UNCHANGED routes
    /\ UNCHANGED <<phase, status, drainVars, tableVars, batch,
                   backlog, signal, worldVars>>

\* server_destroy closes what is still open.
server_destroy(code) ==
    /\ phase' = "exited" /\ status' = code
    /\ connections' = [s \in Slots |-> Free] /\ active_connections' = 0
    /\ socket' = [fd \in ConnectionFds |-> NoClient]
    /\ listener' = NoFd /\ backlog' = <<>> /\ batch' = {}
    /\ UNCHANGED <<configVars, draining, drain_left, signal, worldVars>>

run_refused ==
    phase = "config" /\ server_destroy(2)

run_starts ==
    /\ phase = "config"
    /\ ~configuration_error /\ routes > 0
    /\ phase' = "wait"
    /\ UNCHANGED <<status, configVars, drainVars, tableVars, batch,
                   backlog, signal, worldVars>>

-----------------------------------------------------------------------------
\* The loop of kofun_http_server_run: wait, dispatch the events of the
\* batch one by one, in any order, then sweep.
loop_exits ==
    /\ phase = "wait" /\ draining /\ active_connections = 0
    /\ server_destroy(status)

\* What epoll reports of a connection, and for whom it reports it.
event(s) ==
    LET c == connections[s]
    IN [fd |-> c.fd, for |-> c.peer,
        in  |-> inbound[c.peer] # <<>> \/ fin[c.peer] \/ rst[c.peer],
        out |-> c.want_out /\ (room[c.peer] > 0 \/ rst[c.peer]),
        hup |-> fin[c.peer] \/ rst[c.peer]]

plain_event(fd) == [fd |-> fd, for |-> NoClient, in |-> TRUE, out |-> FALSE,
                    hup |-> FALSE]

Ready ==
    {e \in {event(s) : s \in Used} : e.in \/ e.out \/ e.hup}
    \cup (IF listener # NoFd /\ backlog # <<>> THEN {plain_event(listener)} ELSE {})
    \cup (IF signal THEN {plain_event(SignalFd)} ELSE {})

\* With nothing ready the call times out.
epoll_wait ==
    /\ phase = "wait" /\ ~(draining /\ active_connections = 0)
    /\ phase' = "dispatch"
    /\ batch' \in {B \in SUBSET Ready :
                     Cardinality(B) = Lesser(KH_MAX_EVENTS, Cardinality(Ready))}
    /\ UNCHANGED <<status, configVars, drainVars, tableVars,
                   backlog, signal, worldVars>>

epoll_wait_fails ==
    /\ phase = "wait" /\ ~(draining /\ active_connections = 0)
    /\ server_destroy(2)

\* The connections marked by begin_drain; the listener is closed and the
\* kernel drops what waits to be accepted.
marked(c) == [c EXCEPT !.drain = c.fd # NoFd]

begin_drain ==
    IF draining
    THEN UNCHANGED <<drainVars, connections, backlog>>
    ELSE /\ draining' = TRUE /\ drain_left' = drain_timeout
         /\ listener' = NoFd /\ backlog' = <<>>
         /\ connections' = [s \in Slots |-> marked(connections[s])]

\* The event's turn.  An event of a closed listener finds no connection.
dispatch(e) == phase = "dispatch" /\ e \in batch

accept_begins(e) ==
    /\ dispatch(e) /\ e.fd = listener /\ ~draining
    /\ phase' = "accept" /\ batch' = batch \ {e}
    /\ UNCHANGED <<status, configVars, drainVars, tableVars,
                   backlog, signal, worldVars>>

\* The kernel gives the lowest descriptor that is free.
free_fd == Smallest({fd \in ConnectionFds : socket[fd] = NoClient})

\* With no slot left, or when epoll refuses it, the socket is closed again.
accept_connection(epoll_adds) ==
    /\ phase = "accept" /\ backlog # <<>>
    /\ backlog' = Tail(backlog)
    /\ IF Used # Slots /\ epoll_adds
       THEN LET s == Smallest(Slots \ Used)
            IN /\ connections' = [connections EXCEPT ![s] =
                       [Free EXCEPT !.fd = free_fd, !.peer = Head(backlog)]]
               /\ active_connections' = active_connections + 1
               /\ socket' = [socket EXCEPT ![free_fd] = Head(backlog)]
       ELSE UNCHANGED tableVars
    /\ UNCHANGED <<phase, status, configVars, drainVars,
                   batch, signal, worldVars>>

accept_would_block ==
    /\ phase = "accept" /\ backlog = <<>>
    /\ phase' = "dispatch"
    /\ UNCHANGED <<status, configVars, drainVars, tableVars, batch,
                   backlog, signal, worldVars>>

accept_fails ==
    /\ phase = "accept"
    /\ phase' = "dispatch" /\ status' = 2
    /\ begin_drain
    /\ UNCHANGED <<configVars, active_connections, socket, batch,
                   signal, worldVars>>

\* SIGINT or SIGTERM; reading the signal descriptor may fail.
consume_signals(e, reads) ==
    /\ dispatch(e) /\ e.fd = SignalFd
    /\ batch' = batch \ {e}
    /\ signal' = FALSE
    /\ status' = IF reads THEN status ELSE 2
    /\ begin_drain
    /\ UNCHANGED <<phase, configVars, active_connections, socket, worldVars>>

\* An event of no connection, of the listener closed in this batch, is skipped.
skip_event(e) ==
    /\ dispatch(e) /\ e.fd \notin {listener, SignalFd}
    /\ \A s \in Slots : connections[s].fd # e.fd
    /\ batch' = batch \ {e}
    /\ UNCHANGED <<phase, status, configVars, drainVars, tableVars,
                   backlog, signal, worldVars>>

\* Mutants: the descriptor stays open; the connection is still counted.
close_connections_leaks(S) ==
    /\ UNCHANGED socket
    /\ active_connections' = active_connections - Cardinality(S)

close_connections_uncounted(S) ==
    /\ socket' = [fd \in ConnectionFds |->
                    IF \E s \in S : connections[s].fd = fd THEN NoClient
                    ELSE socket[fd]]
    /\ UNCHANGED active_connections

\* close_connection of every slot in S.
close_connections(S) ==
    /\ socket' = [fd \in ConnectionFds |->
                    IF \E s \in S : connections[s].fd = fd THEN NoClient
                    ELSE socket[fd]]
    /\ active_connections' = active_connections - Cardinality(S)

handle_event(e, s) ==
    LET c    == connections[s]
        read == IF e.in THEN read_connection(c) ELSE c
        sent == IF read # Free /\ e.out THEN flush_connection(read) ELSE read
        kept == IF sent # Free /\ e.hup /\ ~HasResponse(sent) THEN Free ELSE sent
        in   == IF e.in THEN taken(c) ELSE 0
        out  == IF read # Free /\ e.out THEN sendable(read) ELSE 0
    IN /\ dispatch(e) /\ c.fd = e.fd
       /\ batch' = batch \ {e}
       /\ connections' = [connections EXCEPT ![s] = kept]
       /\ IF kept = Free THEN close_connections({s})
          ELSE UNCHANGED <<socket, active_connections>>
       /\ inbound' = [inbound EXCEPT ![c.peer] = SubSeq(@, in + 1, Len(@))]
       /\ got' = [got EXCEPT ![c.peer] = @ \o response_units(read, out)]
       /\ room' = [room EXCEPT ![c.peer] = @ - out]
       /\ UNCHANGED <<phase, status, configVars, drainVars, backlog, signal,
                      fin, rst, clientVars>>

\* Mutant: the sweep runs between two events.
sweep_due_early == TRUE

\* The sweep comes after the last event of the batch.
sweep_due == batch = {}

expired(c) == c.age >= idle_timeout \/ (draining /\ drain_left = 0)

expire_connections ==
    LET gone == {s \in Used : expired(connections[s])}
    IN /\ phase = "dispatch" /\ sweep_due
       /\ phase' = IF batch = {} THEN "wait" ELSE "dispatch"
       /\ connections' = [s \in Slots |-> IF s \in gone THEN Free ELSE connections[s]]
       /\ close_connections(gone)
       /\ UNCHANGED <<status, configVars, drainVars, batch, backlog, signal,
                      wireVars, clientVars, got>>

-----------------------------------------------------------------------------
\* The kernel, the clients and the clock.
Serving == phase \notin {"config", "exited"}

\* The server has the client's socket, or will accept it.
Connected(c) ==
    Serving /\ ((\E fd \in ConnectionFds : socket[fd] = c)
                \/ \E i \in DOMAIN backlog : backlog[i] = c)

client_connects(c) ==
    /\ c \notin joined /\ listener # NoFd
    /\ joined' = joined \cup {c}
    /\ backlog' = Append(backlog, c)
    /\ UNCHANGED <<serverVars, signal, wireVars, script, written, got>>

\* The next n units arrive together.
client_sends(c, n) ==
    /\ Connected(c) /\ ~fin[c] /\ ~rst[c]
    /\ written' = [written EXCEPT ![c] = @ + n]
    /\ inbound' = [inbound EXCEPT ![c] =
                     @ \o SubSeq(script[c], written[c] + 1, written[c] + n)]
    /\ UNCHANGED <<serverVars, backlog, signal, fin, rst,
                   room, script, joined, got>>

client_shuts(c) ==
    /\ Connected(c) /\ ~fin[c] /\ ~rst[c]
    /\ fin' = [fin EXCEPT ![c] = TRUE]
    /\ UNCHANGED <<serverVars, backlog, signal, inbound, rst,
                   room, clientVars, got>>

client_aborts(c) ==
    /\ Connected(c) /\ ~rst[c]
    /\ rst' = [rst EXCEPT ![c] = TRUE]
    /\ UNCHANGED <<serverVars, backlog, signal, inbound, fin,
                   room, clientVars, got>>

client_reads(c) ==
    /\ room[c] < SendRoom
    /\ room' = [room EXCEPT ![c] = SendRoom]
    /\ UNCHANGED <<serverVars, backlog, signal, inbound, fin,
                   rst, clientVars, got>>

terminate ==
    /\ Serving /\ ~signal
    /\ signal' = TRUE
    /\ UNCHANGED <<serverVars, backlog, worldVars>>

\* Ages count no further than the timeout: older is as good as expired.
older(c) ==
    IF c.fd = NoFd THEN c
    ELSE [c EXCEPT !.age = Lesser(@ + 1, idle_timeout),
                   !.waited = IF c.input = <<>> THEN 0
                              ELSE Lesser(@ + 1, idle_timeout)]

tick ==
    /\ Serving
    /\ drain_left' = IF drain_left > 0 THEN drain_left - 1 ELSE 0
    /\ connections' = [s \in Slots |-> older(connections[s])]
    /\ <<drain_left, connections>>' # <<drain_left, connections>>
    /\ UNCHANGED <<phase, status, configVars, listener, draining, active_connections,
                   socket, batch, backlog, signal, worldVars>>

Loop ==
    \/ loop_exits \/ epoll_wait \/ epoll_wait_fails
    \/ accept_would_block \/ accept_fails
    \/ \E adds \in BOOLEAN : accept_connection(adds)
    \/ expire_connections
    \/ \E e \in batch : accept_begins(e) \/ skip_event(e)
    \/ \E e \in batch, reads \in BOOLEAN : consume_signals(e, reads)
    \/ \E e \in batch, s \in Slots : handle_event(e, s)

Next ==
    \/ \E acceptable \in BOOLEAN : kofun_http_route(acceptable)
    \/ run_refused \/ run_starts
    \/ Loop
    \/ \E c \in Clients : client_connects(c) \/ client_shuts(c)
                          \/ client_aborts(c) \/ client_reads(c)
    \/ \E c \in Clients : \E n \in 1 .. Len(script[c]) - written[c] :
            client_sends(c, n)
    \/ terminate \/ tick

Spec == Init /\ [][Next]_vars

\* Loop is enabled as long as the server is serving, so this is WF_vars(Loop);
\* TLC evaluates it without having to decide ENABLED.
LoopRuns == <>[]Serving => []<><<Loop>>_vars

LoopSpec == Spec /\ LoopRuns

\* A client that has a response waiting reads it.
ClientsRead == \A c \in Clients : WF_vars(client_reads(c))

TimePasses == WF_vars(tick)

-----------------------------------------------------------------------------
Statuses == {0, 200, 400, 413, 431}

Units ==
    UNION {{script[c][i] : i \in DOMAIN script[c]} : c \in Clients}

ConnectionType ==
    [fd : ConnectionFds \cup {NoFd}, peer : Clients \cup {NoClient},
     input : Seq(Units), request : 0 .. InputCapacity,
     out : [req : Nat, status : Statuses, close : BOOLEAN],
     sent : 0 .. ResponseUnits, age : 0 .. idle_timeout,
     waited : 0 .. idle_timeout, peer_closed : BOOLEAN, drain : BOOLEAN,
     want_out : BOOLEAN]

\* The fields of KhServer and KhConnection keep their ranges: no input is
\* longer than its buffer, no more is sent than there is.
TypeOK ==
    /\ phase \in {"config", "wait", "dispatch", "accept", "exited"}
    /\ status \in {0, 2} /\ routes \in 0 .. KH_MAX_ROUTES
    /\ configuration_error \in BOOLEAN
    /\ listener \in {ListenerFd, NoFd}
    /\ draining \in BOOLEAN /\ drain_left \in 0 .. drain_timeout
    /\ active_connections \in 0 .. maximum_connections
    /\ DOMAIN connections = Slots
    /\ \A s \in Slots : /\ connections[s] \in ConnectionType
                        /\ Len(connections[s].input) <= InputCapacity
    /\ socket \in [ConnectionFds -> Clients \cup {NoClient}]
    /\ signal \in BOOLEAN
    /\ fin \in [Clients -> BOOLEAN] /\ rst \in [Clients -> BOOLEAN]
    /\ room \in [Clients -> 0 .. SendRoom]
    /\ \A c \in Clients : written[c] \in 0 .. Len(script[c])

\* A descriptor is open exactly when one slot holds it, for the same client:
\* none leaks whichever of the closing paths is taken, none is shared, and
\* active_connections, on which the end of a drain depends, is exact.
TableMatchesSockets ==
    /\ \A fd \in ConnectionFds :
         socket[fd] # NoClient =>
           \E s \in Slots : connections[s].fd = fd /\ connections[s].peer = socket[fd]
    /\ \A s \in Used : socket[connections[s].fd] = connections[s].peer
    /\ \A s, t \in Used : connections[s].fd = connections[t].fd => s = t
    /\ active_connections = Cardinality(Used)

\* The kernel reuses a descriptor at once, and the batch names connections by
\* descriptor: an event that is still to be dispatched never reaches another
\* client's connection than the one it was reported for.
EventsReachTheirConnection ==
    \A e \in batch : \A s \in Used :
        connections[s].fd = e.fd => connections[s].peer = e.for

\* However many requests arrive together and however often a send stops half
\* way, a client reads the responses in the order of its requests, each from
\* its first unit to its last; only the answer to a full buffer (request 0)
\* may come in between, and then nothing follows.
ResponsesInOrder ==
    \A c \in Clients : \A i \in DOMAIN got[c] :
        IF got[c][i].req = 0
        THEN \A j \in i .. Len(got[c]) : got[c][j].req = 0
        ELSE /\ got[c][i].req = ((i - 1) \div ResponseUnits) + 1
             /\ got[c][i].part = ((i - 1) % ResponseUnits) + 1

\* A response that announces the end of the connection is the last one (but
\* for the answer to a full buffer, which may cut it short).
NothingAfterClose ==
    \A c \in Clients : \A i, j \in DOMAIN got[c] :
        i < j /\ got[c][i].close
          => got[c][j].close /\ got[c][j].req \in {got[c][i].req, 0}

\* The status the k-th request of a client deserves, from the whole script.
Deserved(c, k) ==
    LET header == {i \in DOMAIN script[c] :
                     script[c][i].req = k /\ script[c][i].part # "body"}
        end == {script[c][i].part : i \in header} \cap Ends
    IN IF Cardinality(header) > maximum_header THEN 431
       ELSE IF "bad" \in end THEN 400
       ELSE IF \E e \in end : ContentLength(e) > maximum_body THEN 413 ELSE 200

\* A request is answered with the status it deserves, in whatever pieces it
\* arrived and whatever was buffered before it.
StatusIsDeserved ==
    \A c \in Clients : \A i \in DOMAIN got[c] :
        got[c][i].req # 0 => got[c][i].status = Deserved(c, got[c][i].req)

\* A response prepared once the server drains ends its connection: otherwise
\* a busy client would hold the drain until its deadline.
DrainCloses ==
    [][\A s \in Slots :
         draining' /\ connections'[s].out # connections[s].out
                   /\ connections'[s].out # NoResponse
           => connections'[s].out.close]_vars

\* A connection that has units to read, a whole request in its input, or an
\* answer that is not sent.
Pending(c) ==
    \E s \in Used : /\ connections[s].peer = c
                    /\ \/ inbound[c] # <<>>
                       \/ HasResponse(process_request(connections[s]))

\* With clients that read, what has arrived is read and what is prepared is
\* sent, or the connection is closed: no wake-up of epoll is lost, even if no
\* time passes.
EverythingIsAnswered ==
    ClientsRead => \A c \in Clients : Pending(c) ~> ~Pending(c)

\* Nobody holds a slot for ever, not even a client that never reads.
EverySlotIsFreed ==
    TimePasses =>
      \A s \in Slots : (connections[s].fd # NoFd) ~> (connections[s].fd = NoFd)

\* A drain ends, whatever the clients do or fail to do.
DrainEnds == TimePasses => (draining ~> (phase = "exited"))

-----------------------------------------------------------------------------
\* What framework/http/README.md says and the code does not do.
\* Among the units that a client has got is the last one of the response to req.
Delivered(units, req) ==
    \E i \in DOMAIN units : units[i].req = req /\ units[i].part = ResponseUnits

\* "Partial writes retain a bounded response buffer and enable EPOLLOUT": on a
\* connection that stays open, a response that was begun stays in the buffer,
\* and is not begun again, until the client has its last unit.
PartialWriteRetainsResponse ==
    [][\A s \in Slots :
         LET c == connections[s]
             next == connections'[s]
         IN  c.sent \in 1 .. ResponseUnits - 1 /\ next.fd # NoFd =>
                \/ next.out = c.out /\ next.sent >= c.sent
                \/ Delivered(got'[c.peer], c.out.req)]_vars

\* "Idle connections are closed, including slowloris clients that do not
\* complete headers or bodies before the timeout": after the sweep, no client
\* has taken that long since the first unit of a request.
SlowRequestsExpire ==
    [][phase = "dispatch" /\ phase' = "wait" =>
         \A s \in Slots :
           LET c == connections'[s] IN
           c.fd # NoFd /\ c.input # <<>> /\ ~HasResponse(c)
             => c.waited < idle_timeout]_vars
=============================================================================
