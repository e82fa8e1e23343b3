--------------------------- MODULE KofunHttpProofs ---------------------------
(***************************************************************************)
(* Proofs about KofunHttp, for any limits of the configuration, any clients*)
(* and any requests that they may send: the types, the table of connections*)
(* against the sockets of the process, the batch of events against the     *)
(* table, and the answers of a server that drains.                         *)
(*                                                                         *)
(* Every handler takes a connection and returns it changed or Free.  The   *)
(* first part says of each what it may change (the ...Fields lemmas) and   *)
(* what can come of it (Outcome).  The second part is the invariant, IInv, *)
(* and the third part has one lemma for each action that keeps it.         *)
(***************************************************************************)
EXTENDS KofunHttp, TLAPS, FiniteSetTheorems, SequenceTheorems, WellFoundedInduction

Conn(c) == c \in ConnectionType /\ Len(c.input) <= InputCapacity

Response == [req : Nat, status : Statuses, close : BOOLEAN]

\* What a handler may leave alone of a connection.
Same(c, d) == d.fd = c.fd /\ d.peer = c.peer

\* A slot that holds nothing is a well-typed connection.
LEMMA FreeIsConn == Conn(Free) /\ Free.fd = NoFd /\ Free.out = NoResponse
  BY LimitsAssumption, EmptySeq DEF Conn, Free, ConnectionType, NoResponse, Statuses, InputCapacity

\* queue_response changes only the response and its counters.
LEMMA ResponseFields ==
  ASSUME NEW c, Conn(c), NEW req \in Nat, NEW code \in Statuses, NEW close \in BOOLEAN
  PROVE  LET d == prepare_response(c, req, code, close) IN
         /\ Conn(d)
         /\ Same(c, d)
         /\ d.input = c.input /\ d.request = c.request /\ d.sent = 0
         /\ d.out = [req |-> req, status |-> code, close |-> close]
         /\ d.peer_closed = c.peer_closed
         /\ d.drain = c.drain /\ d.want_out = c.want_out
<1> DEFINE r == [req |-> req, status |-> code, close |-> close]
<1>1. r \in Response /\ 0 \in 0 .. ResponseUnits
  BY LimitsAssumption DEF Response
<1> HIDE DEF r
<1>2. prepare_response(c, req, code, close) = [c EXCEPT !.out = r, !.sent = 0]
  BY DEF r, prepare_response
<1>3. r = [req |-> req, status |-> code, close |-> close]
  BY DEF r
<1> QED
  BY <1>1, <1>2, <1>3 DEF Conn, Same, ConnectionType, Response

\* update_connection_events changes only the interest in writability.
LEMMA EventsFields ==
  ASSUME NEW c, Conn(c)
  PROVE  LET d == update_connection_events(c) IN
         /\ Conn(d)
         /\ Same(c, d)
         /\ d.input = c.input /\ d.request = c.request /\ d.sent = c.sent
         /\ d.out = c.out
         /\ d.peer_closed = c.peer_closed
         /\ d.drain = c.drain /\ d.want_out = HasResponse(c)
  BY DEF Conn, Same, ConnectionType, update_connection_events, HasResponse

\* consume_request drops the answered request and keeps the rest of the input.
LEMMA ConsumeFields ==
  ASSUME NEW c, Conn(c)
  PROVE  LET d == consume_request(c) IN
         /\ Conn(d)
         /\ Same(c, d)
         /\ d.input = SubSeq(c.input, c.request + 1, Len(c.input))
         /\ d.request = 0 /\ d.sent = 0
         /\ d.out = NoResponse
         /\ d.peer_closed = c.peer_closed
         /\ d.drain = c.drain /\ d.want_out = c.want_out
<1> DEFINE rest == SubSeq(c.input, c.request + 1, Len(c.input))
<1>1. c.input \in Seq(Units) /\ c.request \in Nat
  BY LimitsAssumption DEF Conn, ConnectionType, InputCapacity
<1>2. rest \in Seq(Units) /\ Len(rest) <= Len(c.input)
  BY <1>1, SubSeqProperties, LenProperties
<1>3. NoResponse \in Response /\ 0 \in 0 .. InputCapacity /\ 0 \in 0 .. ResponseUnits /\ 0 \in 0 .. idle_timeout
  BY LimitsAssumption DEF NoResponse, Response, Statuses, InputCapacity
<1>4. Len(c.input) \in Nat /\ Len(rest) \in Nat
  BY <1>1, <1>2, LenProperties
<1> HIDE DEF rest
<1>5. consume_request(c) = [c EXCEPT !.input = rest, !.request = 0, !.out = NoResponse,
                                     !.sent = 0, !.waited = 0]
  BY DEF rest, consume_request, Conn, ConnectionType
<1>6. InputCapacity \in Nat
  BY LimitsAssumption DEF InputCapacity
<1>7. rest = SubSeq(c.input, c.request + 1, Len(c.input))
  BY DEF rest
<1> DEFINE d == consume_request(c)
<1>8. /\ d.fd = c.fd /\ d.peer = c.peer /\ d.input = rest /\ d.request = 0 /\ d.out = NoResponse
      /\ d.sent = 0 /\ d.age = c.age /\ d.waited = 0 /\ d.peer_closed = c.peer_closed
      /\ d.drain = c.drain /\ d.want_out = c.want_out
  BY <1>5 DEF Conn, ConnectionType
<1>9. d \in ConnectionType
  BY <1>2, <1>3, <1>5 DEF Conn, ConnectionType, Response
<1>10. Len(d.input) <= InputCapacity
  BY <1>2, <1>4, <1>6, <1>8 DEF Conn
<1> QED
  BY <1>7, <1>8, <1>9, <1>10 DEF Conn, Same

\* A non-empty set of naturals has a least element, and Smallest chooses it.
LEMMA LeastNatural ==
  ASSUME NEW S, S \subseteq Nat, S # {}
  PROVE  Smallest(S) \in S /\ \A y \in S : Smallest(S) <= y
<1> DEFINE below(x) == {y \in S : y < x}
           T == {below(x) : x \in S}
<1>1. \A x \in S : below(x) \in FiniteSubsetsOf(S)
  <2> SUFFICES ASSUME NEW x \in S PROVE below(x) \in FiniteSubsetsOf(S)
    OBVIOUS
  <2>1. \A y \in below(x) : y <= x
    OBVIOUS
  <2>2. IsFiniteSet(below(x))
    BY <2>1, FS_BoundedSetOfNaturals
  <2> QED
    BY <2>2 DEF FiniteSubsetsOf
<1>2. T \subseteq FiniteSubsetsOf(S) /\ T # {}
  BY <1>1
<1>3. \E X \in T : \A Y \in T : ~ (<<Y, X>> \in StrictSubsetOrdering(S))
  <2> HIDE DEF T
  <2> QED
    BY <1>2, FS_StrictSubsetOrderingWellFounded, WFMin
<1>4. PICK x \in S : \A y \in S : ~ (<<below(y), below(x)>> \in StrictSubsetOrdering(S))
  BY <1>3
<1>5. \A y \in S : x <= y
  <2> SUFFICES ASSUME NEW y \in S, y < x PROVE FALSE
    OBVIOUS
  <2>1. y \in Nat /\ x \in Nat /\ \A z \in S : z \in Nat
    OBVIOUS
  <2>3. \A z \in S : z < y => z < x
    BY <2>1
  <2>4. below(y) \subseteq below(x)
    BY <2>3
  <2>5. y \in below(x) /\ y \notin below(y)
    BY <2>1
  <2>2. <<below(y), below(x)>> \in StrictSubsetOrdering(S)
    BY <2>4, <2>5 DEF StrictSubsetOrdering
  <2> QED
    BY <2>2, <1>4
<1> QED
  BY <1>5 DEF Smallest

\* find_header_end: 0 when no header has ended, else the first unit that ends one.
LEMMA HeaderEnd ==
  ASSUME NEW U, NEW input \in Seq(U)
  PROVE  LET h == find_header_end(input) IN
         /\ h \in 0 .. Len(input)
         /\ h = 0 => \A i \in DOMAIN input : input[i].part \notin Ends
         /\ h # 0 => /\ input[h].part \in Ends
                     /\ \A i \in 1 .. h - 1 : input[i].part \notin Ends
<1> DEFINE ends == {i \in DOMAIN input : input[i].part \in Ends}
<1>1. DOMAIN input = 1 .. Len(input) /\ Len(input) \in Nat
  BY LenProperties
<1>2. CASE ends = {}
  BY <1>1, <1>2 DEF find_header_end
<1>3. CASE ends # {}
  <2>1. ends \subseteq Nat
    BY <1>1
  <2>2. Smallest(ends) \in ends /\ \A y \in ends : Smallest(ends) <= y
    BY <1>3, <2>1, LeastNatural
  <2>3. find_header_end(input) = Smallest(ends)
    BY <1>3 DEF find_header_end
  <2> DEFINE h == find_header_end(input)
  <2>4. h \in DOMAIN input /\ input[h].part \in Ends
    BY <2>2, <2>3
  <2>5. \A i \in DOMAIN input : input[i].part \in Ends => h <= i
    BY <2>2, <2>3
  <2> HIDE DEF h
  <2>6. \A i \in 1 .. h - 1 : input[i].part \notin Ends
    BY <1>1, <2>4, <2>5
  <2> QED
    BY <1>1, <2>4, <2>6 DEF h
<1> QED
  BY <1>2, <1>3

ScriptsTyped == script \in [Clients -> Scripts]

\* The units on the wires are units of a request.
LEMMA UnitsAreUnits == ScriptsTyped => Units \subseteq Unit
<1> SUFFICES ASSUME ScriptsTyped, NEW x \in Clients, NEW i \in DOMAIN script[x]
             PROVE  script[x][i] \in Unit
  BY DEF Units
<1>1. script[x] \in Seq(Unit)
  BY ScriptsAssumption DEF ScriptsTyped, IsScript
<1> QED
  BY <1>1, ElementOfSeq, LenProperties

\* What a well-typed connection says about its fields.
LEMMA ConnFacts ==
  ASSUME NEW c, Conn(c)
  PROVE  /\ c.input \in Seq(Units) /\ Len(c.input) \in 0 .. InputCapacity
         /\ InputCapacity \in Nat
         /\ c.out \in Response /\ c.sent \in 0 .. ResponseUnits
         /\ c.request \in 0 .. InputCapacity
         /\ c.peer_closed \in BOOLEAN /\ c.drain \in BOOLEAN
<1>1. c.input \in Seq(Units) /\ c.out \in Response /\ c.sent \in 0 .. ResponseUnits
      /\ c.request \in 0 .. InputCapacity /\ c.peer_closed \in BOOLEAN /\ c.drain \in BOOLEAN
  BY DEF Conn, ConnectionType, Response
<1>2. Len(c.input) \in Nat /\ InputCapacity \in Nat /\ Len(c.input) <= InputCapacity
  BY <1>1, LenProperties, LimitsAssumption, SMTT(40) DEF InputCapacity, Conn
<1> QED
  BY <1>1, <1>2

\* The first unit that a connection has buffered.
LEMMA FirstUnit ==
  ASSUME ScriptsTyped, NEW c, Conn(c), Len(c.input) > 0
  PROVE  c.input[1] \in Unit
<1>1. c.input \in Seq(Units) /\ 1 \in 1 .. Len(c.input)
  BY ConnFacts
<1> QED
  BY <1>1, ElementOfSeq, UnitsAreUnits

WithRequest(c, n) == [c EXCEPT !.request = n]

\* Noting the length of a request changes nothing else.
LEMMA RequestFields ==
  ASSUME NEW c, Conn(c), NEW n \in 0 .. InputCapacity
  PROVE  LET d == WithRequest(c, n) IN
         /\ Conn(d) /\ Same(c, d)
         /\ d.input = c.input /\ d.request = n /\ d.sent = c.sent /\ d.out = c.out
         /\ d.peer_closed = c.peer_closed /\ d.drain = c.drain /\ d.want_out = c.want_out
  BY DEF Conn, Same, ConnectionType, WithRequest

\* Answering keeps the connection its own, and while draining it closes.
LEMMA AnswerFields ==
  ASSUME ScriptsTyped, NEW c, Conn(c), Len(c.input) > 0, NEW n \in 0 .. InputCapacity,
         NEW code \in Statuses, NEW close \in BOOLEAN
  PROVE  LET d == answer(c, n, code, close) IN
         /\ Conn(d) /\ Same(c, d)
         /\ d.input = c.input /\ d.request = n /\ d.sent = 0
         /\ d.out = [req |-> c.input[1].req, status |-> code, close |-> close]
         /\ HasResponse(d)
         /\ d.peer_closed = c.peer_closed /\ d.drain = c.drain /\ d.want_out = c.want_out
<1> DEFINE e == WithRequest(c, n)
<1>1. c.input[1].req \in Nat \ {0}
  BY FirstUnit DEF Unit
<1>2. answer(c, n, code, close) = prepare_response(e, c.input[1].req, code, close)
  BY DEF answer, WithRequest
<1>3. Conn(e) /\ Same(c, e) /\ e.input = c.input /\ e.request = n
      /\ e.peer_closed = c.peer_closed /\ e.drain = c.drain /\ e.want_out = c.want_out
  BY RequestFields
<1> HIDE DEF e
<1> DEFINE d == answer(c, n, code, close)
<1>4. /\ Conn(d) /\ Same(e, d) /\ d.input = e.input /\ d.request = e.request /\ d.sent = 0
      /\ d.out = [req |-> c.input[1].req, status |-> code, close |-> close]
      /\ d.peer_closed = e.peer_closed /\ d.drain = e.drain /\ d.want_out = e.want_out
  BY <1>1, <1>2, <1>3, ResponseFields
<1>5. HasResponse(d)
  BY <1>1, <1>4 DEF HasResponse, NoResponse
<1> QED
  BY <1>3, <1>4, <1>5 DEF Same

\* A body has a length, whatever unit announces it.
LEMMA ContentLengths == \A end : ContentLength(end) \in Nat
  BY LimitsAssumption DEF ContentLength

\* The possible outcomes of process_request, each with its condition.
TooLarge(c, d) ==
  LET h == find_header_end(c.input) IN
  header_too_large(c, h) /\ d = answer(c, IF h = 0 THEN Len(c.input) ELSE h, 431, TRUE)

Refused(c, d) ==
  LET h == find_header_end(c.input) IN
  /\ ~header_too_large(c, h) /\ h # 0
  /\ \/ c.input[h].part = "bad" /\ d = answer(c, h, 400, TRUE)
     \/ /\ c.input[h].part # "bad" /\ ContentLength(c.input[h].part) > maximum_body
        /\ d = answer(c, h, 413, TRUE)

Handled(c, d) ==
  LET h == find_header_end(c.input)
      n == h + ContentLength(c.input[h].part) IN
  /\ ~header_too_large(c, h) /\ h # 0
  /\ c.input[h].part # "bad" /\ ContentLength(c.input[h].part) <= maximum_body
  /\ n <= Len(c.input) /\ d = answer(c, n, 200, close_after(c.input[h].part, c))

\* process_request, taken apart at its returns.
LEMMA ProcessCases ==
  ASSUME NEW c, Conn(c)
  PROVE  LET d == process_request(c) IN
         d = c \/ TooLarge(c, d) \/ Refused(c, d) \/ Handled(c, d)
<1> DEFINE h == find_header_end(c.input)
           end == IF h = 0 THEN "none" ELSE c.input[h].part
           body == ContentLength(end)
           d == process_request(c)
<1>1. h \in 0 .. Len(c.input) /\ body \in Nat /\ Len(c.input) \in Nat /\ maximum_body \in Nat
  BY ConnFacts, HeaderEnd, ContentLengths, LimitsAssumption
<1>2. CASE header_too_large(c, h)
  BY <1>2 DEF process_request, TooLarge
<1>3. CASE ~header_too_large(c, h) /\ h = 0
  <2>1. end = "none" /\ end # "bad" /\ body = 0
    BY <1>3 DEF ContentLength
  <2>2. d = CASE h = 0 -> c
              [] end = "bad" -> answer(c, h, 400, TRUE)
              [] body > maximum_body -> answer(c, h, 413, TRUE)
              [] OTHER -> IF Len(c.input) < h + body THEN c
                          ELSE answer(c, request_length(h, body), 200,
                                      close_after(end, c))
    BY <1>3 DEF process_request
  <2> HIDE DEF d, h, end, body
  <2>3. ~(body > maximum_body)
    BY <1>1, <2>1
  <2>4. d = c
    BY <1>3, <2>1, <2>2, <2>3
  <2> QED
    BY <2>4 DEF d
<1>4. CASE ~header_too_large(c, h) /\ h # 0
  <2>1. d = CASE h = 0 -> c
              [] end = "bad" -> answer(c, h, 400, TRUE)
              [] body > maximum_body -> answer(c, h, 413, TRUE)
              [] OTHER -> IF Len(c.input) < h + body THEN c
                          ELSE answer(c, request_length(h, body), 200,
                                      close_after(end, c))
    BY <1>4 DEF process_request
  <2>2. end = c.input[h].part /\ body = ContentLength(c.input[h].part)
    BY <1>4
  <2>3. end = "bad" => ~(body > maximum_body)
    BY <1>1 DEF ContentLength
  <2> HIDE DEF d, end, body, h
  <2>4. CASE end = "bad"
    <3>1. d = answer(c, h, 400, TRUE)
      BY <1>4, <2>1, <2>3, <2>4
    <3> QED
      BY <1>4, <2>2, <2>4, <3>1 DEF Refused, h, d
  <2>5. CASE end # "bad" /\ body > maximum_body
    <3>1. d = answer(c, h, 413, TRUE)
      BY <1>4, <2>1, <2>5
    <3> QED
      BY <1>4, <2>2, <2>5, <3>1 DEF Refused, h, d
  <2>6. CASE end # "bad" /\ ~(body > maximum_body)
    <3>1. d = IF Len(c.input) < h + body THEN c
              ELSE answer(c, h + body, 200, close_after(end, c))
      BY <1>4, <2>1, <2>6 DEF request_length
    <3>2. CASE Len(c.input) < h + body
      BY <3>1, <3>2 DEF d
    <3>3. CASE ~(Len(c.input) < h + body)
      <4>1. h + body <= Len(c.input) /\ body <= maximum_body
        BY <1>1, <2>6, <3>3
      <4>2. d = answer(c, h + body, 200, close_after(end, c))
        BY <3>1, <3>3
      <4> QED
        BY <1>4, <2>2, <2>6, <4>1, <4>2 DEF Handled, h, d
    <3> QED
      BY <3>2, <3>3
  <2> QED
    BY <2>4, <2>5, <2>6
<1> QED
  BY <1>2, <1>3, <1>4

\* What process_request may do: nothing, or prepare an answer.
Answered(c, d) ==
  /\ Conn(d) /\ Same(c, d) /\ d.input = c.input
  /\ d.peer_closed = c.peer_closed /\ d.drain = c.drain /\ d.want_out = c.want_out
  /\ d = c \/ (draining => d.out.close)

\* An answer is a response, and one that closes while the server drains.
LEMMA AnswerAnswers ==
  ASSUME ScriptsTyped, NEW c, Conn(c), Len(c.input) > 0, NEW n \in 0 .. InputCapacity,
         NEW code \in Statuses, NEW close \in BOOLEAN, draining => close
  PROVE  Answered(c, answer(c, n, code, close))
<1> DEFINE d == answer(c, n, code, close)
<1>1. /\ Conn(d) /\ Same(c, d) /\ d.input = c.input
      /\ d.out = [req |-> c.input[1].req, status |-> code, close |-> close]
      /\ d.peer_closed = c.peer_closed /\ d.drain = c.drain /\ d.want_out = c.want_out
  BY AnswerFields
<1> HIDE DEF d
<1>2. d.out.close = close
  BY <1>1
<1>3. draining => d.out.close
  BY <1>2
<1>4. Answered(c, d)
  BY <1>1, <1>3 DEF Answered
<1> QED
  BY <1>4 DEF d

\* process_request waits for more or answers, and touches nothing else.
LEMMA ProcessAnswers ==
  ASSUME ScriptsTyped, draining \in BOOLEAN, NEW c, Conn(c)
  PROVE  Answered(c, process_request(c))
<1> DEFINE h == find_header_end(c.input)
           d == process_request(c)
<1>1. /\ h \in 0 .. Len(c.input) /\ Len(c.input) \in 0 .. InputCapacity
      /\ InputCapacity \in Nat /\ maximum_header \in Nat /\ maximum_header > 0
      /\ c.drain \in BOOLEAN
  BY ConnFacts, HeaderEnd, LimitsAssumption
<1>2. 200 \in Statuses /\ 400 \in Statuses /\ 413 \in Statuses /\ 431 \in Statuses
  BY DEF Statuses
<1>3. CASE d = c
  BY <1>3 DEF Answered, Same
<1>4. CASE TooLarge(c, d)
  <2> DEFINE n == IF h = 0 THEN Len(c.input) ELSE h
  <2>1. Len(c.input) > 0 /\ n \in 0 .. InputCapacity
    BY <1>1, <1>4 DEF TooLarge, header_too_large
  <2>2. d = answer(c, n, 431, TRUE)
    BY <1>4 DEF TooLarge
  <2> HIDE DEF n, d
  <2>3. Answered(c, d)
    BY <1>2, <2>1, <2>2, AnswerAnswers, ZenonT(40)
  <2> QED
    BY <2>3 DEF d
<1>5. CASE Refused(c, d)
  <2> DEFINE yes == TRUE
  <2>1. Len(c.input) > 0 /\ h \in 0 .. InputCapacity
    BY <1>1, <1>5 DEF Refused
  <2>2. d = answer(c, h, 400, yes) \/ d = answer(c, h, 413, yes)
    BY <1>5 DEF Refused
  <2>3. yes \in BOOLEAN /\ (draining => yes)
    OBVIOUS
  <2> HIDE DEF h, d, yes
  <2>4. ASSUME NEW code \in Statuses
        PROVE  Answered(c, answer(c, h, code, yes))
    BY <2>1, <2>3, AnswerAnswers
  <2>5. Answered(c, d)
    BY <1>2, <2>2, <2>4
  <2> QED
    BY <2>5 DEF d
<1>6. CASE Handled(c, d)
  <2> DEFINE n == h + ContentLength(c.input[h].part)
             close == close_after(c.input[h].part, c)
  <2>1. Len(c.input) > 0 /\ n \in 0 .. InputCapacity
    <3>1. ContentLength(c.input[h].part) \in Nat
      BY ContentLengths
    <3> QED
      BY <1>1, <1>6, <3>1 DEF Handled
  <2>2. d = answer(c, n, 200, close)
    BY <1>6 DEF Handled
  <2>3. close \in BOOLEAN /\ (draining => close)
    BY <1>1 DEF close_after
  <2> HIDE DEF h, n, d, close
  <2>4. Answered(c, d)
    BY <1>2, <2>1, <2>2, <2>3, AnswerAnswers
  <2> QED
    BY <2>4 DEF d
<1> QED
  BY <1>3, <1>4, <1>5, <1>6, ProcessCases

\* drive_requests: the connection is the same one, and its answer new or kept.
LEMMA DriveFields ==
  ASSUME ScriptsTyped, draining \in BOOLEAN, NEW c, Conn(c)
  PROVE  LET d == drive_requests(c)
             p == IF HasResponse(c) THEN c ELSE process_request(c) IN
         /\ Conn(d) /\ Same(c, d) /\ d.input = c.input
         /\ d.peer_closed = c.peer_closed /\ d.drain = c.drain
         /\ d.request = p.request /\ d.sent = p.sent /\ d.out = p.out
         /\ d.out = c.out \/ (draining => d.out.close)
         /\ d.want_out => HasResponse(d) \/ c.want_out
<1> DEFINE d == drive_requests(c)
           p == IF HasResponse(c) THEN c ELSE process_request(c)
<1>1. Answered(c, p)
  BY ProcessAnswers DEF Answered, Same
<1>2. d = IF HasResponse(p) THEN update_connection_events(p) ELSE p
  BY DEF drive_requests
<1> HIDE DEF d, p
<1>3. /\ Conn(d) /\ Same(p, d) /\ d.input = p.input
      /\ d.peer_closed = p.peer_closed /\ d.drain = p.drain
      /\ d.request = p.request /\ d.sent = p.sent /\ d.out = p.out
  BY <1>1, <1>2, EventsFields DEF Answered, Same
<1>6. d.want_out => HasResponse(d) \/ c.want_out
  <2>1. HasResponse(d) = HasResponse(p)
    BY <1>3 DEF HasResponse
  <2>2. p.want_out = c.want_out
    BY <1>1 DEF Answered
  <2> QED
    BY <1>2, <2>1, <2>2
<1>4. p = c \/ (draining => d.out.close)
  BY <1>1, <1>3 DEF Answered
<1>5. d.out = c.out \/ (draining => d.out.close)
  BY <1>3, <1>4
<1> QED
  BY <1>1, <1>3, <1>5, <1>6 DEF Answered, Same, d, p

WithInput(c, v) == [c EXCEPT !.input = v]
WithEnd(c, b) == [c EXCEPT !.peer_closed = @ \/ b]
WithSent(c, n) == [c EXCEPT !.sent = @ + n]

\* Appending what was read keeps the buffer within its capacity.
LEMMA InputFields ==
  ASSUME NEW c, Conn(c), NEW v \in Seq(Units), Len(v) <= InputCapacity
  PROVE  LET d == WithInput(c, v) IN
         /\ Conn(d) /\ Same(c, d) /\ d.input = v
         /\ d.request = c.request /\ d.sent = c.sent /\ d.out = c.out
         /\ d.peer_closed = c.peer_closed /\ d.drain = c.drain /\ d.want_out = c.want_out
  BY DEF Conn, Same, ConnectionType, WithInput

\* Noting the end of the input changes nothing else.
LEMMA EndFields ==
  ASSUME NEW c, Conn(c), NEW b \in BOOLEAN
  PROVE  LET d == WithEnd(c, b) IN
         /\ Conn(d) /\ Same(c, d) /\ d.input = c.input
         /\ d.request = c.request /\ d.sent = c.sent /\ d.out = c.out
         /\ d.drain = c.drain /\ d.want_out = c.want_out
<1> DEFINE v == c.peer_closed \/ b
<1>1. v \in BOOLEAN
  BY ConnFacts
<1>2. WithEnd(c, b) = [c EXCEPT !.peer_closed = v]
  BY DEF WithEnd
<1> HIDE DEF v
<1> QED
  BY <1>1, <1>2 DEF Conn, Same, ConnectionType

\* Counting what was sent changes nothing else.
LEMMA SentFields ==
  ASSUME NEW c, Conn(c), NEW n \in Nat, c.sent + n <= ResponseUnits
  PROVE  LET d == WithSent(c, n) IN
         /\ Conn(d) /\ Same(c, d) /\ d.input = c.input
         /\ d.request = c.request /\ d.sent = c.sent + n /\ d.out = c.out
         /\ d.peer_closed = c.peer_closed /\ d.drain = c.drain /\ d.want_out = c.want_out
<1> DEFINE v == c.sent + n
<1>1. v \in 0 .. ResponseUnits
  BY ConnFacts, LimitsAssumption
<1>2. WithSent(c, n) = [c EXCEPT !.sent = v]
  BY DEF WithSent
<1>3. v = c.sent + n
  OBVIOUS
<1> HIDE DEF v
<1> QED
  BY <1>1, <1>2, <1>3 DEF Conn, Same, ConnectionType

\* Resetting the clocks of a connection changes nothing else.
LEMMA ActivityFields ==
  ASSUME NEW c, Conn(c), NEW n
  PROVE  LET d == activity(c, n) IN
         /\ Conn(d) /\ Same(c, d) /\ d.input = c.input
         /\ d.request = c.request /\ d.sent = c.sent /\ d.out = c.out
         /\ d.peer_closed = c.peer_closed /\ d.drain = c.drain /\ d.want_out = c.want_out
<1> DEFINE v == IF n > 0 THEN 0 ELSE c.age
<1>1. v \in 0 .. idle_timeout
  BY LimitsAssumption DEF Conn, ConnectionType
<1>2. activity(c, n) = [c EXCEPT !.age = v]
  BY DEF activity
<1> HIDE DEF v
<1> QED
  BY <1>1, <1>2 DEF Conn, Same, ConnectionType

\* What read_connection does before it looks at the requests, and after.
received(c) ==
  activity(WithInput(c, c.input \o SubSeq(inbound[c.peer], 1, taken(c))), taken(c))

Full(c) == Len(received(c).input) >= InputCapacity

\* What recv takes is on the wire and fits into the buffer.
LEMMA TakenFacts ==
  ASSUME NEW c, Conn(c), inbound[c.peer] \in Seq(Units)
  PROVE  /\ taken(c) \in 0 .. Len(inbound[c.peer])
         /\ Len(c.input) + taken(c) <= InputCapacity
<1>1. Len(inbound[c.peer]) \in Nat /\ Len(c.input) \in 0 .. InputCapacity /\ InputCapacity \in Nat
  BY ConnFacts, LenProperties
<1> DEFINE n == Len(inbound[c.peer])
           m == InputCapacity - Len(c.input)
<1>2. n \in Nat /\ m \in Nat /\ Len(c.input) + m = InputCapacity
  BY <1>1
<1>3. taken(c) = IF m < n THEN m ELSE n
  BY DEF taken, Lesser
<1> HIDE DEF n, m
<1>4. taken(c) \in 0 .. n /\ taken(c) <= m
  BY <1>2, <1>3
<1> QED
  BY <1>1, <1>2, <1>4 DEF n

\* A connection that has received is the same one, with a longer input.
LEMMA ReceivedFields ==
  ASSUME NEW c, Conn(c), inbound[c.peer] \in Seq(Units)
  PROVE  LET d == received(c)
             more == SubSeq(inbound[c.peer], 1, taken(c)) IN
         /\ Conn(d) /\ Same(c, d) /\ d.input = c.input \o more
         /\ more \in Seq(Units) /\ Len(more) = taken(c)
         /\ d.request = c.request /\ d.sent = c.sent /\ d.out = c.out
         /\ d.peer_closed = c.peer_closed /\ d.drain = c.drain /\ d.want_out = c.want_out
<1> DEFINE more == SubSeq(inbound[c.peer], 1, taken(c))
           v == c.input \o more
           e == WithInput(c, v)
<1>1. taken(c) \in 0 .. Len(inbound[c.peer]) /\ Len(c.input) + taken(c) <= InputCapacity
  BY TakenFacts
<1>2. c.input \in Seq(Units) /\ Len(inbound[c.peer]) \in Nat
  BY ConnFacts, LenProperties
<1>3. more \in Seq(Units) /\ Len(more) = taken(c)
  BY <1>1, <1>2, SubSeqProperties
<1>4. v \in Seq(Units) /\ Len(v) = Len(c.input) + taken(c)
  BY <1>2, <1>3, ConcatProperties
<1>5. received(c) = activity(e, taken(c))
  BY DEF received
<1> HIDE DEF more, v
<1>6. /\ Conn(e) /\ Same(c, e) /\ e.input = v
      /\ e.request = c.request /\ e.sent = c.sent /\ e.out = c.out
      /\ e.peer_closed = c.peer_closed /\ e.drain = c.drain /\ e.want_out = c.want_out
  BY <1>1, <1>4, InputFields
<1> HIDE DEF e
<1> DEFINE d == received(c)
<1>7. /\ Conn(d) /\ Same(e, d) /\ d.input = e.input
      /\ d.request = e.request /\ d.sent = e.sent /\ d.out = e.out
      /\ d.peer_closed = e.peer_closed /\ d.drain = e.drain /\ d.want_out = e.want_out
  BY <1>5, <1>6, ActivityFields
<1>8. v = c.input \o more
  BY DEF v
<1> QED
  BY <1>3, <1>6, <1>7, <1>8 DEF Same, more

\* What a handler makes of a connection: it closes it or keeps it for the
\* same client.
Kept(c, d) == Conn(d) /\ Same(c, d)

Outcome(c, d) ==
  \/ d = Free
  \/ Kept(c, d) /\ (d.out = c.out \/ d.out = NoResponse \/ (draining => d.out.close))

\* read_connection, taken apart at its returns.
LEMMA ReadCases ==
  ASSUME NEW c, inbound[c.peer] \in Seq(Units)
  PROVE  LET read == received(c)
             ended == WithEnd(read, fin[c.peer])
             next == IF HasResponse(ended) THEN ended ELSE drive_requests(ended) IN
         read_connection(c) =
           CASE Len(read.input) >= InputCapacity ->
                  update_connection_events(prepare_response(read, 0, 413, TRUE))
             [] Len(read.input) < InputCapacity ->
                  IF rst[c.peer] \/ finished(next) THEN Free ELSE next
  BY DEF read_connection, received, WithInput, WithEnd

\* read_connection closes the connection or leaves it well-typed and its own.
LEMMA ReadOutcome ==
  ASSUME ScriptsTyped, draining \in BOOLEAN, NEW c, Conn(c),
         inbound[c.peer] \in Seq(Units), fin[c.peer] \in BOOLEAN
  PROVE  Outcome(c, read_connection(c))
<1> DEFINE read == received(c)
           ended == WithEnd(read, fin[c.peer])
           next == IF HasResponse(ended) THEN ended ELSE drive_requests(ended)
           d == read_connection(c)
<1>1. Conn(read) /\ Same(c, read) /\ read.out = c.out
  BY ReceivedFields
<1>2. d = CASE Len(read.input) >= InputCapacity ->
                  update_connection_events(prepare_response(read, 0, 413, TRUE))
             [] Len(read.input) < InputCapacity ->
                  IF rst[c.peer] \/ finished(next) THEN Free ELSE next
  BY ReadCases
<1>3. Len(read.input) \in Nat /\ InputCapacity \in Nat
  BY <1>1, ConnFacts
<1> HIDE DEF d, next, ended, read
<1>4. CASE Len(read.input) >= InputCapacity
  <2> DEFINE none == 0
             code == 413
             yes == TRUE
             e == prepare_response(read, none, code, yes)
  <2>0. ~(Len(read.input) < InputCapacity)
    BY <1>3, <1>4
  <2>1. d = update_connection_events(e)
    BY <1>2, <1>4, <2>0, Zenon
  <2>2. none \in Nat /\ code \in Statuses /\ yes \in BOOLEAN /\ yes
    BY DEF Statuses
  <2> HIDE DEF none, code, yes
  <2>3. Conn(e) /\ Same(read, e) /\ e.out = [req |-> none, status |-> code, close |-> yes]
    BY <1>1, <2>2, ResponseFields, ZenonT(40)
  <2> HIDE DEF e
  <2>4. Conn(d) /\ Same(e, d) /\ d.out = e.out
    BY <2>1, <2>3, EventsFields
  <2>5. d.out.close
    BY <2>2, <2>3, <2>4
  <2>6. Same(c, d)
    BY <1>1, <2>3, <2>4 DEF Same
  <2> QED
    BY <2>4, <2>5, <2>6 DEF Outcome, Kept, d
<1>5. CASE Len(read.input) < InputCapacity
  <2>1. d = IF rst[c.peer] \/ finished(next) THEN Free ELSE next
    BY <1>2, <1>3, <1>5
  <2>2. Conn(ended) /\ Same(read, ended) /\ ended.out = read.out
    BY <1>1, EndFields DEF ended
  <2>3. /\ Conn(next) /\ Same(ended, next)
        /\ next.out = ended.out \/ (draining => next.out.close)
    BY <2>2, DriveFields DEF next, Same
  <2>4. Same(c, next)
    BY <1>1, <2>2, <2>3 DEF Same
  <2>5. next.out = c.out \/ (draining => next.out.close)
    BY <1>1, <2>2, <2>3
  <2> QED
    BY <2>1, <2>3, <2>4, <2>5 DEF Outcome, Kept, d
<1> QED
  BY <1>3, <1>4, <1>5

\* What send takes is left of the response.
LEMMA SendableFacts ==
  ASSUME NEW c, Conn(c), room[c.peer] \in Nat
  PROVE  /\ sendable(c) \in Nat /\ c.sent + sendable(c) <= ResponseUnits
         /\ sendable(c) <= room[c.peer]
<1> DEFINE n == room[c.peer]
           m == ResponseUnits - c.sent
<1>1. n \in Nat /\ m \in Nat /\ c.sent + m = ResponseUnits /\ c.sent \in Nat
  BY ConnFacts, LimitsAssumption
<1>2. sendable(c) = IF rst[c.peer] THEN 0 ELSE IF m < n THEN m ELSE n
  BY DEF sendable, Lesser
<1> HIDE DEF n, m
<1>3. sendable(c) \in Nat /\ sendable(c) <= n /\ sendable(c) <= m
  BY <1>1, <1>2
<1> QED
  BY <1>1, <1>3 DEF n

\* The connection when send has returned.
progressed(c) == activity(WithSent(c, sendable(c)), sendable(c))

\* A connection that has sent is the same one.
LEMMA ProgressedFields ==
  ASSUME NEW c, Conn(c), room[c.peer] \in Nat
  PROVE  LET d == progressed(c) IN
         /\ Conn(d) /\ Same(c, d) /\ d.input = c.input
         /\ d.request = c.request /\ d.sent = c.sent + sendable(c) /\ d.out = c.out
         /\ d.peer_closed = c.peer_closed /\ d.drain = c.drain /\ d.want_out = c.want_out
<1> DEFINE e == WithSent(c, sendable(c))
           d == progressed(c)
<1>1. /\ Conn(e) /\ Same(c, e) /\ e.input = c.input
      /\ e.request = c.request /\ e.sent = c.sent + sendable(c) /\ e.out = c.out
      /\ e.peer_closed = c.peer_closed /\ e.drain = c.drain /\ e.want_out = c.want_out
  BY SendableFacts, SentFields
<1>2. d = activity(e, sendable(c))
  BY DEF progressed
<1> HIDE DEF d, e
<1>3. /\ Conn(d) /\ Same(e, d) /\ d.input = e.input
      /\ d.request = e.request /\ d.sent = e.sent /\ d.out = e.out
      /\ d.peer_closed = e.peer_closed /\ d.drain = e.drain /\ d.want_out = e.want_out
  BY <1>1, <1>2, ActivityFields
<1> QED
  BY <1>1, <1>3 DEF Same, d

\* flush_connection, taken apart at its returns.
LEMMA FlushCases ==
  ASSUME NEW c
  PROVE  LET next == drive_requests(consume_request(progressed(c))) IN
         flush_connection(c) =
           IF rst[c.peer] THEN Free
           ELSE IF progressed(c).sent < ResponseUnits
                THEN update_connection_events(progressed(c))
           ELSE IF response_close(c) \/ c.request > Len(c.input) \/ finished(next)
           THEN Free ELSE update_connection_events(next)
  BY DEF flush_connection, progressed, WithSent

\* flush_connection closes the connection or leaves it well-typed and its own.
LEMMA FlushOutcome ==
  ASSUME ScriptsTyped, draining \in BOOLEAN, NEW c, Conn(c), room[c.peer] \in Nat
  PROVE  Outcome(c, flush_connection(c))
<1> DEFINE sent == progressed(c)
           rest == consume_request(sent)
           next == drive_requests(rest)
           d == flush_connection(c)
<1>1. Conn(sent) /\ Same(c, sent) /\ sent.out = c.out
  BY ProgressedFields
<1>2. d = IF rst[c.peer] THEN Free
          ELSE IF sent.sent < ResponseUnits THEN update_connection_events(sent)
          ELSE IF response_close(c) \/ c.request > Len(c.input) \/ finished(next)
          THEN Free ELSE update_connection_events(next)
  BY FlushCases
<1> HIDE DEF sent
<1>3. Conn(rest) /\ Same(sent, rest) /\ rest.out = NoResponse
  BY <1>1, ConsumeFields
<1> HIDE DEF rest
<1>4. /\ Conn(next) /\ Same(rest, next)
      /\ next.out = rest.out \/ (draining => next.out.close)
  BY <1>3, DriveFields
<1> HIDE DEF next, d
<1>5. CASE d = Free
  BY <1>5 DEF Outcome, d
<1>6. CASE d = update_connection_events(sent)
  <2>1. Conn(d) /\ Same(sent, d) /\ d.out = sent.out
    BY <1>1, <1>6, EventsFields
  <2> QED
    BY <1>1, <2>1 DEF Outcome, Kept, Same, d
<1>7. CASE d = update_connection_events(next)
  <2>1. Conn(d) /\ Same(next, d) /\ d.out = next.out
    BY <1>4, <1>7, EventsFields
  <2>2. d.out = NoResponse \/ (draining => d.out.close)
    BY <1>3, <1>4, <2>1
  <2>3. Same(c, d)
    BY <1>1, <1>3, <1>4, <2>1 DEF Same
  <2> QED
    BY <2>1, <2>2, <2>3 DEF Outcome, Kept, d
<1> QED
  BY <1>2, <1>5, <1>6, <1>7

-----------------------------------------------------------------------------
LoopTyped ==
  /\ phase \in {"config", "wait", "dispatch", "accept", "exited"}
  /\ status \in {0, 2} /\ routes \in 0 .. KH_MAX_ROUTES
  /\ configuration_error \in BOOLEAN
  /\ listener \in {ListenerFd, NoFd}
  /\ draining \in BOOLEAN /\ drain_left \in 0 .. drain_timeout
  /\ signal \in BOOLEAN

TableTyped ==
  /\ connections \in [Slots -> ConnectionType]
  /\ \A s \in Slots : Len(connections[s].input) <= InputCapacity
  /\ socket \in [ConnectionFds -> Clients \cup {NoClient}]

WireTyped ==
  /\ backlog \in Seq(Clients)
  /\ inbound \in [Clients -> Seq(Units)]
  /\ fin \in [Clients -> BOOLEAN] /\ rst \in [Clients -> BOOLEAN]
  /\ room \in [Clients -> 0 .. SendRoom]

WrittenTyped ==
  /\ written \in [Clients -> Nat]
  /\ \A c \in Clients : written[c] <= Len(script[c])

Typed == LoopTyped /\ TableTyped /\ WireTyped /\ WrittenTyped /\ ScriptsTyped

\* A slot in use and its descriptor name each other and the same client.
TableOK ==
  /\ \A s \in Used : /\ connections[s].peer \in Clients
                     /\ socket[connections[s].fd] = connections[s].peer
  /\ \A fd \in ConnectionFds : socket[fd] # NoClient =>
       \E s \in Slots : connections[s].fd = fd
  /\ \A s, t \in Used : connections[s].fd = connections[t].fd => s = t
  /\ active_connections = Cardinality(Used)

\* Every event of a connection still finds the connection it was reported
\* for: only the dispatch of the event itself can close that one.
EventsOK ==
  /\ \A e \in batch : e.fd \in ConnectionFds \cup {ListenerFd, SignalFd}
  /\ \A e \in batch : e.fd \in ConnectionFds =>
       \E s \in Slots : connections[s].fd = e.fd /\ connections[s].peer = e.for
  /\ \A e, f \in batch : e.fd = f.fd => e = f

IInv == Typed /\ TableOK /\ EventsOK

\* The descriptors of the listener, of the signals and of connections differ.
LEMMA Constants ==
  /\ maximum_connections \in Nat \ {0} /\ NoFd \notin ConnectionFds /\ NoFd \in Int
  /\ ConnectionFds \subseteq Nat /\ Slots \subseteq Nat
  /\ ListenerFd \notin ConnectionFds /\ SignalFd \notin ConnectionFds
  /\ ListenerFd # SignalFd /\ ListenerFd # NoFd /\ SignalFd # NoFd
  /\ NoClient \notin Clients
  BY LimitsAssumption DEF NoFd, ConnectionFds, Slots, ListenerFd, SignalFd

\* There is one descriptor more than there are slots.
LEMMA SlotsFinite ==
  /\ IsFiniteSet(Slots) /\ Cardinality(Slots) = maximum_connections
  /\ IsFiniteSet(ConnectionFds) /\ Cardinality(ConnectionFds) = maximum_connections + 1
<1> DEFINE n == maximum_connections
<1>1. n \in Nat /\ n > 0 /\ 1 \in Int /\ 2 \in Int /\ n \in Int /\ n + 2 \in Int
  BY LimitsAssumption
<1>2. Slots = 1 .. n /\ ConnectionFds = 2 .. n + 2
  BY DEF Slots, ConnectionFds
<1> HIDE DEF n
<1>3. IsFiniteSet(1 .. n) /\ Cardinality(1 .. n) = IF 1 > n THEN 0 ELSE n - 1 + 1
  BY <1>1, FS_Interval
<1>4. IsFiniteSet(2 .. n + 2) /\ Cardinality(2 .. n + 2) = IF 2 > n + 2 THEN 0 ELSE n + 2 - 2 + 1
  BY <1>1, FS_Interval
<1>5. n - 1 + 1 = n /\ n + 2 - 2 + 1 = n + 1 /\ ~(1 > n) /\ ~(2 > n + 2)
  BY <1>1
<1> QED
  BY <1>2, <1>3, <1>4, <1>5 DEF n

\* No more slots are in use than there are.
LEMMA UsedFinite == IsFiniteSet(Used) /\ Cardinality(Used) \in 0 .. maximum_connections
<1>1. Used \subseteq Slots
  BY DEF Used
<1> QED
  BY <1>1, SlotsFinite, FS_Subset, FS_CardinalityType, LimitsAssumption

\* A slot in use is a well-typed connection with a descriptor.
LEMMA UsedFacts ==
  ASSUME TableTyped, NEW s \in Used
  PROVE  s \in Slots /\ Conn(connections[s]) /\ connections[s].fd \in ConnectionFds
  BY DEF TableTyped, Used, Conn, ConnectionType

\* The sockets' units are the same as long as the scripts are.
LEMMA TypesStay ==
  ASSUME script' = script
  PROVE  Units' = Units /\ ConnectionType' = ConnectionType
  BY DEF Units, ConnectionType

\* The invariant says at least what TypeOK says.
LEMMA TypesFollow == IInv => TypeOK
<1> SUFFICES ASSUME IInv PROVE TypeOK
  OBVIOUS
<1>1. active_connections \in 0 .. maximum_connections
  BY UsedFinite DEF IInv, TableOK
<1>2. \A c \in Clients : written[c] \in 0 .. Len(script[c])
  <2> TAKE c \in Clients
  <2>1. script[c] \in Seq(Unit)
    BY ScriptsAssumption DEF IInv, Typed, ScriptsTyped, IsScript
  <2>2. Len(script[c]) \in Nat
    BY <2>1, LenProperties
  <2> QED
    BY <2>2 DEF IInv, Typed, WrittenTyped
<1> QED
  BY <1>1, <1>2 DEF IInv, Typed, TypeOK, LoopTyped, TableTyped, WireTyped

\* The invariant says at least what TableMatchesSockets says.
LEMMA TableFollows == IInv => TableMatchesSockets
<1> SUFFICES ASSUME IInv PROVE TableMatchesSockets
  OBVIOUS
<1>1. ASSUME NEW fd \in ConnectionFds, socket[fd] # NoClient
      PROVE  \E s \in Slots : connections[s].fd = fd /\ connections[s].peer = socket[fd]
  <2>1. PICK s \in Slots : connections[s].fd = fd
    BY <1>1 DEF IInv, TableOK
  <2>2. s \in Used
    BY <2>1, Constants DEF Used
  <2> QED
    BY <2>1, <2>2 DEF IInv, TableOK
<1> QED
  BY <1>1 DEF IInv, TableOK, TableMatchesSockets

\* The invariant says at least what EventsReachTheirConnection says.
LEMMA EventsFollow == IInv => EventsReachTheirConnection
<1> SUFFICES ASSUME IInv, NEW e \in batch, NEW s \in Used, connections[s].fd = e.fd
             PROVE  connections[s].peer = e.for
  BY DEF EventsReachTheirConnection
<1>1. e.fd \in ConnectionFds
  BY UsedFacts DEF IInv, Typed
<1>2. PICK t \in Slots : connections[t].fd = e.fd /\ connections[t].peer = e.for
  BY <1>1 DEF IInv, EventsOK
<1>3. t \in Used
  BY <1>1, <1>2, Constants DEF Used
<1> QED
  BY <1>2, <1>3 DEF IInv, TableOK

\* The server starts with an empty table.
LEMMA InitHolds == Init => IInv
<1> SUFFICES ASSUME Init PROVE IInv
  OBVIOUS
<1> USE DEF Init
<1>1. LoopTyped
  <2>1. 0 \in 0 .. KH_MAX_ROUTES /\ 0 \in 0 .. drain_timeout
    BY LimitsAssumption
  <2>2. FALSE \in BOOLEAN /\ 0 \in {0, 2} /\ ListenerFd \in {ListenerFd, NoFd}
    OBVIOUS
  <2>3. /\ phase \in {"config", "wait", "dispatch", "accept", "exited"}
        /\ listener \in {ListenerFd, NoFd} /\ status \in {0, 2}
    OBVIOUS
  <2>4. routes \in 0 .. KH_MAX_ROUTES /\ drain_left \in 0 .. drain_timeout
    BY <2>1
  <2>5. configuration_error \in BOOLEAN /\ draining \in BOOLEAN /\ signal \in BOOLEAN
    OBVIOUS
  <2> QED
    BY <2>3, <2>4, <2>5 DEF LoopTyped
<1>2. TableTyped
  BY FreeIsConn DEF TableTyped, Conn
<1>3. WireTyped
  BY LimitsAssumption, EmptySeq DEF WireTyped
<1>4. ScriptsTyped
  BY DEF ScriptsTyped
<1>5. WrittenTyped
  <2> SUFFICES ASSUME NEW c \in Clients PROVE 0 <= Len(script[c])
    BY DEF WrittenTyped
  <2>1. script[c] \in Seq(Unit)
    BY ScriptsAssumption DEF IsScript
  <2> QED
    BY <2>1, LenProperties
<1>6. Used = {}
  BY FreeIsConn DEF Used
<1>7. TableOK
  BY <1>6, FS_EmptySet DEF TableOK
<1>8. EventsOK
  BY DEF EventsOK
<1> QED
  BY <1>1, <1>2, <1>3, <1>4, <1>5, <1>7, <1>8 DEF IInv, Typed

\* A step that keeps the slots and the sockets, whatever else it does.
LEMMA SlotsStay ==
  ASSUME TableOK, UNCHANGED <<socket, active_connections>>,
         \A s \in Slots : Same(connections[s], connections'[s])
  PROVE  TableOK'
<1>1. Used' = Used
  BY DEF Used, Same
<1>2. \A s \in Used : s \in Slots
  BY DEF Used
<1> QED
  BY <1>1, <1>2 DEF TableOK, Same

\* Events are only taken from the batch, and their connections stay.
LEMMA EventsStay ==
  ASSUME EventsOK, batch' \subseteq batch,
         \A e \in batch' : \A s \in Slots :
           connections[s].fd = e.fd => Same(connections[s], connections'[s])
  PROVE  EventsOK'
<1>1. \A e \in batch' : e \in batch
  OBVIOUS
<1>2. ASSUME NEW e \in batch', e.fd \in ConnectionFds
      PROVE  \E s \in Slots : connections'[s].fd = e.fd /\ connections'[s].peer = e.for
  <2>1. PICK s \in Slots : connections[s].fd = e.fd /\ connections[s].peer = e.for
    BY <1>1, <1>2 DEF EventsOK
  <2>2. Same(connections[s], connections'[s])
    BY <2>1
  <2> QED
    BY <2>1, <2>2 DEF Same
<1> QED
  BY <1>1, <1>2 DEF EventsOK

\* Closing a connection frees its slot and its descriptor together.
LEMMA SlotsClose ==
  ASSUME TableTyped, TableOK, NEW S, S \subseteq Used, close_connections(S),
         \A s \in Slots : IF s \in S THEN connections'[s].fd = NoFd
                          ELSE Same(connections[s], connections'[s])
  PROVE  TableOK' /\ socket' \in [ConnectionFds -> Clients \cup {NoClient}]
<1>1. Used' = Used \ S
  BY DEF Used, Same
<1>2. IsFiniteSet(Used) /\ Cardinality(Used \ S) = Cardinality(Used) - Cardinality(Used \cap S)
  BY UsedFinite, FS_Difference
<1>3. Used \cap S = S
  OBVIOUS
<1>4. active_connections' = Cardinality(Used')
  BY <1>1, <1>2, <1>3 DEF close_connections, TableOK
<1>5. ASSUME NEW s \in Used'
      PROVE  /\ s \in Used /\ Same(connections[s], connections'[s])
             /\ connections[s].fd \in ConnectionFds
             /\ \A t \in S : connections[t].fd # connections[s].fd
  <2>1. s \in Used /\ s \notin S /\ s \in Slots
    BY <1>1 DEF Used
  <2>2. \A t \in S : t \in Used /\ t # s
    BY <2>1
  <2> QED
    BY <2>1, <2>2, UsedFacts DEF TableOK
<1>6. ASSUME NEW s \in Used'
      PROVE  /\ connections'[s].peer \in Clients
             /\ socket'[connections'[s].fd] = connections'[s].peer
  <2>1. connections'[s].fd = connections[s].fd /\ connections'[s].peer = connections[s].peer
    BY <1>5 DEF Same
  <2>2. socket'[connections[s].fd] = socket[connections[s].fd]
    BY <1>5 DEF close_connections
  <2> QED
    BY <1>5, <2>1, <2>2 DEF TableOK
<1>7. ASSUME NEW fd \in ConnectionFds, socket'[fd] # NoClient
      PROVE  \E s \in Slots : connections'[s].fd = fd
  <2>1. socket[fd] # NoClient /\ \A s \in S : connections[s].fd # fd
    BY <1>7 DEF close_connections
  <2>2. PICK s \in Slots : connections[s].fd = fd
    BY <2>1 DEF TableOK
  <2>3. s \notin S
    BY <2>1, <2>2
  <2> QED
    BY <2>2, <2>3 DEF Same
<1>8. ASSUME NEW s \in Used', NEW t \in Used', connections'[s].fd = connections'[t].fd
      PROVE  s = t
  BY <1>5, <1>8 DEF Same, TableOK
<1>9. socket' \in [ConnectionFds -> Clients \cup {NoClient}]
  BY DEF close_connections, TableTyped
<1> QED
  BY <1>4, <1>6, <1>7, <1>8, <1>9 DEF TableOK

\* There is one descriptor more than there are slots.
LEMMA FreeDescriptor ==
  ASSUME TableTyped, TableOK
  PROVE  free_fd \in ConnectionFds /\ socket[free_fd] = NoClient
<1> DEFINE open(fd) == CHOOSE s \in Slots : connections[s].fd = fd
           F == [fd \in ConnectionFds |-> open(fd)]
           free == {fd \in ConnectionFds : socket[fd] = NoClient}
<1>1. ASSUME \A fd \in ConnectionFds : socket[fd] # NoClient
      PROVE  FALSE
  <2>1. ASSUME NEW fd \in ConnectionFds
        PROVE  open(fd) \in Slots /\ connections[open(fd)].fd = fd
    <3>1. \E s \in Slots : connections[s].fd = fd
      BY <1>1 DEF TableOK
    <3> QED
      BY <3>1
  <2>2. F \in [ConnectionFds -> Slots]
    BY <2>1
  <2>3. Cardinality(Slots) < Cardinality(ConnectionFds)
    BY SlotsFinite, Constants
  <2>4. \A fd \in ConnectionFds : connections[F[fd]].fd = fd
    BY <2>1
  <2> HIDE DEF F
  <2>5. \E x, y \in ConnectionFds : x # y /\ F[x] = F[y]
    BY <2>2, <2>3, SlotsFinite, FS_PigeonHole
  <2> QED
    BY <2>4, <2>5
<1>2. free # {} /\ free \subseteq Nat
  BY <1>1, Constants
<1>3. Smallest(free) \in free
  BY <1>2, LeastNatural
<1> QED
  BY <1>3 DEF free_fd

\* find_free_slot finds a slot that is not in use.
LEMMA FreeSlot ==
  ASSUME Used # Slots
  PROVE  Smallest(Slots \ Used) \in Slots \ Used
<1>1. Slots \ Used # {} /\ Slots \ Used \subseteq Nat
  BY Constants DEF Used
<1> QED
  BY <1>1, LeastNatural

\* Opening a connection takes a free slot and a free descriptor together.
LEMMA AcceptOpens ==
  ASSUME TableTyped, TableOK, NEW s \in Slots, s \notin Used, NEW x \in Clients,
         NEW fd \in ConnectionFds, socket[fd] = NoClient,
         NEW c, Conn(c), c.fd = fd, c.peer = x,
         connections' = [connections EXCEPT ![s] = c],
         active_connections' = active_connections + 1,
         socket' = [socket EXCEPT ![fd] = x]
  PROVE  TableOK'
<1>1. /\ connections'[s] = c
      /\ \A t \in Slots : t # s => connections'[t] = connections[t]
  BY DEF TableTyped
<1>2. Used' = Used \cup {s}
  BY <1>1, Constants DEF Used
<1>3. active_connections' = Cardinality(Used')
  BY <1>2, UsedFinite, FS_AddElement DEF TableOK
<1>4. \A t \in Used : /\ t \in Slots /\ t # s /\ connections[t].fd \in ConnectionFds
                      /\ connections[t].fd # fd
  <2> TAKE t \in Used
  <2>1. t \in Slots /\ connections[t].fd \in ConnectionFds
    BY UsedFacts
  <2>2. socket[connections[t].fd] \in Clients
    BY DEF TableOK
  <2> QED
    BY <2>1, <2>2, Constants
<1>5. /\ socket'[fd] = x
      /\ \A g \in ConnectionFds : g # fd => socket'[g] = socket[g]
  BY DEF TableTyped
<1>6. ASSUME NEW t \in Used'
      PROVE  connections'[t].peer \in Clients /\ socket'[connections'[t].fd] = connections'[t].peer
  <2>1. CASE t = s
    BY <1>1, <1>5, <2>1
  <2>2. CASE t # s
    BY <1>1, <1>2, <1>4, <1>5, <2>2 DEF TableOK
  <2> QED
    BY <2>1, <2>2
<1>7. ASSUME NEW g \in ConnectionFds, socket'[g] # NoClient
      PROVE  \E t \in Slots : connections'[t].fd = g
  <2>1. CASE g = fd
    BY <1>1, <2>1
  <2>2. CASE g # fd
    <3>1. PICK t \in Slots : connections[t].fd = g
      BY <1>5, <1>7, <2>2 DEF TableOK
    <3>2. t # s
      BY <3>1, Constants DEF Used
    <3> QED
      BY <1>1, <3>1, <3>2
  <2> QED
    BY <2>1, <2>2
<1>8. ASSUME NEW t \in Used', NEW u \in Used', connections'[t].fd = connections'[u].fd
      PROVE  t = u
  <2>1. CASE t = s \/ u = s
    BY <1>1, <1>2, <1>4, <1>8, <2>1
  <2>2. CASE t # s /\ u # s
    BY <1>1, <1>2, <1>4, <1>8, <2>2 DEF TableOK
  <2> QED
    BY <2>1, <2>2
<1> QED
  BY <1>3, <1>6, <1>7, <1>8 DEF TableOK

\* The steps that keep every connection open.
LEMMA KeptHolds ==
  ASSUME IInv, LoopTyped', backlog' \in Seq(Clients), batch' \subseteq batch,
         UNCHANGED <<socket, active_connections, wireVars, script, written>>,
         connections' \in [Slots -> ConnectionType],
         \A s \in Slots : Kept(connections[s], connections'[s])
  PROVE  IInv'
<1>1. Units' = Units /\ ConnectionType' = ConnectionType
  BY TypesStay
<1>2. TableTyped'
  BY <1>1 DEF TableTyped, IInv, Typed, Kept, Conn
<1>3. WireTyped'
  BY <1>1 DEF WireTyped, IInv, Typed, wireVars
<1>4. WrittenTyped' /\ ScriptsTyped'
  BY DEF WrittenTyped, ScriptsTyped, IInv, Typed
<1>5. TableOK'
  BY SlotsStay DEF IInv, Kept
<1>6. EventsOK'
  BY EventsStay DEF IInv, Kept
<1> QED
  BY <1>2, <1>3, <1>4, <1>5, <1>6 DEF IInv, Typed

\* The steps of the loop that leave the table and the wires alone.
LEMMA QuietHolds ==
  ASSUME IInv, LoopTyped', batch' \subseteq batch,
         UNCHANGED <<tableVars, backlog, wireVars, script, written>>
  PROVE  IInv'
<1>1. connections' = connections /\ connections \in [Slots -> ConnectionType]
      /\ \A s \in Slots : Conn(connections[s])
  BY DEF tableVars, IInv, Typed, TableTyped, Conn
<1>2. backlog' \in Seq(Clients)
  BY DEF IInv, Typed, WireTyped
<1>3. UNCHANGED <<socket, active_connections, wireVars, script, written>>
  BY DEF tableVars
<1>4. \A s \in Slots : Kept(connections[s], connections'[s])
  BY <1>1 DEF Kept, Same
<1> QED
  BY <1>1, <1>2, <1>3, <1>4, KeptHolds

\* server_destroy closes every connection.
LEMMA DestroyHolds ==
  ASSUME IInv, NEW code \in {0, 2}, server_destroy(code)
  PROVE  IInv'
<1> USE DEF server_destroy
<1>1. Units' = Units /\ ConnectionType' = ConnectionType
  BY TypesStay DEF worldVars, clientVars
<1>2. LoopTyped'
  BY DEF LoopTyped, IInv, Typed, configVars
<1>3. TableTyped'
  BY <1>1, FreeIsConn DEF TableTyped, Conn
<1>4. WireTyped'
  BY <1>1, EmptySeq DEF WireTyped, IInv, Typed, worldVars, wireVars
<1>5. WrittenTyped' /\ ScriptsTyped'
  BY DEF WrittenTyped, ScriptsTyped, IInv, Typed, worldVars, clientVars
<1>6. Used' = {}
  BY FreeIsConn DEF Used
<1>7. TableOK'
  BY <1>6, FS_EmptySet DEF TableOK
<1>8. EventsOK'
  BY DEF EventsOK
<1> QED
  BY <1>2, <1>3, <1>4, <1>5, <1>7, <1>8 DEF IInv, Typed

\* epoll_wait reports an open descriptor once, for the client behind it.
LEMMA WaitHolds == IInv /\ epoll_wait => IInv'
<1> SUFFICES ASSUME IInv, epoll_wait PROVE IInv'
  OBVIOUS
<1> USE DEF epoll_wait
<1>1. UNCHANGED <<connections, socket, active_connections, backlog, inbound, fin, rst, room,
                  script, written>>
  BY DEF tableVars, worldVars, wireVars, clientVars
<1>2. Typed'
  <2>1. Units' = Units /\ ConnectionType' = ConnectionType
    BY <1>1, TypesStay
  <2>2. LoopTyped'
    BY DEF LoopTyped, IInv, Typed, configVars, drainVars
  <2>3. TableTyped' /\ WireTyped' /\ WrittenTyped' /\ ScriptsTyped'
    BY <1>1, <2>1 DEF TableTyped, WireTyped, WrittenTyped, ScriptsTyped, IInv, Typed
  <2> QED
    BY <2>2, <2>3 DEF Typed
<1>3. TableOK'
  BY <1>1 DEF TableOK, IInv, Used
<1>4. ASSUME NEW e \in batch'
      PROVE  \/ \E s \in Used : e.fd = connections[s].fd /\ e = event(s)
             \/ e = plain_event(ListenerFd) /\ e.fd = ListenerFd
             \/ e = plain_event(SignalFd) /\ e.fd = SignalFd
  <2>1. e \in Ready
    OBVIOUS
  <2>2. CASE e \in {event(s) : s \in Used}
    BY <2>2 DEF event
  <2>3. CASE listener # NoFd /\ e = plain_event(listener)
    BY <2>3 DEF plain_event, IInv, Typed, LoopTyped
  <2>4. CASE e = plain_event(SignalFd)
    BY <2>4 DEF plain_event
  <2> QED
    BY <2>1, <2>2, <2>3, <2>4 DEF Ready
<1>5. \A s \in Used : s \in Slots /\ connections[s].fd \in ConnectionFds /\ event(s).for = connections[s].peer
  BY UsedFacts DEF event, IInv, Typed
<1>6. ASSUME NEW e \in batch', NEW f \in batch', e.fd = f.fd
      PROVE  e = f
  <2>1. CASE e.fd \in ConnectionFds
    BY <1>4, <1>6, <2>1, Constants DEF IInv, TableOK
  <2>2. CASE e.fd \notin ConnectionFds
    BY <1>4, <1>5, <1>6, <2>2, Constants
  <2> QED
    BY <2>1, <2>2
<1>7. EventsOK'
  <2>1. ASSUME NEW e \in batch'
        PROVE  e.fd \in ConnectionFds \cup {ListenerFd, SignalFd}
    BY <1>4, <1>5
  <2>2. ASSUME NEW e \in batch', e.fd \in ConnectionFds
        PROVE  \E s \in Slots : connections'[s].fd = e.fd /\ connections'[s].peer = e.for
    BY <1>1, <1>4, <1>5, <2>2, Constants
  <2> QED
    BY <1>6, <2>1, <2>2 DEF EventsOK
<1> QED
  BY <1>2, <1>3, <1>7 DEF IInv

\* What is left of the table when S is closed.
LEMMA CloseHolds ==
  ASSUME IInv, LoopTyped', WireTyped', UNCHANGED <<script, written>>,
         batch' \subseteq batch,
         NEW S, S \subseteq Used, close_connections(S),
         connections' \in [Slots -> ConnectionType],
         \A s \in Slots : IF s \in S THEN connections'[s] = Free
                          ELSE Kept(connections[s], connections'[s]),
         \A e \in batch' : \A s \in S : connections[s].fd # e.fd
  PROVE  IInv'
<1>1. Units' = Units /\ ConnectionType' = ConnectionType
  BY TypesStay
<1>2. \A s \in Slots : IF s \in S THEN connections'[s].fd = NoFd
                       ELSE Same(connections[s], connections'[s])
  BY FreeIsConn DEF Kept
<1>3. TableOK' /\ socket' \in [ConnectionFds -> Clients \cup {NoClient}]
  BY <1>2, SlotsClose DEF IInv, Typed
<1>4. \A s \in Slots : Len(connections'[s].input) <= InputCapacity
  BY FreeIsConn DEF Kept, Conn
<1>5. TableTyped'
  BY <1>1, <1>3, <1>4 DEF TableTyped
<1>6. WrittenTyped' /\ ScriptsTyped'
  BY DEF WrittenTyped, ScriptsTyped, IInv, Typed
<1>7. EventsOK'
  BY <1>2, EventsStay DEF IInv
<1> QED
  BY <1>3, <1>5, <1>6, <1>7 DEF IInv, Typed

\* A connection that is left alone is kept.
LEMMA KeptItself ==
  ASSUME IInv, NEW s \in Slots
  PROVE  Conn(connections[s]) /\ Kept(connections[s], connections[s])
  BY DEF IInv, Typed, TableTyped, Conn, Kept, Same

\* Marking a connection for the drain keeps it.
LEMMA MarkedKept ==
  ASSUME NEW c, Conn(c)
  PROVE  Kept(c, marked(c)) /\ marked(c).out = c.out
<1> DEFINE b == c.fd # NoFd
<1>1. b \in BOOLEAN /\ marked(c) = [c EXCEPT !.drain = b]
  BY DEF marked
<1> HIDE DEF b
<1> QED
  BY <1>1 DEF Kept, Conn, Same, ConnectionType

\* A second that passes keeps a connection.
LEMMA OlderKept ==
  ASSUME NEW c, Conn(c)
  PROVE  Kept(c, older(c)) /\ older(c).out = c.out
<1> DEFINE a == Lesser(c.age + 1, idle_timeout)
           w == IF c.input = <<>> THEN 0 ELSE Lesser(c.waited + 1, idle_timeout)
<1>1. c.age \in 0 .. idle_timeout /\ c.waited \in 0 .. idle_timeout /\ idle_timeout \in Nat
  BY LimitsAssumption DEF Conn, ConnectionType
<1>2. a \in 0 .. idle_timeout /\ w \in 0 .. idle_timeout
  BY <1>1 DEF Lesser
<1>3. older(c) = IF c.fd = NoFd THEN c ELSE [c EXCEPT !.age = a, !.waited = w]
  BY DEF older
<1> HIDE DEF a, w
<1> DEFINE d == [c EXCEPT !.age = a, !.waited = w]
<1>4. Kept(c, d) /\ d.out = c.out
  BY <1>2 DEF Kept, Conn, Same, ConnectionType
<1>5. Kept(c, c)
  BY DEF Kept, Same
<1> QED
  BY <1>3, <1>4, <1>5

\* Draining again changes nothing, draining for the first time marks the slots.
LEMMA DrainKeeps ==
  ASSUME IInv, begin_drain
  PROVE  /\ listener' \in {ListenerFd, NoFd} /\ draining' \in BOOLEAN
         /\ drain_left' \in 0 .. drain_timeout
         /\ backlog' \in Seq(Clients)
         /\ connections' \in [Slots -> ConnectionType]
         /\ \A s \in Slots : /\ Kept(connections[s], connections'[s])
                             /\ connections'[s].out = connections[s].out
<1>1. CASE draining
  BY <1>1, KeptItself DEF begin_drain, drainVars, IInv, Typed, LoopTyped, TableTyped, WireTyped
<1>2. CASE ~draining
  <2>1. drain_timeout \in 0 .. drain_timeout
    BY LimitsAssumption
  <2>2. \A s \in Slots : connections'[s] = marked(connections[s])
    BY <1>2 DEF begin_drain
  <2>3. \A s \in Slots : /\ Kept(connections[s], connections'[s])
                         /\ connections'[s].out = connections[s].out
    BY <2>2, KeptItself, MarkedKept
  <2>4. connections' \in [Slots -> ConnectionType]
    BY <1>2, <2>2, <2>3 DEF begin_drain, Kept, Conn
  <2> QED
    BY <1>2, <2>1, <2>3, <2>4, EmptySeq DEF begin_drain
<1> QED
  BY <1>1, <1>2

\* A client that could not be accepted leaves the table alone.
LEMMA AcceptFailsHolds == IInv /\ accept_fails => IInv'
<1> SUFFICES ASSUME IInv, accept_fails PROVE IInv'
  OBVIOUS
<1> USE DEF accept_fails
<1>1. LoopTyped'
  BY DrainKeeps DEF LoopTyped, IInv, Typed, configVars
<1>2. UNCHANGED <<socket, active_connections, wireVars, script, written>> /\ batch' \subseteq batch
  BY DEF worldVars, clientVars
<1> QED
  BY <1>1, <1>2, DrainKeeps, KeptHolds

\* A signal leaves the table alone.
LEMMA SignalHolds ==
  ASSUME IInv, NEW e \in batch, NEW reads \in BOOLEAN, consume_signals(e, reads)
  PROVE  IInv'
<1> USE DEF consume_signals
<1>1. LoopTyped'
  BY DrainKeeps DEF LoopTyped, IInv, Typed, configVars
<1>2. UNCHANGED <<socket, active_connections, wireVars, script, written>> /\ batch' \subseteq batch
  BY DEF worldVars, clientVars
<1> QED
  BY <1>1, <1>2, DrainKeeps, KeptHolds

\* A second leaves the table alone but for the clocks.
LEMMA TickHolds == IInv /\ tick => IInv'
<1> SUFFICES ASSUME IInv, tick PROVE IInv'
  OBVIOUS
<1> USE DEF tick
<1>1. LoopTyped'
  <2>1. drain_left' \in 0 .. drain_timeout
    BY LimitsAssumption DEF IInv, Typed, LoopTyped
  <2> QED
    BY <2>1 DEF LoopTyped, IInv, Typed, configVars
<1>2. UNCHANGED <<socket, active_connections, wireVars, script, written>> /\ batch' \subseteq batch
      /\ backlog' = backlog
  BY DEF worldVars, clientVars
<1>3. \A s \in Slots : connections'[s] = older(connections[s])
  OBVIOUS
<1>4. \A s \in Slots : Kept(connections[s], connections'[s])
  BY <1>3, KeptItself, OlderKept
<1>5. connections' \in [Slots -> ConnectionType]
  BY <1>3, <1>4 DEF Kept, Conn
<1>6. backlog' \in Seq(Clients)
  BY <1>2 DEF IInv, Typed, WireTyped
<1> QED
  BY <1>1, <1>2, <1>4, <1>5, <1>6, KeptHolds

Opened(fd, x) == [Free EXCEPT !.fd = fd, !.peer = x]

\* A connection that has just been accepted.
LEMMA OpenedFields ==
  ASSUME NEW fd \in ConnectionFds, NEW x \in Clients
  PROVE  Conn(Opened(fd, x)) /\ Opened(fd, x).fd = fd /\ Opened(fd, x).peer = x
         /\ Opened(fd, x).out = NoResponse
<1>1. Conn(Free) /\ Free.out = NoResponse
  BY FreeIsConn
<1> QED
  BY <1>1 DEF Opened, Conn, ConnectionType

\* accept_connections, with and without an error of epoll_ctl.
LEMMA AcceptHolds ==
  ASSUME IInv, NEW epoll_adds \in BOOLEAN, accept_connection(epoll_adds)
  PROVE  IInv'
<1> USE DEF accept_connection
<1>1. Units' = Units /\ ConnectionType' = ConnectionType
  BY TypesStay DEF worldVars, clientVars
<1>2. LoopTyped'
  BY DEF LoopTyped, IInv, Typed, configVars, drainVars
<1>3. Head(backlog) \in Clients /\ backlog' \in Seq(Clients)
  BY HeadTailProperties DEF IInv, Typed, WireTyped
<1>4. WireTyped' /\ WrittenTyped' /\ ScriptsTyped'
  BY <1>1, <1>3 DEF WireTyped, WrittenTyped, ScriptsTyped, IInv, Typed, worldVars, wireVars, clientVars
<1>5. CASE UNCHANGED tableVars
  <2>1. TableTyped'
    BY <1>1, <1>5 DEF TableTyped, IInv, Typed, tableVars
  <2>2. TableOK' /\ EventsOK'
    BY <1>5 DEF TableOK, EventsOK, IInv, tableVars, Used
  <2> QED
    BY <1>2, <1>4, <2>1, <2>2 DEF IInv, Typed
<1>6. CASE Used # Slots /\ epoll_adds
  <2> DEFINE s == Smallest(Slots \ Used)
             fd == free_fd
             x == Head(backlog)
             c == Opened(fd, x)
  <2>1. s \in Slots /\ s \notin Used
    BY <1>6, FreeSlot
  <2>2. fd \in ConnectionFds /\ socket[fd] = NoClient
    BY FreeDescriptor DEF IInv, Typed
  <2>3. Conn(c) /\ c.fd = fd /\ c.peer = x
    BY <1>3, <2>2, OpenedFields
  <2>4. /\ connections' = [connections EXCEPT ![s] = c]
        /\ active_connections' = active_connections + 1
        /\ socket' = [socket EXCEPT ![fd] = x]
    BY <1>6 DEF Opened
  <2>x. x \in Clients
    BY <1>3
  <2> HIDE DEF s, fd, x, c
  <2>5. TableOK'
    BY <2>x, <2>1, <2>2, <2>3, <2>4, AcceptOpens DEF IInv, Typed
  <2>6. TableTyped'
    BY <2>x, <1>1, <2>1, <2>2, <2>3, <2>4 DEF TableTyped, IInv, Typed, Conn
  <2>7. \A t \in Slots : t # s => connections'[t] = connections[t]
    BY <2>1, <2>4 DEF IInv, Typed, TableTyped
  <2>8. EventsOK'
    <3>1. batch' = batch
      OBVIOUS
    <3>2. ASSUME NEW e \in batch, e.fd \in ConnectionFds
          PROVE  \E t \in Slots : connections'[t].fd = e.fd /\ connections'[t].peer = e.for
      <4>1. PICK t \in Slots : connections[t].fd = e.fd /\ connections[t].peer = e.for
        BY <3>2 DEF IInv, EventsOK
      <4>2. t # s
        BY <2>1, <3>2, <4>1, Constants DEF Used
      <4> QED
        BY <2>7, <4>1, <4>2
    <3> QED
      BY <3>1, <3>2 DEF EventsOK, IInv
  <2> QED
    BY <1>2, <1>4, <2>5, <2>6, <2>8 DEF IInv, Typed
<1> QED
  BY <1>5, <1>6

\* expire_connections closes slots and leaves the others as they are.
LEMMA ExpireHolds == IInv /\ expire_connections => IInv'
<1> SUFFICES ASSUME IInv, expire_connections PROVE IInv'
  OBVIOUS
<1> USE DEF expire_connections
<1> DEFINE gone == {s \in Used : expired(connections[s])}
<1>1. LoopTyped'
  BY DEF LoopTyped, IInv, Typed, configVars, drainVars
<1>2. WireTyped' /\ UNCHANGED <<script, written>>
  BY TypesStay DEF WireTyped, IInv, Typed, wireVars, clientVars
<1>3. gone \subseteq Used /\ close_connections(gone)
  OBVIOUS
<1>4. \A s \in Slots : connections'[s] = IF s \in gone THEN Free ELSE connections[s]
  OBVIOUS
<1>5. \A s \in Slots : IF s \in gone THEN connections'[s] = Free
                       ELSE Kept(connections[s], connections'[s])
  BY <1>4, KeptItself
<1>6. connections' \in [Slots -> ConnectionType]
  BY <1>4, KeptItself, FreeIsConn DEF Conn
<1>7. batch' \subseteq batch /\ \A e \in batch' : FALSE
  BY DEF sweep_due
<1> HIDE DEF gone
<1> QED
  BY <1>1, <1>2, <1>3, <1>5, <1>6, <1>7, CloseHolds

-----------------------------------------------------------------------------
\* The three stages of handle_event: recv, send, the hang-up.
was_read(e, c) == IF e.in THEN read_connection(c) ELSE c

was_sent(e, c) ==
  LET read == was_read(e, c)
  IN IF read # Free /\ e.out THEN flush_connection(read) ELSE read

was_kept(e, c) ==
  LET sent == was_sent(e, c)
  IN IF sent # Free /\ e.hup /\ ~HasResponse(sent) THEN Free ELSE sent

units_in(e, c) == IF e.in THEN taken(c) ELSE 0

units_out(e, c) ==
  LET read == was_read(e, c)
  IN IF read # Free /\ e.out THEN sendable(read) ELSE 0

\* A connection that a handler leaves alone is an outcome of it.
LEMMA OutcomeItself == ASSUME NEW c, Conn(c) PROVE Outcome(c, c)
  BY DEF Outcome, Kept, Same

\* Two handlers in a row have an outcome that one could have.
LEMMA OutcomeComposes ==
  ASSUME NEW c, NEW d, NEW e, Outcome(c, d), d # Free, Outcome(d, e)
  PROVE  Outcome(c, e)
  BY DEF Outcome, Kept, Same

\* The branches of handle_connection_event.
LEMMA HandledConnection ==
  ASSUME IInv, NEW e \in batch, NEW s \in Slots, connections[s].fd = e.fd
  PROVE  LET c == connections[s] IN
         /\ s \in Used /\ Conn(c) /\ c.peer \in Clients
         /\ inbound[c.peer] \in Seq(Units) /\ fin[c.peer] \in BOOLEAN
         /\ room[c.peer] \in Nat /\ room[c.peer] <= SendRoom
         /\ ScriptsTyped /\ draining \in BOOLEAN
<1>1. connections[s].fd \in ConnectionFds
  <2>1. connections[s].fd \in ConnectionFds \cup {NoFd}
    BY DEF IInv, Typed, TableTyped, ConnectionType
  <2>2. e.fd \in ConnectionFds \cup {ListenerFd, SignalFd}
    BY DEF IInv, EventsOK
  <2> QED
    BY <2>1, <2>2, Constants
<1>2. s \in Used
  BY <1>1, Constants DEF Used
<1>3. connections[s].peer \in Clients
  BY <1>2 DEF IInv, TableOK
<1> QED
  BY <1>2, <1>3, KeptItself, LimitsAssumption DEF IInv, Typed, WireTyped, LoopTyped

\* handle_connection_event closes the connection or keeps it its own.
LEMMA HandledOutcome ==
  ASSUME IInv, NEW e \in batch, NEW s \in Slots, connections[s].fd = e.fd
  PROVE  LET c == connections[s] IN
         /\ Outcome(c, was_read(e, c)) /\ Outcome(c, was_kept(e, c))
         /\ was_read(e, c) # Free => Kept(c, was_read(e, c))
         /\ units_in(e, c) \in 0 .. Len(inbound[c.peer])
         /\ units_out(e, c) \in 0 .. room[c.peer]
<1> DEFINE c == connections[s]
           read == was_read(e, c)
           sent == was_sent(e, c)
           kept == was_kept(e, c)
<1>1. /\ s \in Used /\ Conn(c) /\ c.peer \in Clients
      /\ inbound[c.peer] \in Seq(Units) /\ fin[c.peer] \in BOOLEAN
      /\ room[c.peer] \in Nat /\ room[c.peer] <= SendRoom
      /\ ScriptsTyped /\ draining \in BOOLEAN
  BY HandledConnection
<1>2. read = IF e.in THEN read_connection(c) ELSE c
  BY DEF was_read
<1>3. sent = IF read # Free /\ e.out THEN flush_connection(read) ELSE read
  BY DEF was_sent
<1>4. kept = IF sent # Free /\ e.hup /\ ~HasResponse(sent) THEN Free ELSE sent
  BY DEF was_kept
<1>5. units_out(e, c) = IF read # Free /\ e.out THEN sendable(read) ELSE 0
  BY DEF units_out
<1> HIDE DEF c, read, sent, kept
<1>6. Outcome(c, read)
  BY <1>1, <1>2, ReadOutcome, OutcomeItself
<1>7. read # Free => Kept(c, read) /\ Conn(read) /\ read.peer = c.peer
  BY <1>6 DEF Outcome, Kept, Same
<1>8. Outcome(c, sent)
  <2>1. CASE read # Free /\ e.out
    <3>1. Conn(read) /\ room[read.peer] \in Nat
      BY <1>1, <1>7, <2>1
    <3>2. Outcome(read, sent)
      BY <1>1, <1>3, <2>1, <3>1, FlushOutcome
    <3> QED
      BY <1>6, <2>1, <3>2, OutcomeComposes
  <2>2. CASE ~(read # Free /\ e.out)
    BY <1>3, <1>6, <2>2
  <2> QED
    BY <2>1, <2>2
<1>9. Outcome(c, kept)
  BY <1>4, <1>8 DEF Outcome
<1>10. units_in(e, c) \in 0 .. Len(inbound[c.peer])
  <2>1. Len(inbound[c.peer]) \in Nat
    BY <1>1, LenProperties
  <2>2. taken(c) \in 0 .. Len(inbound[c.peer])
    BY <1>1, TakenFacts
  <2> QED
    BY <2>1, <2>2 DEF units_in
<1>11. units_out(e, c) \in 0 .. room[c.peer]
  <2>1. CASE read # Free /\ e.out
    <3>1. room[read.peer] = room[c.peer] /\ Conn(read)
      BY <1>7, <2>1
    <3>2. sendable(read) \in Nat /\ sendable(read) <= room[c.peer]
      BY <1>1, <3>1, SendableFacts
    <3> QED
      BY <1>1, <1>5, <2>1, <3>2
  <2>2. CASE ~(read # Free /\ e.out)
    BY <1>1, <1>5, <2>2
  <2> QED
    BY <2>1, <2>2
<1> QED
  BY <1>6, <1>7, <1>9, <1>10, <1>11 DEF c, read, kept

\* An event closes the connection of its slot or replaces it.
LEMMA HandleCases ==
  ASSUME NEW e \in batch, NEW s \in Slots, handle_event(e, s)
  PROVE  LET c == connections[s]
             kept == was_kept(e, c) IN
         /\ c.fd = e.fd /\ batch' = batch \ {e}
         /\ connections' = [connections EXCEPT ![s] = kept]
         /\ IF kept = Free THEN close_connections({s})
            ELSE UNCHANGED <<socket, active_connections>>
         /\ inbound' = [inbound EXCEPT ![c.peer] =
                          SubSeq(@, units_in(e, c) + 1, Len(@))]
         /\ got' = [got EXCEPT ![c.peer] =
                      @ \o response_units(was_read(e, c), units_out(e, c))]
         /\ room' = [room EXCEPT ![c.peer] = @ - units_out(e, c)]
         /\ UNCHANGED <<phase, status, configVars, drainVars, backlog, signal,
                        fin, rst, clientVars>>
  BY DEF handle_event, was_kept, was_sent, was_read, units_in, units_out

\* The dispatch of an event, whatever it does to its connection.
LEMMA HandleHolds ==
  ASSUME IInv, NEW e \in batch, NEW s \in Slots, handle_event(e, s)
  PROVE  IInv'
<1> DEFINE c == connections[s]
           x == c.peer
           kept == was_kept(e, c)
           n == units_in(e, c)
           m == units_out(e, c)
<1>1. /\ c.fd = e.fd /\ batch' = batch \ {e}
      /\ connections' = [connections EXCEPT ![s] = kept]
      /\ IF kept = Free THEN close_connections({s})
         ELSE UNCHANGED <<socket, active_connections>>
      /\ inbound' = [inbound EXCEPT ![x] = SubSeq(@, n + 1, Len(@))]
      /\ room' = [room EXCEPT ![x] = @ - m]
      /\ UNCHANGED <<phase, status, configVars, drainVars, backlog, signal,
                     fin, rst, clientVars>>
  BY HandleCases
<1>2. /\ s \in Used /\ Conn(c) /\ x \in Clients
      /\ inbound[x] \in Seq(Units) /\ room[x] \in Nat /\ room[x] <= SendRoom
  BY <1>1, HandledConnection
<1>3. Outcome(c, kept) /\ n \in 0 .. Len(inbound[x]) /\ m \in 0 .. room[x]
  BY <1>1, HandledOutcome
<1> HIDE DEF c, x, kept, n, m
<1>4. Units' = Units /\ ConnectionType' = ConnectionType
  BY <1>1, TypesStay DEF clientVars
<1>5. LoopTyped'
  BY <1>1 DEF LoopTyped, IInv, Typed, configVars, drainVars
<1>6. WireTyped'
  <2>1. SubSeq(inbound[x], n + 1, Len(inbound[x])) \in Seq(Units)
    <3>1. Len(inbound[x]) \in Nat
      BY <1>2, LenProperties
    <3> QED
      BY <1>2, <1>3, <3>1, SubSeqProperties
  <2>2. room[x] - m \in 0 .. SendRoom
    BY <1>2, <1>3, LimitsAssumption
  <2>3. inbound' = [inbound EXCEPT ![x] = SubSeq(inbound[x], n + 1, Len(inbound[x]))]
        /\ room' = [room EXCEPT ![x] = room[x] - m]
    BY <1>1, <1>2
  <2>4. inbound' \in [Clients -> Seq(Units)] /\ room' \in [Clients -> 0 .. SendRoom]
    BY <1>2, <2>1, <2>2, <2>3 DEF IInv, Typed, WireTyped
  <2>5. backlog' = backlog /\ fin' = fin /\ rst' = rst
    BY <1>1
  <2> QED
    BY <1>4, <2>4, <2>5 DEF WireTyped, IInv, Typed
<1>7. UNCHANGED <<script, written>>
  BY <1>1 DEF clientVars
<1>8. /\ connections'[s] = kept
      /\ \A t \in Slots : t # s => connections'[t] = connections[t]
  BY <1>1 DEF IInv, Typed, TableTyped
<1>9. \A t \in Slots : t # s => Kept(connections[t], connections'[t])
  BY <1>8, KeptItself
<1>10. Conn(kept)
  BY <1>3, FreeIsConn DEF Outcome, Kept
<1>11. connections' \in [Slots -> ConnectionType]
  BY <1>1, <1>10 DEF IInv, Typed, TableTyped, Conn
<1>12. \A f \in batch' : c.fd # f.fd
  BY <1>1 DEF IInv, EventsOK
<1>13. CASE kept = Free
  <2>1. {s} \subseteq Used /\ close_connections({s})
    BY <1>1, <1>2, <1>13
  <2>2. \A t \in Slots : IF t \in {s} THEN connections'[t] = Free
                         ELSE Kept(connections[t], connections'[t])
    BY <1>8, <1>9, <1>13
  <2>3. batch' \subseteq batch /\ \A f \in batch' : \A t \in {s} : connections[t].fd # f.fd
    BY <1>1, <1>12 DEF c
  <2> QED
    BY <1>5, <1>6, <1>7, <1>11, <2>1, <2>2, <2>3, CloseHolds
<1>14. CASE kept # Free
  <2>1. Kept(c, kept)
    BY <1>3, <1>14 DEF Outcome
  <2>2. \A t \in Slots : Kept(connections[t], connections'[t])
    BY <1>8, <1>9, <2>1 DEF c
  <2>3. TableOK'
    BY <1>1, <1>14, <2>2, SlotsStay DEF IInv, Kept
  <2>4. EventsOK'
    BY <1>1, <2>2, EventsStay DEF IInv, Kept
  <2>5. TableTyped'
    BY <1>1, <1>4, <1>11, <1>14, <2>2 DEF TableTyped, IInv, Typed, Kept, Conn
  <2>6. WrittenTyped' /\ ScriptsTyped'
    BY <1>7 DEF WrittenTyped, ScriptsTyped, IInv, Typed
  <2> QED
    BY <1>5, <1>6, <2>3, <2>4, <2>5, <2>6 DEF IInv, Typed
<1> QED
  BY <1>13, <1>14

-----------------------------------------------------------------------------
\* A script is a sequence of units.
LEMMA ScriptUnits ==
  ASSUME ScriptsTyped, NEW c \in Clients
  PROVE  script[c] \in Seq(Units) /\ Len(script[c]) \in Nat
<1>1. script[c] \in Seq(Unit)
  BY ScriptsAssumption DEF ScriptsTyped, IsScript
<1>2. Len(script[c]) \in Nat /\ DOMAIN script[c] = 1 .. Len(script[c])
      /\ script[c] \in [1 .. Len(script[c]) -> Unit]
  BY <1>1, LenProperties
<1>3. \A i \in 1 .. Len(script[c]) : script[c][i] \in Units
  BY <1>2 DEF Units
<1>4. script[c] \in [1 .. Len(script[c]) -> Units]
  BY <1>2, <1>3
<1> QED
  BY <1>2, <1>4, SeqDef

\* What a client does leaves the table and the batch alone.
LEMMA ClientHolds ==
  ASSUME IInv, UNCHANGED serverVars, signal' \in BOOLEAN, script' = script,
         WireTyped', WrittenTyped'
  PROVE  IInv'
<1>1. Units' = Units /\ ConnectionType' = ConnectionType
  BY TypesStay
<1>2. LoopTyped' /\ TableTyped' /\ ScriptsTyped'
  BY <1>1 DEF LoopTyped, TableTyped, ScriptsTyped, IInv, Typed, serverVars, configVars,
              drainVars, tableVars
<1>3. TableOK' /\ EventsOK'
  BY DEF TableOK, EventsOK, Used, IInv, serverVars, tableVars
<1> QED
  BY <1>2, <1>3 DEF IInv, Typed

\* A client that connects waits in the backlog.
LEMMA ConnectsHolds ==
  ASSUME IInv, NEW c \in Clients, client_connects(c)
  PROVE  IInv'
<1> USE DEF client_connects
<1>1. backlog' \in Seq(Clients)
  BY AppendProperties DEF IInv, Typed, WireTyped
<1>2. Units' = Units
  BY TypesStay
<1>3. WireTyped'
  BY <1>1, <1>2 DEF WireTyped, IInv, Typed, wireVars
<1>4. WrittenTyped'
  BY DEF WrittenTyped, IInv, Typed
<1> QED
  BY <1>3, <1>4, ClientHolds DEF IInv, Typed, LoopTyped

\* A client that sends leaves the table and the batch alone.
LEMMA SendsHolds ==
  ASSUME IInv, NEW c \in Clients, NEW n \in 1 .. Len(script[c]) - written[c], client_sends(c, n)
  PROVE  IInv'
<1> USE DEF client_sends
<1>1. /\ script[c] \in Seq(Units) /\ Len(script[c]) \in Nat
      /\ written[c] \in Nat /\ n \in Nat /\ n > 0 /\ written[c] + n <= Len(script[c])
      /\ inbound[c] \in Seq(Units)
  BY ScriptUnits, SMTT(40) DEF IInv, Typed, WrittenTyped, WireTyped
<1>2. SubSeq(script[c], written[c] + 1, written[c] + n) \in Seq(Units)
  <2> DEFINE a == written[c] + 1
             b == written[c] + n
  <2>1. a \in Int /\ b \in Int /\ \A i \in a .. b : i \in 1 .. Len(script[c])
    BY <1>1, SMTT(40)
  <2>2. \A i \in a .. b : script[c][i] \in Units
    BY <1>1, <2>1, ElementOfSeq
  <2> HIDE DEF a, b
  <2>3. SubSeq(script[c], a, b) \in Seq(Units)
    BY <2>1, <2>2, SubSeqProperties
  <2> QED
    BY <2>3 DEF a, b
<1>3. inbound[c] \o SubSeq(script[c], written[c] + 1, written[c] + n) \in Seq(Units)
  BY <1>1, <1>2, ConcatProperties
<1>4. Units' = Units
  BY TypesStay
<1>5. WireTyped'
  BY <1>3, <1>4 DEF WireTyped, IInv, Typed
<1>6. WrittenTyped'
  <2>1. written' = [written EXCEPT ![c] = written[c] + n] /\ script' = script
    OBVIOUS
  <2>2. written' \in [Clients -> Nat]
    BY <1>1, <2>1 DEF IInv, Typed, WrittenTyped
  <2>3. ASSUME NEW d \in Clients PROVE written'[d] <= Len(script'[d])
    BY <1>1, <2>1 DEF IInv, Typed, WrittenTyped
  <2> QED
    BY <2>2, <2>3 DEF WrittenTyped
<1> QED
  BY <1>5, <1>6, ClientHolds DEF IInv, Typed, LoopTyped

\* What the clients and the network do leaves the table and the batch alone.
LEMMA WiresHold ==
  ASSUME IInv, NEW c \in Clients, client_shuts(c) \/ client_aborts(c) \/ client_reads(c)
  PROVE  IInv'
<1>1. UNCHANGED <<serverVars, backlog, signal, inbound, script, written>>
  BY DEF client_shuts, client_aborts, client_reads, clientVars
<1>2. Units' = Units
  BY <1>1, TypesStay
<1>3. /\ fin' \in [Clients -> BOOLEAN] /\ rst' \in [Clients -> BOOLEAN]
      /\ room' \in [Clients -> 0 .. SendRoom]
  <2>1. SendRoom \in 0 .. SendRoom
    BY LimitsAssumption
  <2> QED
    BY <2>1 DEF client_shuts, client_aborts, client_reads, IInv, Typed, WireTyped
<1>4. WireTyped' /\ WrittenTyped'
  BY <1>1, <1>2, <1>3 DEF WireTyped, WrittenTyped, IInv, Typed
<1> QED
  BY <1>1, <1>4, ClientHolds DEF IInv, Typed, LoopTyped

\* Every step of the loop.
LEMMA LoopHolds == IInv /\ Loop => IInv'
<1> SUFFICES ASSUME IInv, Loop PROVE IInv'
  OBVIOUS
<1>1. status \in {0, 2} /\ 2 \in {0, 2}
  BY DEF IInv, Typed, LoopTyped
<1>2. CASE loop_exits
  BY <1>1, <1>2, DestroyHolds DEF loop_exits
<1>3. CASE epoll_wait
  BY <1>3, WaitHolds
<1>4. CASE epoll_wait_fails
  BY <1>1, <1>4, DestroyHolds DEF epoll_wait_fails
<1>5. CASE accept_would_block
  BY <1>5, QuietHolds DEF accept_would_block, IInv, Typed, LoopTyped, configVars, drainVars,
                          worldVars, clientVars
<1>6. CASE accept_fails
  BY <1>6, AcceptFailsHolds
<1>7. CASE \E adds \in BOOLEAN : accept_connection(adds)
  BY <1>7, AcceptHolds
<1>8. CASE expire_connections
  BY <1>8, ExpireHolds
<1>9. ASSUME NEW e \in batch, accept_begins(e) \/ skip_event(e) PROVE IInv'
  <2>1. batch' \subseteq batch /\ LoopTyped'
        /\ UNCHANGED <<tableVars, backlog, wireVars, script, written>>
    BY <1>9 DEF accept_begins, skip_event, IInv, Typed, LoopTyped, configVars, drainVars,
                worldVars, clientVars
  <2> QED
    BY <2>1, QuietHolds
<1>10. CASE \E e \in batch, reads \in BOOLEAN : consume_signals(e, reads)
  BY <1>10, SignalHolds
<1>11. CASE \E e \in batch, s \in Slots : handle_event(e, s)
  BY <1>11, HandleHolds
<1> QED
  BY <1>2, <1>3, <1>4, <1>5, <1>6, <1>7, <1>8, <1>9, <1>10, <1>11 DEF Loop

\* Every step of the server and of the clients.
LEMMA NextHolds == IInv /\ [Next]_vars => IInv'
<1> SUFFICES ASSUME IInv, [Next]_vars PROVE IInv'
  OBVIOUS
<1>1. CASE UNCHANGED vars
  <2>1. Units' = Units /\ ConnectionType' = ConnectionType
    BY <1>1, TypesStay DEF vars, worldVars, clientVars
  <2>2. Typed'
    BY <1>1, <2>1 DEF vars, serverVars, worldVars, clientVars, wireVars, tableVars, drainVars,
          configVars, IInv, Typed, LoopTyped, TableTyped, WireTyped, WrittenTyped, ScriptsTyped
  <2>3. TableOK' /\ EventsOK'
    BY <1>1 DEF vars, serverVars, tableVars, IInv, TableOK, EventsOK, Used
  <2> QED
    BY <2>2, <2>3 DEF IInv
<1>2. ASSUME NEW acceptable \in BOOLEAN, kofun_http_route(acceptable) PROVE IInv'
  <2>1. routes' \in 0 .. KH_MAX_ROUTES
    BY <1>2, LimitsAssumption DEF kofun_http_route, IInv, Typed, LoopTyped
  <2>2. LoopTyped'
    BY <1>2, <2>1 DEF kofun_http_route, IInv, Typed, LoopTyped, drainVars
  <2> QED
    BY <1>2, <2>2, QuietHolds DEF kofun_http_route, worldVars, clientVars
<1>3. CASE run_refused
  BY <1>3, DestroyHolds DEF run_refused
<1>4. CASE run_starts
  BY <1>4, QuietHolds DEF run_starts, IInv, Typed, LoopTyped, configVars, drainVars,
                          worldVars, clientVars
<1>5. CASE Loop
  BY <1>5, LoopHolds
<1>6. ASSUME NEW c \in Clients,
             client_connects(c) \/ client_shuts(c) \/ client_aborts(c) \/ client_reads(c)
      PROVE  IInv'
  BY <1>6, ConnectsHolds, WiresHold
<1>7. ASSUME NEW c \in Clients, NEW n \in 1 .. Len(script[c]) - written[c], client_sends(c, n)
      PROVE  IInv'
  BY <1>7, SendsHolds
<1>8. CASE terminate
  BY <1>8, QuietHolds DEF terminate, serverVars, worldVars, clientVars, IInv, Typed, LoopTyped,
                          configVars, drainVars
<1>9. CASE tick
  BY <1>9, TickHolds
<1> QED
  BY <1>1, <1>2, <1>3, <1>4, <1>5, <1>6, <1>7, <1>8, <1>9 DEF Next

\* The types, the table of connections and the batch of events are as described, for
\* any limits, any clients and any scripts of theirs.
THEOREM Inductive == Spec => []IInv
<1>1. Init => IInv
  BY InitHolds
<1>2. IInv /\ [Next]_vars => IInv'
  BY NextHolds
<1> QED
  BY <1>1, <1>2, PTL DEF Spec

\* kofun_http_server: the state of the loop, every connection, every socket and every
\* wire stay in their ranges.
THEOREM TypesHold == Spec => []TypeOK
  BY Inductive, TypesFollow, PTL

\* The table of connections: it holds the open descriptors, each of them once and with
\* the client that is behind it, and counts them right, through every accept, expiry,
\* error and drain.
THEOREM DescriptorsMatch == Spec => []TableMatchesSockets
  BY Inductive, TableFollows, PTL

\* The dispatch of a batch of events: an event is never handed to a connection that was
\* opened on the same descriptor after epoll_wait had reported it.
THEOREM EventsMeetTheirConnection == Spec => []EventsReachTheirConnection
  BY Inductive, EventsFollow, PTL

DrainStep ==
  \A s \in Slots :
    draining' /\ connections'[s].out # connections[s].out
              /\ connections'[s].out # NoResponse
      => connections'[s].out.close

\* A response that is queued while the server drains closes.
LEMMA DrainStepHolds == IInv /\ [Next]_vars => DrainStep
<1> SUFFICES ASSUME IInv, [Next]_vars, NEW t \in Slots, draining',
                    connections'[t].out # connections[t].out,
                    connections'[t].out # NoResponse
             PROVE  connections'[t].out.close
  BY DEF DrainStep
<1>1. CASE UNCHANGED connections
  BY <1>1
<1>2. ASSUME NEW code, server_destroy(code) PROVE FALSE
  BY <1>2, FreeIsConn DEF server_destroy
<1>3. CASE begin_drain
  BY <1>3, DrainKeeps
<1>4. ASSUME NEW adds \in BOOLEAN, accept_connection(adds) PROVE FALSE
  <2>1. CASE UNCHANGED tableVars
    BY <2>1 DEF tableVars
  <2>2. CASE ~UNCHANGED tableVars
    <3> DEFINE s == Smallest(Slots \ Used)
               c == Opened(free_fd, Head(backlog))
    <3>1. connections' = [connections EXCEPT ![s] = c]
      BY <1>4, <2>2 DEF accept_connection, Opened
    <3>2. c.out = NoResponse
      <4>1. Head(backlog) \in Clients
        BY <1>4, HeadTailProperties DEF accept_connection, IInv, Typed, WireTyped
      <4> QED
        BY <4>1, FreeDescriptor, OpenedFields DEF IInv, Typed
    <3> HIDE DEF s, c
    <3> QED
      BY <3>1, <3>2 DEF IInv, Typed, TableTyped
  <2> QED
    BY <2>1, <2>2
<1>5. CASE expire_connections
  BY <1>5, FreeIsConn DEF expire_connections
<1>6. ASSUME NEW e \in batch, NEW s \in Slots, handle_event(e, s)
      PROVE  connections'[t].out.close
  <2> DEFINE c == connections[s]
             kept == was_kept(e, c)
  <2>1. c.fd = e.fd /\ connections' = [connections EXCEPT ![s] = kept] /\ UNCHANGED drainVars
    BY <1>6, HandleCases
  <2>2. Outcome(c, kept)
    BY <2>1, HandledOutcome
  <2> HIDE DEF kept
  <2>3. t = s /\ connections'[t] = kept
    BY <2>1 DEF IInv, Typed, TableTyped
  <2>4. draining
    BY <2>1 DEF drainVars
  <2> QED
    BY <2>2, <2>3, <2>4, FreeIsConn DEF Outcome
<1>7. CASE tick
  <2>1. connections'[t] = older(connections[t])
    BY <1>7 DEF tick
  <2> QED
    BY <2>1, KeptItself, OlderKept
<1>8. CASE Loop
  <2>1. CASE accept_fails
    BY <1>3, <2>1 DEF accept_fails
  <2>2. ASSUME NEW e \in batch, NEW reads \in BOOLEAN, consume_signals(e, reads)
        PROVE  connections'[t].out.close
    BY <1>3, <2>2 DEF consume_signals
  <2>3. CASE epoll_wait \/ accept_would_block
    BY <1>1, <2>3 DEF epoll_wait, accept_would_block, tableVars
  <2>4. ASSUME NEW e \in batch, accept_begins(e) \/ skip_event(e)
        PROVE  connections'[t].out.close
    BY <1>1, <2>4 DEF accept_begins, skip_event, tableVars
  <2>5. CASE loop_exits \/ epoll_wait_fails
    BY <1>2, <2>5 DEF loop_exits, epoll_wait_fails
  <2> QED
    BY <1>4, <1>5, <1>6, <1>8, <2>1, <2>2, <2>3, <2>4, <2>5 DEF Loop
<1>9. ASSUME NEW c \in Clients,
             \/ client_connects(c) \/ client_shuts(c) \/ client_aborts(c) \/ client_reads(c)
             \/ \E n \in 1 .. Len(script[c]) - written[c] : client_sends(c, n)
      PROVE  connections'[t].out.close
  BY <1>1, <1>9 DEF client_connects, client_shuts, client_aborts, client_reads, client_sends,
                    serverVars, tableVars
<1>10. ASSUME NEW acceptable \in BOOLEAN, kofun_http_route(acceptable)
       PROVE  connections'[t].out.close
  BY <1>1, <1>10 DEF kofun_http_route, tableVars
<1>11. CASE run_starts \/ terminate \/ UNCHANGED vars
  BY <1>1, <1>11 DEF run_starts, terminate, vars, serverVars, tableVars
<1>12. CASE run_refused
  BY <1>2, <1>12 DEF run_refused
<1> QED
  BY <1>7, <1>8, <1>9, <1>10, <1>11, <1>12 DEF Next

\* begin_drain and queue_response: what is answered while the server drains announces
\* the end of its connection.
THEOREM DrainAnswersClose == Spec => DrainCloses
<1>1. IInv /\ [Next]_vars => [DrainStep]_vars
  BY DrainStepHolds
<1>2. Spec => [][DrainStep]_vars
  BY <1>1, Inductive, PTL DEF Spec
<1> QED
  BY <1>2 DEF DrainCloses, DrainStep

=============================================================================
