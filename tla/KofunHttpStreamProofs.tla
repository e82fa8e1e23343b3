------------------------ MODULE KofunHttpStreamProofs ------------------------
(***************************************************************************)
(* Proofs about what a client of KofunHttp reads: whole responses in the   *)
(* order of its requests, with the status that each request deserves, and  *)
(* nothing after a response that closes, for any scripts, however sends and*)
(* receives are cut short.                                                 *)
(*                                                                         *)
(* StreamsOK ties the three things that the code keeps apart.  Linked says *)
(* that a connection is at a boundary of its client's script: everything   *)
(* before it has been answered, what follows it is in the buffer and then on*)
(* the wire, and a response that waits is the one that the next request    *)
(* deserves.  A connection may be read only while it has no response       *)
(* (OutsOK), and a client is in the backlog or in one slot (PlacesOK).     *)
(*                                                                         *)
(* The first part is about scripts alone: what process_request finds in the*)
(* buffer is what the whole script says (ProcessDeserves).  The second part*)
(* follows a connection through each handler, the third part the system.   *)
(***************************************************************************)
EXTENDS KofunHttpProofs

\* The first p units of S are its first k requests.
Boundary(S, p, k) ==
  /\ p \in 0 .. Len(S) /\ k \in Nat
  /\ IF p = 0 THEN k = 0 ELSE S[p].req = k
  /\ p < Len(S) => S[p + 1].req = k + 1 /\ S[p + 1].part # "body"

\* A script is a sequence of units, each of them of a request.
LEMMA ScriptFacts ==
  ASSUME NEW S, IsScript(S)
  PROVE  /\ S \in Seq(Unit) /\ Len(S) \in Nat /\ DOMAIN S = 1 .. Len(S)
         /\ \A i \in 1 .. Len(S) : S[i] \in Unit /\ S[i].req \in Nat
<1>1. S \in Seq(Unit)
  BY DEF IsScript
<1>2. Len(S) \in Nat /\ DOMAIN S = 1 .. Len(S)
  BY <1>1, LenProperties
<1>3. \A i \in 1 .. Len(S) : S[i] \in Unit
  BY <1>1, ElementOfSeq
<1> QED
  BY <1>1, <1>2, <1>3 DEF Unit

\* The script begins at a boundary.
LEMMA ScriptBegins ==
  ASSUME NEW S, IsScript(S)
  PROVE  Boundary(S, 0, 0)
<1>1. Len(S) \in Nat
  BY ScriptFacts
<1>2. 0 < Len(S) => S # <<>>
  BY EmptySeq
<1> QED
  BY <1>1, <1>2 DEF Boundary, IsScript

\* From a boundary to the end of the next header, all units are that header's.
LEMMA HeaderSpan ==
  ASSUME NEW S, IsScript(S), NEW p, NEW k, Boundary(S, p, k),
         NEW m \in Nat, p + m <= Len(S),
         \A i \in 1 .. m - 1 : S[p + i].part \notin Ends
  PROVE  \A i \in 1 .. m : S[p + i].req = k + 1 /\ S[p + i].part # "body"
<1> DEFINE wrong == {i \in 1 .. m : ~(S[p + i].req = k + 1 /\ S[p + i].part # "body")}
<1> SUFFICES ASSUME wrong # {} PROVE FALSE
  OBVIOUS
<1>1. /\ p \in Nat /\ Len(S) \in Nat /\ DOMAIN S = 1 .. Len(S)
      /\ \A i \in 1 .. Len(S) : S[i] \in Unit
  BY ScriptFacts DEF Boundary
<1> DEFINE j == Smallest(wrong)
<1>2. j \in wrong /\ \A i \in wrong : j <= i
  <2>1. wrong \subseteq Nat
    OBVIOUS
  <2> QED
    BY <2>1, LeastNatural
<1> HIDE DEF j
<1>3. j \in 1 .. m /\ ~(S[p + j].req = k + 1 /\ S[p + j].part # "body")
  BY <1>2
<1>4. j # 1
  BY <1>1, <1>3 DEF Boundary
<1> DEFINE q == p + (j - 1)
<1>5. j - 1 \in 1 .. m - 1 /\ j - 1 \in 1 .. m
  BY <1>3, <1>4
<1>6. S[q].req = k + 1 /\ S[q].part # "body"
  BY <1>2, <1>5
<1>7. q \in 1 .. Len(S) /\ q + 1 = p + j
  BY <1>1, <1>3, <1>5
<1>8. S[q].part = "head"
  <2>1. S[q].part \notin Ends
    BY <1>5
  <2>2. S[q] \in Unit
    BY <1>1, <1>7
  <2> QED
    BY <1>6, <2>1, <2>2 DEF Unit
<1> HIDE DEF q, wrong
<1>9. S[q + 1].req = S[q].req /\ S[q + 1].part # "body"
  BY <1>1, <1>7, <1>8 DEF IsScript
<1> QED
  BY <1>3, <1>6, <1>7, <1>9

\* The units of the header of request k.
HeaderOf(S, k) == {i \in DOMAIN S : S[i].req = k /\ S[i].part # "body"}

\* A header that has ended.
LEMMA WholeHeader ==
  ASSUME NEW S, IsScript(S), NEW p, NEW k, Boundary(S, p, k),
         NEW h \in Nat \ {0}, p + h <= Len(S), S[p + h].part \in Ends,
         \A i \in 1 .. h - 1 : S[p + i].part \notin Ends
  PROVE  /\ HeaderOf(S, k + 1) = p + 1 .. p + h
         /\ Cardinality(HeaderOf(S, k + 1)) = h
         /\ {S[i].part : i \in HeaderOf(S, k + 1)} \cap Ends = {S[p + h].part}
<1>1. /\ p \in Nat /\ k \in Nat /\ Len(S) \in Nat /\ DOMAIN S = 1 .. Len(S)
      /\ \A i \in 1 .. Len(S) : S[i] \in Unit /\ S[i].req \in Nat
  BY ScriptFacts DEF Boundary
<1>2. \A i \in 1 .. h : S[p + i].req = k + 1 /\ S[p + i].part # "body"
  BY HeaderSpan
<1>3. \A i \in p + 1 .. p + h : i \in DOMAIN S /\ S[i].req = k + 1 /\ S[i].part # "body"
  <2> TAKE i \in p + 1 .. p + h
  <2>1. i - p \in 1 .. h /\ i = p + (i - p) /\ i \in 1 .. Len(S)
    BY <1>1
  <2> QED
    BY <1>1, <1>2, <2>1
<1>4. ASSUME NEW i \in HeaderOf(S, k + 1), i <= p PROVE FALSE
  <2>1. i \in 1 .. Len(S) /\ S[i].req = k + 1 /\ p \in 1 .. Len(S)
    BY <1>1, <1>4 DEF HeaderOf, Boundary
  <2>2. S[i].req <= S[p].req
    BY <1>1, <1>4, <2>1 DEF IsScript
  <2>3. S[p].req = k
    BY <2>1 DEF Boundary
  <2> QED
    BY <1>1, <2>1, <2>2, <2>3
<1>5. ASSUME NEW i \in HeaderOf(S, k + 1), i > p + h PROVE FALSE
  <2> DEFINE e == p + h
             last == e + ContentLength(S[e].part)
  <2>1. i \in 1 .. Len(S) /\ S[i].req = k + 1 /\ S[i].part # "body"
    BY <1>1 DEF HeaderOf
  <2>2. e \in 1 .. Len(S) /\ S[e].part \in Ends /\ S[e].req = k + 1 /\ i > e /\ e \in Nat
    BY <1>1, <1>2, <1>5
  <2>3. ContentLength(S[e].part) \in Nat
    BY ContentLengths
  <2> HIDE DEF e
  <2>4. S[e].part # "large"
    BY <1>1, <2>1, <2>2 DEF IsScript
  <2>5. /\ last \in DOMAIN S
        /\ \A j \in e + 1 .. last : S[j].part = "body"
        /\ last < Len(S) => S[last + 1].req = S[e].req + 1
    BY <1>1, <2>2, <2>4 DEF IsScript
  <2> HIDE DEF last
  <2>6. last \in 1 .. Len(S) /\ i > last
    BY <1>1, <2>1, <2>2, <2>5
  <2>7. S[last + 1].req = k + 2 /\ last + 1 \in 1 .. Len(S) /\ last + 1 <= i
    BY <1>1, <2>1, <2>2, <2>5, <2>6
  <2>8. S[last + 1].req <= S[i].req
    BY <1>1, <2>1, <2>7 DEF IsScript
  <2> QED
    BY <1>1, <2>1, <2>7, <2>8
<1>6. HeaderOf(S, k + 1) = p + 1 .. p + h
  <2>1. HeaderOf(S, k + 1) \subseteq p + 1 .. p + h
    <3> SUFFICES ASSUME NEW i \in HeaderOf(S, k + 1) PROVE i \in p + 1 .. p + h
      OBVIOUS
    <3>1. i \in Nat
      BY <1>1 DEF HeaderOf
    <3> QED
      BY <1>1, <1>4, <1>5, <3>1
  <2>2. p + 1 .. p + h \subseteq HeaderOf(S, k + 1)
    BY <1>3 DEF HeaderOf
  <2> QED
    BY <2>1, <2>2
<1>7. Cardinality(p + 1 .. p + h) = h
  <2> DEFINE a == p + 1
             b == p + h
  <2>1. a \in Int /\ b \in Int /\ ~(a > b) /\ b - a + 1 = h
    BY <1>1
  <2> HIDE DEF a, b
  <2>2. Cardinality(a .. b) = h
    BY <2>1, FS_Interval
  <2> QED
    BY <2>2 DEF a, b
<1>8. ASSUME NEW i \in p + 1 .. p + h, S[i].part \in Ends PROVE i = p + h
  <2>1. i - p \in 1 .. h /\ i = p + (i - p)
    BY <1>1
  <2>2. i - p \notin 1 .. h - 1
    BY <1>8, <2>1
  <2> QED
    BY <1>1, <2>1, <2>2
<1>9. p + h \in p + 1 .. p + h
  BY <1>1
<1> QED
  BY <1>6, <1>7, <1>8, <1>9

\* A header that has not ended is longer than what there is of it.
LEMMA LongHeader ==
  ASSUME NEW S, IsScript(S), NEW p, NEW k, Boundary(S, p, k),
         NEW m \in Nat \ {0}, p + m <= Len(S),
         \A i \in 1 .. m : S[p + i].part \notin Ends
  PROVE  Cardinality(HeaderOf(S, k + 1)) > m
<1>1. /\ p \in Nat /\ k \in Nat /\ Len(S) \in Nat /\ DOMAIN S = 1 .. Len(S)
      /\ \A i \in 1 .. Len(S) : S[i] \in Unit
  BY ScriptFacts DEF Boundary
<1>2. \A i \in 1 .. m - 1 : S[p + i].part \notin Ends
  OBVIOUS
<1>3. \A i \in 1 .. m : S[p + i].req = k + 1 /\ S[p + i].part # "body"
  BY <1>2, HeaderSpan
<1>4. p + m \in 1 .. Len(S) /\ S[p + m].part = "head"
  <2>1. p + m \in 1 .. Len(S) /\ m \in 1 .. m
    BY <1>1
  <2>2. S[p + m] \in Unit /\ S[p + m].part \notin Ends /\ S[p + m].part # "body"
    BY <1>1, <1>3, <2>1
  <2> QED
    BY <2>1, <2>2 DEF Unit
<1>5. p + m + 1 \in DOMAIN S /\ S[p + m + 1].req = k + 1 /\ S[p + m + 1].part # "body"
  <2>1. S[p + m].req = k + 1
    BY <1>3
  <2> DEFINE e == p + m
  <2>2. e \in DOMAIN S /\ S[e].part = "head" /\ S[e].req = k + 1
    BY <1>1, <1>4, <2>1
  <2> HIDE DEF e
  <2>3. e + 1 \in DOMAIN S /\ S[e + 1].req = S[e].req /\ S[e + 1].part # "body"
    BY <2>2 DEF IsScript
  <2> QED
    BY <2>2, <2>3 DEF e
<1> DEFINE a == p + 1
           b == p + m + 1
<1>6. a .. b \subseteq HeaderOf(S, k + 1)
  <2> SUFFICES ASSUME NEW i \in a .. b PROVE i \in HeaderOf(S, k + 1)
    OBVIOUS
  <2>1. CASE i = b
    BY <1>5, <2>1 DEF HeaderOf
  <2>2. CASE i # b
    <3>1. i - p \in 1 .. m /\ i = p + (i - p) /\ i \in 1 .. Len(S)
      BY <1>1, <2>2
    <3> QED
      BY <1>1, <1>3, <3>1 DEF HeaderOf
  <2> QED
    BY <2>1, <2>2
<1>7. a \in Int /\ b \in Int /\ ~(a > b) /\ b - a + 1 = m + 1
  BY <1>1
<1> HIDE DEF a, b
<1>8. Cardinality(a .. b) = m + 1
  BY <1>7, FS_Interval
<1>9. IsFiniteSet(HeaderOf(S, k + 1))
  <2>1. HeaderOf(S, k + 1) \subseteq 1 .. Len(S)
    BY <1>1 DEF HeaderOf
  <2>2. IsFiniteSet(1 .. Len(S))
    BY <1>1, FS_Interval
  <2> QED
    BY <2>1, <2>2, FS_Subset
<1>10. Cardinality(a .. b) <= Cardinality(HeaderOf(S, k + 1))
  BY <1>6, <1>9, FS_Subset
<1>11. Cardinality(HeaderOf(S, k + 1)) \in Nat
  BY <1>9, FS_CardinalityType
<1> QED
  BY <1>8, <1>10, <1>11

\* After the body comes the next boundary.
LEMMA NextBoundary ==
  ASSUME NEW S, IsScript(S), NEW e \in 1 .. Len(S), S[e].part \in Ends \ {"large"}
  PROVE  Boundary(S, e + ContentLength(S[e].part), S[e].req)
<1> DEFINE last == e + ContentLength(S[e].part)
<1>1. /\ Len(S) \in Nat /\ DOMAIN S = 1 .. Len(S)
      /\ \A i \in 1 .. Len(S) : S[i].req \in Nat
  BY ScriptFacts
<1>2. /\ last \in DOMAIN S /\ S[last].req = S[e].req
      /\ last < Len(S) => S[last + 1].req = S[e].req + 1 /\ S[last + 1].part # "body"
  BY <1>1 DEF IsScript
<1> HIDE DEF last
<1>3. last \in 1 .. Len(S)
  BY <1>1, <1>2
<1>4. Boundary(S, last, S[e].req)
  BY <1>1, <1>2, <1>3 DEF Boundary
<1> QED
  BY <1>4 DEF last

\* What the request after a boundary deserves, read off the end of its header.
LEMMA DeservedEnded ==
  ASSUME ScriptsTyped, NEW x \in Clients, NEW p, NEW k, Boundary(script[x], p, k),
         NEW h \in Nat \ {0}, p + h <= Len(script[x]), script[x][p + h].part \in Ends,
         \A i \in 1 .. h - 1 : script[x][p + i].part \notin Ends
  PROVE  Deserved(x, k + 1) =
           IF h > maximum_header THEN 431
           ELSE IF script[x][p + h].part = "bad" THEN 400
           ELSE IF ContentLength(script[x][p + h].part) > maximum_body THEN 413 ELSE 200
<1> DEFINE S == script[x]
           H == HeaderOf(S, k + 1)
           end == {S[i].part : i \in H} \cap Ends
<1>1. IsScript(S)
  BY ScriptsAssumption DEF ScriptsTyped
<1>2. Cardinality(H) = h /\ end = {S[p + h].part}
  BY <1>1, WholeHeader
<1>3. Deserved(x, k + 1) =
        IF Cardinality(H) > maximum_header THEN 431
        ELSE IF "bad" \in end THEN 400
        ELSE IF \E e \in end : ContentLength(e) > maximum_body THEN 413 ELSE 200
  BY DEF Deserved, HeaderOf
<1> HIDE DEF end, H
<1> QED
  BY <1>2, <1>3

\* A header that has not ended within the limit deserves a 431.
LEMMA DeservedUnended ==
  ASSUME ScriptsTyped, NEW x \in Clients, NEW p, NEW k, Boundary(script[x], p, k),
         NEW m \in Nat \ {0}, p + m <= Len(script[x]), m >= maximum_header,
         \A i \in 1 .. m : script[x][p + i].part \notin Ends
  PROVE  Deserved(x, k + 1) = 431
<1> DEFINE S == script[x]
           H == HeaderOf(S, k + 1)
<1>1. IsScript(S)
  BY ScriptsAssumption DEF ScriptsTyped
<1>2. Cardinality(H) > m
  BY <1>1, LongHeader
<1>3. Cardinality(H) > maximum_header
  <2>1. H \subseteq 1 .. Len(S) /\ Len(S) \in Nat
    BY <1>1, ScriptFacts DEF HeaderOf
  <2>4. IsFiniteSet(1 .. Len(S))
    BY <2>1, FS_Interval
  <2>2. Cardinality(H) \in Nat
    BY <2>1, <2>4, FS_Subset, FS_CardinalityType
  <2>3. maximum_header \in Nat
    BY LimitsAssumption
  <2> HIDE DEF H
  <2> QED
    BY <1>2, <2>2, <2>3
<1> QED
  BY <1>3 DEF Deserved, HeaderOf

\* The input of c is what follows the first p units of the script of x.
Reads(c, x, p) ==
  /\ p \in Nat /\ p + Len(c.input) <= Len(script[x])
  /\ \A i \in 1 .. Len(c.input) : c.input[i] = script[x][p + i]

\* c holds the answer to request k + 1, which begins after p units.
Answers(c, x, p, k) ==
  /\ c.out.req = k + 1 /\ c.out.status = Deserved(x, k + 1)
  /\ ~c.out.close => /\ c.request \in 0 .. Len(c.input)
                     /\ Boundary(script[x], p + c.request, k + 1)

\* The heart of the proof: process_request sees only what is buffered, and answers the
\* request after the boundary with what the whole script says it deserves.
LEMMA ProcessDeserves ==
  ASSUME ScriptsTyped, NEW x \in Clients, NEW c, Conn(c), NEW p, NEW k,
         Boundary(script[x], p, k), Reads(c, x, p), process_request(c) # c
  PROVE  Answers(process_request(c), x, p, k) /\ process_request(c).sent = 0
<1> DEFINE S == script[x]
           L == Len(c.input)
           h == find_header_end(c.input)
           d == process_request(c)
<1>1. /\ IsScript(S) /\ Len(S) \in Nat /\ p \in Nat /\ k \in Nat
      /\ c.input \in Seq(Units) /\ L \in 0 .. InputCapacity /\ InputCapacity \in Nat
      /\ DOMAIN c.input = 1 .. L
      /\ maximum_header \in Nat /\ maximum_header > 0 /\ maximum_body \in Nat
  BY ScriptsAssumption, ScriptFacts, ConnFacts, LenProperties, LimitsAssumption
     DEF ScriptsTyped, Boundary
<1>2. /\ h \in 0 .. L
      /\ h = 0 => \A i \in 1 .. L : c.input[i].part \notin Ends
      /\ h # 0 => /\ c.input[h].part \in Ends
                  /\ \A i \in 1 .. h - 1 : c.input[i].part \notin Ends
  BY <1>1, HeaderEnd
<1>3. p + L <= Len(S) /\ \A i \in 1 .. L : c.input[i] = S[p + i]
  BY DEF Reads
<1>4. L > 0 => c.input[1].req = k + 1
  <2> SUFFICES ASSUME L > 0 PROVE S[p + 1].req = k + 1
    BY <1>1, <1>3, SMTT(40)
  <2> QED
    BY <1>1, <1>3 DEF Boundary
<1>5. ASSUME h # 0
      PROVE  /\ h \in 1 .. L /\ c.input[h].part = S[p + h].part
             /\ p + h \in 1 .. Len(S) /\ S[p + h].part \in Ends /\ S[p + h].req = k + 1
             /\ Deserved(x, k + 1) =
                  IF h > maximum_header THEN 431
                  ELSE IF c.input[h].part = "bad" THEN 400
                  ELSE IF ContentLength(c.input[h].part) > maximum_body THEN 413 ELSE 200
  <2> HIDE DEF h, L, S
  <2>1. h \in 1 .. L /\ h \in Nat \ {0} /\ p + h <= Len(S) /\ p + h \in 1 .. Len(S)
    BY <1>1, <1>2, <1>3, <1>5
  <2>2. c.input[h] = S[p + h] /\ S[p + h].part \in Ends
    BY <1>2, <1>3, <1>5, <2>1
  <2>3. \A i \in 1 .. h - 1 : S[p + i].part \notin Ends
    <3> TAKE i \in 1 .. h - 1
    <3>1. i \in 1 .. L
      BY <1>1, <2>1
    <3>2. c.input[i] = S[p + i] /\ c.input[i].part \notin Ends
      BY <1>2, <1>3, <1>5, <3>1
    <3> QED
      BY <3>2
  <2>4. S[p + h].req = k + 1
    <3>1. Boundary(S, p, k)
      BY DEF S
    <3>2. h \in Nat /\ p + h <= Len(S) /\ IsScript(S)
      BY <1>1, <2>1
    <3>3. \A i \in 1 .. h : S[p + i].req = k + 1 /\ S[p + i].part # "body"
      BY <2>3, <3>1, <3>2, HeaderSpan
    <3> QED
      BY <2>1, <3>3
  <2>5. Deserved(x, k + 1) =
          IF h > maximum_header THEN 431
          ELSE IF S[p + h].part = "bad" THEN 400
          ELSE IF ContentLength(S[p + h].part) > maximum_body THEN 413 ELSE 200
    BY <2>1, <2>2, <2>3, DeservedEnded DEF S
  <2> QED
    BY <2>1, <2>2, <2>4, <2>5
<1>6. ASSUME NEW n \in 0 .. InputCapacity, NEW code \in Statuses, NEW close \in BOOLEAN,
             d = answer(c, n, code, close), L > 0, code = Deserved(x, k + 1),
             ~close => n \in 0 .. L /\ Boundary(S, p + n, k + 1)
      PROVE  Answers(d, x, p, k) /\ d.sent = 0
  <2> HIDE DEF d
  <2>1. /\ d.input = c.input /\ d.request = n /\ d.sent = 0
        /\ d.out = [req |-> c.input[1].req, status |-> code, close |-> close]
    BY <1>6, AnswerFields
  <2>2. d.out.req = k + 1 /\ d.out.status = code /\ d.out.close = close
    BY <1>4, <1>6, <2>1
  <2> QED
    BY <1>6, <2>1, <2>2 DEF Answers
<1>7. 200 \in Statuses /\ 400 \in Statuses /\ 413 \in Statuses /\ 431 \in Statuses
  BY DEF Statuses
<1>8. CASE TooLarge(c, d)
  <2> DEFINE n == IF h = 0 THEN L ELSE h
             yes == TRUE
             code == 431
  <2>1. L > 0 /\ n \in 0 .. InputCapacity
    BY <1>1, <1>2, <1>8 DEF TooLarge, header_too_large
  <2>2. d = answer(c, n, code, yes)
    BY <1>8 DEF TooLarge
  <2>3. Deserved(x, k + 1) = code
    <3>1. CASE h = 0
      <4>1. L \in Nat \ {0} /\ L >= maximum_header
        BY <1>1, <1>8, <2>1, <3>1 DEF TooLarge, header_too_large
      <4>2. \A i \in 1 .. L : S[p + i].part \notin Ends
        BY <1>2, <1>3, <3>1
      <4> HIDE DEF L
      <4> QED
        BY <1>3, <4>1, <4>2, DeservedUnended
    <3>2. CASE h # 0
      <4>1. h > maximum_header
        BY <1>8, <3>2 DEF TooLarge, header_too_large
      <4> QED
        BY <1>5, <3>2, <4>1
    <3> QED
      BY <3>1, <3>2
  <2>4. yes \in BOOLEAN /\ yes /\ code \in Statuses
    BY <1>7
  <2> HIDE DEF yes, code, n, d, h
  <2>5. Answers(d, x, p, k) /\ d.sent = 0
    BY <1>6, <2>1, <2>2, <2>3, <2>4
  <2> QED
    BY <2>5 DEF d
<1>9. CASE Refused(c, d)
  <2> DEFINE yes == TRUE
  <2>1. h # 0 /\ h \in 0 .. InputCapacity /\ L > 0 /\ ~(h > maximum_header)
    BY <1>1, <1>2, <1>9 DEF Refused, header_too_large
  <2>2. \E code \in Statuses : d = answer(c, h, code, yes) /\ code = Deserved(x, k + 1)
    <3> DEFINE end == c.input[h].part
    <3>1. Deserved(x, k + 1) = IF end = "bad" THEN 400
                               ELSE IF ContentLength(end) > maximum_body THEN 413 ELSE 200
      BY <1>5, <2>1
    <3>2. \/ end = "bad" /\ d = answer(c, h, 400, TRUE)
          \/ end # "bad" /\ ContentLength(end) > maximum_body /\ d = answer(c, h, 413, TRUE)
      BY <1>9 DEF Refused
    <3> HIDE DEF end, d, h
    <3>3. CASE end = "bad"
      BY <1>7, <3>1, <3>2, <3>3, ZenonT(40)
    <3>4. CASE end # "bad"
      BY <1>7, <3>1, <3>2, <3>4, ZenonT(40)
    <3> QED
      BY <3>3, <3>4
  <2>3. yes \in BOOLEAN /\ yes
    OBVIOUS
  <2> HIDE DEF yes, d, h
  <2>4. Answers(d, x, p, k) /\ d.sent = 0
    BY <1>6, <2>1, <2>2, <2>3
  <2> QED
    BY <2>4 DEF d
<1>10. CASE Handled(c, d)
  <2> DEFINE n == h + ContentLength(c.input[h].part)
             close == close_after(c.input[h].part, c)
  <2>1. /\ h # 0 /\ ~(h > maximum_header) /\ c.input[h].part # "bad"
        /\ ContentLength(c.input[h].part) <= maximum_body /\ n <= L
        /\ d = answer(c, n, 200, close)
    BY <1>10 DEF Handled, header_too_large
  <2>2. ContentLength(c.input[h].part) \in Nat
    BY ContentLengths
  <2>3. n \in 0 .. InputCapacity /\ n \in 0 .. L /\ L > 0
    BY <1>1, <1>2, <2>1, <2>2, SMTT(40)
  <2>4. Deserved(x, k + 1) = 200
    BY <1>1, <1>5, <2>1, <2>2
  <2>5. Boundary(S, p + n, k + 1)
    <3>1. c.input[h].part # "large"
      BY <1>1, <2>1 DEF ContentLength
    <3> DEFINE e == p + h
    <3>2. e \in 1 .. Len(S) /\ S[e].part \in Ends \ {"large"} /\ S[e].req = k + 1
          /\ S[e].part = c.input[h].part
      BY <1>5, <2>1, <3>1
    <3>3. e + ContentLength(c.input[h].part) = p + n
      BY <1>1, <1>2, <2>2
    <3> HIDE DEF e, n
    <3>4. Boundary(S, e + ContentLength(S[e].part), S[e].req)
      BY <1>1, <3>2, NextBoundary
    <3> QED
      BY <3>2, <3>3, <3>4
  <2>6. close \in BOOLEAN
    BY DEF close_after
  <2> HIDE DEF n, close, d, h
  <2>7. Answers(d, x, p, k) /\ d.sent = 0
    BY <1>6, <1>7, <2>1, <2>3, <2>4, <2>5, <2>6
  <2> QED
    BY <2>7 DEF d
<1> QED
  BY <1>8, <1>9, <1>10, ProcessCases

-----------------------------------------------------------------------------
GotUnit == [req : Nat, part : Int, status : Statuses, close : BOOLEAN]

\* The properties of what a client has got, one client at a time.
InOrder(g) ==
  \A i \in DOMAIN g :
    IF g[i].req = 0
    THEN \A j \in i .. Len(g) : g[j].req = 0
    ELSE /\ g[i].req = ((i - 1) \div ResponseUnits) + 1
         /\ g[i].part = ((i - 1) % ResponseUnits) + 1

CloseIsLast(g) ==
  \A i, j \in DOMAIN g :
    i < j /\ g[i].close => g[j].close /\ g[j].req \in {g[i].req, 0}

Honest(x, g) ==
  \A i \in DOMAIN g : g[i].req # 0 => g[i].status = Deserved(x, g[i].req)

GotOK(x, g) == InOrder(g) /\ CloseIsLast(g) /\ Honest(x, g)

\* Nothing but whole answers that keep the connection.
Clean(g) == \A i \in DOMAIN g : g[i].req # 0 /\ ~g[i].close

\* Where the input begins in the script, when R units of it have been read.
Start(c, R) == R - Len(c.input)

\* What links the connection c of client x, of whose script R units have been
\* read and which has got g, to that script.
AtRest(c, x, R, g) ==
  /\ Clean(g)
  /\ \E k \in Nat : /\ Boundary(script[x], Start(c, R), k)
                    /\ Len(g) = k * ResponseUnits

Answering(c, x, R, g, k) ==
  /\ Boundary(script[x], Start(c, R), k)
  /\ Answers(c, x, Start(c, R), k)
  /\ Len(g) = k * ResponseUnits + c.sent
  /\ \A i \in DOMAIN g : /\ g[i].req # 0
                         /\ g[i].close => c.out.close /\ g[i].req = k + 1

Linked(c, x, R, g) ==
  /\ Start(c, R) + Len(c.input) <= Len(script[x])
  /\ Reads(c, x, Start(c, R))
  /\ \/ c.out = NoResponse /\ AtRest(c, x, R, g)
     \/ c.out # NoResponse /\ c.out.req = 0 /\ c.out.close
     \/ \E k \in Nat : c.out.req = k + 1 /\ Answering(c, x, R, g, k)

\* The response that a unit belongs to, and its place in it.
LEMMA DivMod ==
  ASSUME NEW k \in Nat, NEW n \in Nat \ {0}, NEW r \in 0 .. n - 1
  PROVE  (k * n + r) \div n = k /\ (k * n + r) % n = r
  OBVIOUS

\* The units of one response more.
LEMMA NextMultiple ==
  ASSUME NEW k \in Nat, NEW n \in Nat \ {0}
  PROVE  (k + 1) * n = k * n + n /\ k * n \in Nat
  OBVIOUS

\* f is g and the next n units of the response of c.
Gains(f, g, c, n) ==
  /\ f \in Seq(GotUnit) /\ Len(f) = Len(g) + n /\ Len(g) \in Nat
  /\ DOMAIN f = 1 .. Len(g) + n /\ DOMAIN g = 1 .. Len(g)
  /\ \A i \in 1 .. Len(g) : f[i] = g[i]
  /\ \A i \in Len(g) + 1 .. Len(g) + n :
       f[i] = [req |-> c.out.req, part |-> c.sent + (i - Len(g)),
               status |-> c.out.status, close |-> c.out.close]

\* What the client has got after n units more of a response.
LEMMA UnitsSent ==
  ASSUME NEW c, Conn(c), NEW n \in Nat, NEW g \in Seq(GotUnit)
  PROVE  Gains(g \o response_units(c, n), g, c, n)
<1> DEFINE u == response_units(c, n)
           f == g \o u
<1>1. c.out \in Response /\ c.sent \in Int
  BY ConnFacts, LimitsAssumption
<1>2. c.out.req \in Nat /\ c.out.status \in Statuses /\ c.out.close \in BOOLEAN
  BY <1>1 DEF Response
<1>3. u = [i \in 1 .. n |-> [req |-> c.out.req, part |-> c.sent + i,
                             status |-> c.out.status, close |-> c.out.close]]
  BY DEF response_units
<1>4. \A i \in 1 .. n : [req |-> c.out.req, part |-> c.sent + i,
                         status |-> c.out.status, close |-> c.out.close] \in GotUnit
  BY <1>1, <1>2 DEF GotUnit
<1>5. u \in [1 .. n -> GotUnit]
  BY <1>3, <1>4
<1>6. u \in Seq(GotUnit) /\ Len(u) = n
  BY <1>5, SeqDef, LenProperties
<1>7. \A i \in 1 .. n : u[i] = [req |-> c.out.req, part |-> c.sent + i,
                                status |-> c.out.status, close |-> c.out.close]
  BY <1>3
<1> HIDE DEF u
<1>8. /\ f \in Seq(GotUnit) /\ Len(f) = Len(g) + Len(u)
      /\ \A i \in 1 .. Len(g) + Len(u) :
           f[i] = IF i <= Len(g) THEN g[i] ELSE u[i - Len(g)]
  BY <1>6, ConcatProperties
<1>9. Len(g) \in Nat /\ DOMAIN g = 1 .. Len(g) /\ DOMAIN f = 1 .. Len(f)
  BY <1>8, LenProperties
<1> HIDE DEF f
<1>10. \A i \in 1 .. Len(g) : f[i] = g[i]
  BY <1>6, <1>8, <1>9
<1>11. ASSUME NEW i \in Len(g) + 1 .. Len(g) + n
       PROVE  f[i] = [req |-> c.out.req, part |-> c.sent + (i - Len(g)),
                      status |-> c.out.status, close |-> c.out.close]
  <2>1. i - Len(g) \in 1 .. n /\ i \in 1 .. Len(g) + Len(u) /\ ~(i <= Len(g))
    BY <1>6, <1>9
  <2>2. f[i] = u[i - Len(g)]
    BY <1>8, <2>1
  <2> QED
    BY <1>7, <2>1, <2>2
<1> QED
  BY <1>6, <1>8, <1>9, <1>10, <1>11 DEF f, u, Gains

\* Sending keeps what the client has got in order, honest and closed.
LEMMA SendingKeepsGot ==
  ASSUME NEW x \in Clients, NEW c, Conn(c), NEW R, NEW g \in Seq(GotUnit),
         Linked(c, x, R, g), GotOK(x, g), HasResponse(c),
         NEW n \in Nat, c.sent + n <= ResponseUnits
  PROVE  GotOK(x, g \o response_units(c, n))
<1> DEFINE f == g \o response_units(c, n)
           L == Len(g)
<1>1. /\ f \in Seq(GotUnit) /\ Len(f) = L + n /\ L \in Nat
      /\ DOMAIN f = 1 .. L + n /\ DOMAIN g = 1 .. L
      /\ \A i \in 1 .. L : f[i] = g[i]
      /\ \A i \in L + 1 .. L + n :
           f[i] = [req |-> c.out.req, part |-> c.sent + (i - L),
                   status |-> c.out.status, close |-> c.out.close]
  BY UnitsSent DEF Gains
<1>2. c.sent \in Nat /\ c.out.req \in Nat /\ c.out.close \in BOOLEAN /\ ResponseUnits \in Nat \ {0}
  BY ConnFacts, LimitsAssumption, SMTT(40) DEF Response
<1> HIDE DEF f, L
<1>3. \A i \in L + 1 .. L + n : /\ f[i].req = c.out.req /\ f[i].part = c.sent + (i - L)
                                /\ f[i].status = c.out.status /\ f[i].close = c.out.close
  <2> TAKE i \in L + 1 .. L + n
  <2>1. f[i] = [req |-> c.out.req, part |-> c.sent + (i - L),
                status |-> c.out.status, close |-> c.out.close]
    BY <1>1
  <2> DEFINE req == c.out.req
             part == c.sent + (i - L)
             code == c.out.status
             close == c.out.close
  <2>2. f[i] = [req |-> req, part |-> part, status |-> code, close |-> close]
    BY <2>1
  <2> HIDE DEF req, part, code, close
  <2>3. f[i].req = req /\ f[i].part = part /\ f[i].status = code /\ f[i].close = close
    BY <2>2
  <2> QED
    BY <2>3 DEF req, part, code, close
<1>4. \A i \in 1 .. L + n : i \in 1 .. L \/ i \in L + 1 .. L + n
  BY <1>1
<1>5. CASE c.out.req = 0 /\ c.out.close
  <2>1. InOrder(f)
    <3>1. ASSUME NEW i \in 1 .. L + n, f[i].req = 0, NEW j \in i .. L + n
          PROVE  f[j].req = 0
      <4>1. CASE j \in 1 .. L
        <5>1. i \in 1 .. L /\ j \in i .. L
          BY <1>1, <3>1, <4>1
        <5> QED
          BY <1>1, <3>1, <5>1 DEF GotOK, InOrder, L
      <4>2. CASE j \notin 1 .. L
        <5>1. j \in L + 1 .. L + n
          BY <1>1, <3>1, <4>2
        <5> QED
          BY <1>3, <1>5, <5>1
      <4> QED
        BY <4>1, <4>2
    <3>2. ASSUME NEW i \in 1 .. L + n, f[i].req # 0
          PROVE  /\ f[i].req = ((i - 1) \div ResponseUnits) + 1
                 /\ f[i].part = ((i - 1) % ResponseUnits) + 1
      <4>1. i \in 1 .. L
        BY <1>3, <1>4, <1>5, <3>2
      <4> QED
        BY <1>1, <3>2, <4>1 DEF GotOK, InOrder
    <3> QED
      BY <1>1, <3>1, <3>2 DEF InOrder
  <2>2. CloseIsLast(f)
    <3> SUFFICES ASSUME NEW i \in 1 .. L + n, NEW j \in 1 .. L + n, i < j, f[i].close
                 PROVE  f[j].close /\ f[j].req \in {f[i].req, 0}
      BY <1>1 DEF CloseIsLast
    <3>1. CASE j \in L + 1 .. L + n
      BY <1>3, <1>5, <3>1
    <3>2. CASE j \in 1 .. L
      <4>1. i \in 1 .. L
        BY <1>1, <3>2
      <4> QED
        BY <1>1, <3>2, <4>1 DEF GotOK, CloseIsLast
    <3> QED
      BY <1>4, <3>1, <3>2
  <2>3. Honest(x, f)
    <3> SUFFICES ASSUME NEW i \in 1 .. L + n, f[i].req # 0
                 PROVE  f[i].status = Deserved(x, f[i].req)
      BY <1>1 DEF Honest
    <3>1. i \in 1 .. L
      BY <1>3, <1>4, <1>5
    <3> QED
      BY <1>1, <3>1 DEF GotOK, Honest
  <2> QED
    BY <2>1, <2>2, <2>3 DEF GotOK, f
<1>6. ASSUME NEW k \in Nat, c.out.req = k + 1, Answering(c, x, R, g, k)
      PROVE  GotOK(x, f)
  <2>1. /\ L = k * ResponseUnits + c.sent
        /\ \A i \in 1 .. L : /\ g[i].req # 0
                             /\ g[i].close => c.out.close /\ g[i].req = k + 1
        /\ c.out.status = Deserved(x, k + 1)
    BY <1>1, <1>6 DEF Answering, Answers, L
  <2>2. k * ResponseUnits \in Nat
    BY <1>2, NextMultiple
  <2>3. InOrder(f)
    <3>1. ASSUME NEW i \in 1 .. L
          PROVE  /\ f[i].req # 0
                 /\ f[i].req = ((i - 1) \div ResponseUnits) + 1
                 /\ f[i].part = ((i - 1) % ResponseUnits) + 1
      BY <1>1, <2>1 DEF GotOK, InOrder
    <3>2. ASSUME NEW i \in L + 1 .. L + n
          PROVE  /\ f[i].req # 0
                 /\ f[i].req = ((i - 1) \div ResponseUnits) + 1
                 /\ f[i].part = ((i - 1) % ResponseUnits) + 1
      <4> DEFINE m == k * ResponseUnits
                 r == c.sent + (i - L) - 1
      <4>1. m \in Nat /\ L = m + c.sent /\ i \in Nat
        BY <1>1, <2>1, <2>2
      <4>2. r \in 0 .. ResponseUnits - 1 /\ i - 1 = m + r /\ r + 1 = c.sent + (i - L)
        <5>1. L \in Nat /\ c.sent \in Nat /\ ResponseUnits \in Nat
          BY <1>1, <1>2
        <5> HIDE DEF m
        <5> DEFINE w == c.sent
        <5>2. w \in Nat /\ w + n <= ResponseUnits /\ L = m + w
          BY <4>1, <5>1
        <5>3. r = w + (i - L) - 1
          OBVIOUS
        <5> HIDE DEF w, r
        <5>4. r \in 0 .. ResponseUnits - 1 /\ i - 1 = m + r /\ r + 1 = w + (i - L)
          <6>1. i \in L + 1 .. L + n /\ i \in Nat /\ L \in Nat /\ w \in Nat /\ n \in Nat /\ m \in Nat
            BY <4>1, <5>1, <5>2
          <6>2. i >= L + 1
            BY <6>1
          <6>3. i <= L + n
            BY <6>1
          <6>4. L = m + w
            BY <5>2
          <6>5. r = w + i - L - 1
            BY <5>3, <6>1
          <6>6. i - 1 = m + r
            BY <6>1, <6>4, <6>5
          <6>7. r + 1 = w + (i - L)
            BY <6>1, <6>5
          <6>8. r >= 0 /\ r \in Int
            BY <6>1, <6>2, <6>5
          <6>9. r <= ResponseUnits - 1
            BY <6>1, <6>3, <6>5, <5>1, <5>2
          <6> QED
            BY <6>1, <6>6, <6>7, <6>8, <6>9, <5>1
        <5> QED
          BY <5>4 DEF w
      <4> HIDE DEF r
      <4>3. m + r = k * ResponseUnits + r
        BY DEF m
      <4>4. (k * ResponseUnits + r) \div ResponseUnits = k /\ (k * ResponseUnits + r) % ResponseUnits = r
        BY <1>2, <4>2, DivMod, ZenonT(40)
      <4>5. (i - 1) \div ResponseUnits = k /\ (i - 1) % ResponseUnits = r
        BY <4>2, <4>3, <4>4
      <4>6. f[i].req = k + 1 /\ f[i].part = r + 1
        BY <1>3, <1>6, <4>2
      <4> QED
        BY <4>5, <4>6
    <3> QED
      BY <1>1, <1>4, <3>1, <3>2 DEF InOrder
  <2>4. CloseIsLast(f)
    <3> SUFFICES ASSUME NEW i \in 1 .. L + n, NEW j \in 1 .. L + n, i < j, f[i].close
                 PROVE  f[j].close /\ f[j].req \in {f[i].req, 0}
      BY <1>1 DEF CloseIsLast
    <3>1. c.out.close /\ f[i].req = k + 1
      BY <1>1, <1>3, <1>4, <1>6, <2>1
    <3>2. CASE j \in L + 1 .. L + n
      BY <1>3, <1>6, <3>1, <3>2
    <3>3. CASE j \in 1 .. L
      <4>1. i \in 1 .. L
        BY <1>1, <3>3
      <4> QED
        BY <1>1, <3>3, <4>1 DEF GotOK, CloseIsLast
    <3> QED
      BY <1>4, <3>2, <3>3
  <2>5. Honest(x, f)
    <3> SUFFICES ASSUME NEW i \in 1 .. L + n, f[i].req # 0
                 PROVE  f[i].status = Deserved(x, f[i].req)
      BY <1>1 DEF Honest
    <3>1. CASE i \in 1 .. L
      BY <1>1, <3>1 DEF GotOK, Honest
    <3>2. CASE i \in L + 1 .. L + n
      BY <1>3, <1>6, <2>1, <3>2
    <3> QED
      BY <1>4, <3>1, <3>2
  <2> QED
    BY <2>3, <2>4, <2>5 DEF GotOK
<1> QED
  BY <1>5, <1>6 DEF Linked, HasResponse, f

\* Only four fields of a connection tie it to its client.
LEMMA LinkedSame ==
  ASSUME NEW x, NEW R, NEW g, NEW c, NEW d, Linked(c, x, R, g),
         d.input = c.input, d.request = c.request, d.sent = c.sent, d.out = c.out
  PROVE  Linked(d, x, R, g)
  BY DEF Linked, Start, Reads, AtRest, Answering, Answers

\* drive_requests keeps a connection tied to its client.
LEMMA DriveLinks ==
  ASSUME ScriptsTyped, draining \in BOOLEAN, NEW x \in Clients, NEW c, Conn(c), NEW R,
         NEW g \in Seq(GotUnit), Linked(c, x, R, g), c.out = NoResponse
  PROVE  Linked(drive_requests(c), x, R, g)
<1> DEFINE d == drive_requests(c)
           p == process_request(c)
           P == Start(c, R)
<1>1. ~HasResponse(c) /\ c.out.req = 0
  BY DEF HasResponse, NoResponse
<1>2. /\ d.input = c.input /\ d.request = p.request /\ d.sent = p.sent /\ d.out = p.out
  BY <1>1, DriveFields
<1>3. Reads(c, x, P) /\ AtRest(c, x, R, g)
  BY <1>1 DEF Linked
<1> HIDE DEF d
<1>4. CASE p = c
  <2> HIDE DEF p
  <2>1. Linked(d, x, R, g)
    BY <1>2, <1>4, LinkedSame
  <2> QED
    BY <2>1 DEF d
<1>5. CASE p # c
  <2>1. PICK k \in Nat : Boundary(script[x], P, k) /\ Len(g) = k * ResponseUnits
    BY <1>3 DEF AtRest
  <2>2. Answers(p, x, P, k) /\ p.sent = 0
    BY <1>3, <1>5, <2>1, ProcessDeserves
  <2>3. p.input = c.input
    BY ProcessAnswers DEF Answered
  <2> HIDE DEF p
  <2>4. Start(d, R) = P
    BY <1>2 DEF Start
  <2>5. Answers(d, x, P, k) /\ d.sent = 0
    BY <1>2, <2>2, <2>3 DEF Answers
  <2>6. k * ResponseUnits + d.sent = k * ResponseUnits
    <3>1. k * ResponseUnits \in Nat
      BY NextMultiple, LimitsAssumption
    <3> QED
      BY <2>5, <3>1
  <2>7. \A i \in DOMAIN g : g[i].req # 0 /\ ~g[i].close
    BY <1>3 DEF AtRest, Clean
  <2>8. Answering(d, x, R, g, k)
    BY <2>1, <2>4, <2>5, <2>6, <2>7 DEF Answering
  <2>9. d.out.req = k + 1
    BY <2>5 DEF Answers
  <2>10. Linked(d, x, R, g)
    BY <1>2, <2>1, <2>4, <2>8, <2>9 DEF Linked, Reads
  <2> QED
    BY <2>10 DEF d
<1> QED
  BY <1>4, <1>5

\* The units still on their way to the server follow those it has read.
Follows(q, x, R) ==
  /\ R \in Nat /\ R + Len(q) <= Len(script[x])
  /\ \A i \in 1 .. Len(q) : q[i] = script[x][R + i]

\* Receiving moves units from the wire to the buffer, and the place in the script with them.
LEMMA ReceivedLinks ==
  ASSUME ScriptsTyped, NEW x \in Clients, NEW c, Conn(c), c.peer = x, NEW R, NEW g,
         inbound[x] \in Seq(Units), Follows(inbound[x], x, R), Linked(c, x, R, g)
  PROVE  Linked(received(c), x, R + taken(c), g)
<1> DEFINE d == received(c)
           n == taken(c)
           P == Start(c, R)
           L == Len(c.input)
           more == SubSeq(inbound[c.peer], 1, n)
<1>1. /\ d.input = c.input \o more /\ more \in Seq(Units) /\ Len(more) = n
      /\ d.request = c.request /\ d.sent = c.sent /\ d.out = c.out
  BY ReceivedFields
<1>2. n \in 0 .. Len(inbound[x]) /\ Len(inbound[x]) \in Nat /\ R \in Nat
      /\ R + Len(inbound[x]) <= Len(script[x]) /\ Len(script[x]) \in Nat
      /\ L \in Nat /\ c.input \in Seq(Units)
  BY TakenFacts, LenProperties, ScriptUnits, ConnFacts DEF Follows
<1>3. /\ d.input \in Seq(Units) /\ Len(d.input) = L + n
      /\ \A i \in 1 .. L + n : d.input[i] = IF i <= L THEN c.input[i] ELSE more[i - L]
  <2> DEFINE v == c.input \o more
  <2>1. d.input = v /\ more \in Seq(Units) /\ Len(more) = n /\ c.input \in Seq(Units)
    BY <1>1, <1>2
  <2> HIDE DEF more, n, d, L
  <2>2. /\ v \in Seq(Units) /\ Len(v) = Len(c.input) + Len(more)
        /\ \A i \in 1 .. Len(c.input) + Len(more) :
             v[i] = IF i <= Len(c.input) THEN c.input[i] ELSE more[i - Len(c.input)]
    BY <2>1, ConcatProperties
  <2> HIDE DEF v
  <2> QED
    BY <2>1, <2>2 DEF L
<1>4. \A i \in 1 .. n : more[i] = inbound[x][i]
  <2>1. \A i \in 1 .. n : inbound[x][i] \in Units
    BY <1>2, ElementOfSeq
  <2>2. \A i \in 1 .. n - 1 + 1 : SubSeq(inbound[x], 1, n)[i] = inbound[x][1 + i - 1]
    <3>1. n \in Int /\ 1 \in Int
      BY <1>2
    <3> HIDE DEF n
    <3> QED
      BY <2>1, <3>1, SubSeqProperties
  <2>3. ASSUME NEW i \in 1 .. n PROVE 1 + i - 1 = i /\ i \in 1 .. n - 1 + 1
    BY <1>2
  <2> QED
    BY <2>2, <2>3
<1>5. P \in Nat /\ P = R - L
  BY DEF Linked, Reads, Start
<1> HIDE DEF d, n, more
<1>6. Start(d, R + n) = P
  BY <1>2, <1>3, <1>5 DEF Start
<1>7. Reads(d, x, P) /\ P + Len(d.input) <= Len(script[x])
  <2>1. P + (L + n) <= Len(script[x])
    <3> HIDE DEF P, L
    <3>1. P + L = R /\ P + (L + n) = R + n /\ R + n <= R + Len(inbound[x])
      BY <1>2, <1>5
    <3>2. R + n \in Nat /\ R + Len(inbound[x]) \in Nat
      BY <1>2
    <3> QED
      BY <1>2, <3>1, <3>2
  <2>2. ASSUME NEW i \in 1 .. L + n PROVE d.input[i] = script[x][P + i]
    <3>1. CASE i <= L
      <4>1. i \in 1 .. L
        BY <1>2, <3>1
      <4> QED
        BY <1>3, <3>1, <4>1 DEF Linked, Reads
    <3>2. CASE ~(i <= L)
      <4>1. i - L \in 1 .. n /\ i - L \in 1 .. Len(inbound[x]) /\ R + (i - L) = P + i
        BY <1>2, <1>5, <3>2
      <4>2. d.input[i] = inbound[x][i - L]
        BY <1>3, <1>4, <3>2, <4>1
      <4> QED
        BY <4>1, <4>2 DEF Follows
    <3> QED
      BY <3>1, <3>2
  <2> QED
    BY <1>3, <1>5, <2>1, <2>2 DEF Reads
<1>8. AtRest(c, x, R, g) => AtRest(d, x, R + n, g)
  BY <1>6 DEF AtRest
<1>9. ASSUME NEW k \in Nat, Answering(c, x, R, g, k)
      PROVE  Answering(d, x, R + n, g, k)
  <2>1. Answers(c, x, P, k)
    BY <1>9 DEF Answering
  <2>2. L <= Len(d.input) /\ Len(d.input) \in Nat
    BY <1>2, <1>3
  <2>3. Answers(d, x, P, k)
    BY <1>1, <1>2, <2>1, <2>2 DEF Answers
  <2> QED
    BY <1>1, <1>6, <1>9, <2>3 DEF Answering
<1>10. Linked(d, x, R + n, g)
  BY <1>1, <1>6, <1>7, <1>8, <1>9 DEF Linked
<1> QED
  BY <1>10 DEF d, n

\* read_connection closes the connection or keeps it tied to its client.
LEMMA ReadLinks ==
  ASSUME ScriptsTyped, draining \in BOOLEAN, NEW x \in Clients, NEW c, Conn(c), c.peer = x,
         NEW R, NEW g \in Seq(GotUnit), fin[x] \in BOOLEAN,
         inbound[x] \in Seq(Units), Follows(inbound[x], x, R), Linked(c, x, R, g)
  PROVE  \/ read_connection(c) = Free
         \/ Linked(read_connection(c), x, R + taken(c), g)
<1> DEFINE read == received(c)
           ended == WithEnd(read, fin[c.peer])
           next == IF HasResponse(ended) THEN ended ELSE drive_requests(ended)
           d == read_connection(c)
           Q == R + taken(c)
<1>1. Conn(read) /\ Linked(read, x, Q, g)
  BY ReceivedFields, ReceivedLinks
<1>2. d = CASE Len(read.input) >= InputCapacity ->
                  update_connection_events(prepare_response(read, 0, 413, TRUE))
             [] Len(read.input) < InputCapacity ->
                  IF rst[c.peer] \/ finished(next) THEN Free ELSE next
  BY ReadCases
<1>3. Len(read.input) \in Nat /\ InputCapacity \in Nat
  BY <1>1, ConnFacts
<1> HIDE DEF d, next, ended, read, Q
<1>4. CASE Len(read.input) >= InputCapacity
  <2> DEFINE none == 0
             code == 413
             yes == TRUE
             e == prepare_response(read, none, code, yes)
  <2>0. ~(Len(read.input) < InputCapacity)
    BY <1>3, <1>4
  <2>1. d = update_connection_events(e)
    BY <1>2, <1>4, <2>0, Zenon
  <2>2. none \in Nat /\ none = 0 /\ code \in Statuses /\ code # 0 /\ yes \in BOOLEAN /\ yes
    BY DEF Statuses
  <2> HIDE DEF none, code, yes
  <2>3. Conn(e) /\ e.input = read.input /\ e.out = [req |-> none, status |-> code, close |-> yes]
    <3>1. Conn(read)
      BY <1>1
    <3>2. Conn(e)
      BY <2>2, <3>1, ResponseFields, ZenonT(40)
    <3>3. e.input = read.input /\ e.out = [req |-> none, status |-> code, close |-> yes]
      <4> DEFINE r == [req |-> none, status |-> code, close |-> yes]
      <4>1. e = [read EXCEPT !.out = r, !.sent = 0]
        BY DEF prepare_response
      <4> HIDE DEF e, r
      <4>2. e.input = read.input /\ e.out = r
        BY <3>1, <4>1 DEF Conn, ConnectionType
      <4> QED
        BY <4>2 DEF r
    <3> QED
      BY <3>2, <3>3
  <2> HIDE DEF e
  <2>4. d.input = read.input /\ d.out = e.out
    BY <2>1, <2>3, EventsFields
  <2>5. d.out # NoResponse /\ d.out.req = 0 /\ d.out.close
    <3>1. e.out.req = none /\ e.out.status = code /\ e.out.close = yes
      BY <2>3
    <3> QED
      BY <2>2, <2>4, <3>1 DEF NoResponse
  <2>6. Linked(d, x, Q, g)
    BY <1>1, <2>4, <2>5 DEF Linked, Start, Reads
  <2> QED
    BY <2>6 DEF d, Q
<1>5. CASE Len(read.input) < InputCapacity
  <2>1. d = IF rst[c.peer] \/ finished(next) THEN Free ELSE next
    BY <1>2, <1>3, <1>5
  <2>2. /\ Conn(ended) /\ ended.input = read.input
        /\ ended.request = read.request /\ ended.sent = read.sent /\ ended.out = read.out
    BY <1>1, EndFields DEF ended
  <2>3. Linked(ended, x, Q, g)
    BY <1>1, <2>2, LinkedSame
  <2>4. Linked(next, x, Q, g)
    <3>1. CASE HasResponse(ended)
      BY <2>3, <3>1 DEF next
    <3>2. CASE ~HasResponse(ended)
      <4>1. ended.out = NoResponse
        BY <3>2 DEF HasResponse
      <4>2. Linked(drive_requests(ended), x, Q, g)
        BY <2>2, <2>3, <4>1, DriveLinks
      <4> QED
        BY <3>2, <4>2 DEF next
    <3> QED
      BY <3>1, <3>2
  <2> QED
    BY <2>1, <2>4 DEF d, Q
<1> QED
  BY <1>3, <1>4, <1>5

\* Sending moves units from the response to the client.
LEMMA MoreSentLinks ==
  ASSUME NEW x \in Clients, NEW c, Conn(c), NEW R, NEW g \in Seq(GotUnit),
         Linked(c, x, R, g), HasResponse(c), NEW n \in Nat, NEW d,
         d.input = c.input, d.request = c.request, d.sent = c.sent + n, d.out = c.out
  PROVE  Linked(d, x, R, g \o response_units(c, n))
<1> DEFINE f == g \o response_units(c, n)
           L == Len(g)
<1>1. d.input = c.input /\ d.request = c.request /\ d.sent = c.sent + n /\ d.out = c.out
  OBVIOUS
<1>0. Gains(f, g, c, n)
  BY UnitsSent, Zenon
<1>2. /\ Len(f) = L + n /\ L \in Nat
      /\ DOMAIN f = 1 .. L + n /\ DOMAIN g = 1 .. L
      /\ \A i \in 1 .. L : f[i] = g[i]
      /\ \A i \in L + 1 .. L + n :
           f[i] = [req |-> c.out.req, part |-> c.sent + (i - L),
                   status |-> c.out.status, close |-> c.out.close]
  BY <1>0 DEF Gains
<1>3. c.out # NoResponse
  BY DEF HasResponse
<1> HIDE DEF f, L
<1>4. Start(d, R) = Start(c, R)
  BY <1>1 DEF Start
<1>5. Reads(d, x, Start(d, R)) /\ Start(d, R) + Len(d.input) <= Len(script[x])
  BY <1>1, <1>4 DEF Linked, Reads
<1>6. ASSUME NEW k \in Nat, c.out.req = k + 1, Answering(c, x, R, g, k)
      PROVE  Answering(d, x, R, f, k)
  <2>2. L = k * ResponseUnits + c.sent
    BY <1>6 DEF Answering, L
  <2>3. Len(f) = k * ResponseUnits + d.sent
    <3> DEFINE m == k * ResponseUnits
    <3>0. m \in Nat
      BY NextMultiple, LimitsAssumption
    <3>1. m \in Nat /\ c.sent \in Nat /\ L = m + c.sent
      BY <2>2, <3>0, ConnFacts, LimitsAssumption
    <3> HIDE DEF m
    <3>2. Len(f) = m + d.sent
      BY <1>1, <1>2, <3>1
    <3> QED
      BY <3>2 DEF m
  <2>4. ASSUME NEW i \in 1 .. L + n
        PROVE  f[i].req # 0 /\ (f[i].close => d.out.close /\ f[i].req = k + 1)
    <3>1. CASE i \in 1 .. L
      BY <1>1, <1>6, <1>2, <3>1 DEF Answering
    <3>2. CASE i \in L + 1 .. L + n
      <4> DEFINE req == c.out.req
                 part == c.sent + (i - L)
                 code == c.out.status
                 close == c.out.close
      <4>1. f[i] = [req |-> req, part |-> part, status |-> code, close |-> close]
        BY <1>2, <3>2
      <4> HIDE DEF req, part, code, close
      <4>2. f[i].req = req /\ f[i].close = close
        BY <4>1
      <4> QED
        BY <1>1, <1>6, <4>2 DEF req, close
    <3> QED
      BY <1>2, <3>1, <3>2
  <2>5. Answers(d, x, Start(d, R), k)
    BY <1>1, <1>4, <1>6 DEF Answering, Answers
  <2> QED
    BY <1>4, <1>6, <1>2, <2>3, <2>4, <2>5 DEF Answering
<1>7. Linked(d, x, R, f)
  BY <1>1, <1>3, <1>5, <1>6 DEF Linked
<1> QED
  BY <1>7 DEF f

\* A send, whole or cut short, keeps a connection tied to its client.
LEMMA ProgressedLinks ==
  ASSUME NEW x \in Clients, NEW c, Conn(c), NEW R, NEW g \in Seq(GotUnit),
         room[c.peer] \in Nat, Linked(c, x, R, g), HasResponse(c)
  PROVE  Linked(progressed(c), x, R, g \o response_units(c, sendable(c)))
<1> DEFINE d == progressed(c)
           n == sendable(c)
<1>1. /\ d.input = c.input /\ d.request = c.request /\ d.sent = c.sent + n /\ d.out = c.out
  BY ProgressedFields
<1>2. n \in Nat
  BY SendableFacts
<1> HIDE DEF d, n
<1>3. Linked(d, x, R, g \o response_units(c, n))
  BY <1>1, <1>2, MoreSentLinks
<1> QED
  BY <1>3 DEF d, n

\* A request that has been answered whole takes the connection to the next boundary.
LEMMA ConsumedLinks ==
  ASSUME ScriptsTyped, NEW x \in Clients, NEW c, Conn(c), NEW R \in Nat, NEW g \in Seq(GotUnit),
         Linked(c, x, R, g), HasResponse(c), ~c.out.close, c.sent = ResponseUnits
  PROVE  Linked(consume_request(c), x, R, g)
<1> DEFINE d == consume_request(c)
           n == c.request
           L == Len(c.input)
           P == Start(c, R)
<1>1. d.input = SubSeq(c.input, n + 1, L) /\ d.out = NoResponse
  BY ConsumeFields
<1>2. PICK k \in Nat : c.out.req = k + 1 /\ Answering(c, x, R, g, k)
  BY DEF Linked, HasResponse
<1>3. /\ n \in 0 .. L /\ Boundary(script[x], P + n, k + 1)
  BY <1>2 DEF Answering, Answers
<1>4. /\ c.input \in Seq(Units) /\ L \in Nat /\ P \in Nat /\ P = R - L
      /\ P + L <= Len(script[x]) /\ Len(script[x]) \in Nat
  BY ConnFacts, LenProperties, ScriptUnits DEF Linked, Reads, Start
<1> HIDE DEF d, n
<1>5. Len(d.input) = L - n /\ \A i \in 1 .. L - n : d.input[i] = c.input[n + i]
  <2> DEFINE a == n + 1
  <2>1. a \in Int /\ L \in Int /\ \A i \in a .. L : i \in 1 .. Len(c.input)
    BY <1>3, <1>4
  <2>2. \A i \in a .. L : c.input[i] \in Units
    BY <1>4, <2>1, ElementOfSeq
  <2> HIDE DEF L, a
  <2>3. /\ Len(SubSeq(c.input, a, L)) = IF a <= L THEN L - a + 1 ELSE 0
        /\ \A i \in 1 .. L - a + 1 : SubSeq(c.input, a, L)[i] = c.input[a + i - 1]
    BY <2>1, <2>2, SubSeqProperties
  <2>4. L - a + 1 = L - n /\ (~(a <= L) => L - n = 0)
    BY <1>3, <1>4 DEF a
  <2>5. ASSUME NEW i \in 1 .. L - n PROVE a + i - 1 = n + i
    BY <1>3, <1>4 DEF a
  <2>6. d.input = SubSeq(c.input, a, L)
    BY <1>1 DEF a
  <2> QED
    BY <2>3, <2>4, <2>5, <2>6
<1>6. Start(d, R) = P + n /\ P + n \in Nat /\ P + n + Len(d.input) <= Len(script[x])
  <2>1. R = P + L
    <3> QED
      BY <1>4
  <2> HIDE DEF L, P
  <2> QED
    BY <1>3, <1>4, <1>5, <2>1 DEF Start
<1>7. Reads(d, x, P + n)
  <2>1. ASSUME NEW i \in 1 .. L - n PROVE d.input[i] = script[x][P + n + i]
    <3>1. n + i \in 1 .. L /\ P + (n + i) = P + n + i
      BY <1>3, <1>4
    <3>2. c.input[n + i] = script[x][P + (n + i)]
      BY <3>1 DEF Linked, Reads
    <3> QED
      BY <1>5, <3>1, <3>2
  <2> QED
    BY <1>5, <1>6, <2>1 DEF Reads
<1>8. Clean(g)
  BY <1>2 DEF Clean, Answering
<1>9. Len(g) = (k + 1) * ResponseUnits
  <2>1. (k + 1) * ResponseUnits = k * ResponseUnits + ResponseUnits
    BY NextMultiple, LimitsAssumption
  <2> QED
    BY <1>2, <2>1 DEF Answering
<1>10. AtRest(d, x, R, g)
  <2>1. k + 1 \in Nat
    OBVIOUS
  <2> QED
    BY <1>3, <1>6, <1>8, <1>9, <2>1 DEF AtRest
<1>11. Linked(d, x, R, g)
  BY <1>1, <1>6, <1>7, <1>10 DEF Linked
<1> QED
  BY <1>11 DEF d

\* flush_connection closes the connection or keeps it tied to its client.
LEMMA FlushLinks ==
  ASSUME ScriptsTyped, draining \in BOOLEAN, NEW x \in Clients, NEW c, Conn(c),
         NEW R \in Nat, NEW g \in Seq(GotUnit), room[c.peer] \in Nat, Linked(c, x, R, g), HasResponse(c)
  PROVE  \/ flush_connection(c) = Free
         \/ Linked(flush_connection(c), x, R, g \o response_units(c, sendable(c)))
<1> DEFINE sent == progressed(c)
           rest == consume_request(sent)
           next == drive_requests(rest)
           d == flush_connection(c)
           f == g \o response_units(c, sendable(c))
<1>1. /\ Conn(sent) /\ sent.out = c.out /\ Linked(sent, x, R, f) /\ HasResponse(sent)
  BY ProgressedFields, ProgressedLinks DEF HasResponse
<1>2. d = IF rst[c.peer] THEN Free
          ELSE IF sent.sent < ResponseUnits THEN update_connection_events(sent)
          ELSE IF response_close(c) \/ c.request > Len(c.input) \/ finished(next)
          THEN Free ELSE update_connection_events(next)
  BY FlushCases
<1>3. f \in Seq(GotUnit)
  BY SendableFacts, UnitsSent DEF Gains
<1> HIDE DEF d, f, sent
<1>4. CASE d = Free
  BY <1>4 DEF d
<1>5. CASE d = update_connection_events(sent)
  <2>1. d.input = sent.input /\ d.request = sent.request /\ d.sent = sent.sent /\ d.out = sent.out
    BY <1>1, <1>5, EventsFields
  <2>2. Linked(d, x, R, f)
    BY <1>1, <2>1, LinkedSame
  <2> QED
    BY <2>2 DEF d, f
<1>6. CASE ~(sent.sent < ResponseUnits) /\ ~c.out.close /\ d = update_connection_events(next)
  <2>1. sent.sent = ResponseUnits /\ ~sent.out.close
    <3>1. sent.sent \in 0 .. ResponseUnits /\ ResponseUnits \in Nat
      BY <1>1, ConnFacts, LimitsAssumption
    <3> QED
      BY <1>1, <1>6, <3>1
  <2>2. Conn(rest) /\ rest.out = NoResponse
    BY <1>1, ConsumeFields
  <2>3. Linked(rest, x, R, f)
    BY <1>1, <1>3, <2>1, ConsumedLinks
  <2> HIDE DEF rest
  <2>4. Conn(next) /\ Linked(next, x, R, f)
    BY <1>3, <2>2, <2>3, DriveLinks, DriveFields
  <2> HIDE DEF next
  <2>5. d.input = next.input /\ d.request = next.request /\ d.sent = next.sent /\ d.out = next.out
    BY <1>6, <2>4, EventsFields
  <2>6. Linked(d, x, R, f)
    BY <2>4, <2>5, LinkedSame
  <2> QED
    BY <2>6 DEF d, f
<1> QED
  BY <1>2, <1>4, <1>5, <1>6 DEF response_close

\* EPOLLOUT is asked for only while a response waits.
WantOK(c) == c.want_out => HasResponse(c)

\* read_connection leaves interest in writability to those that have a response.
LEMMA ReadWants ==
  ASSUME ScriptsTyped, draining \in BOOLEAN, NEW c, Conn(c),
         inbound[c.peer] \in Seq(Units), fin[c.peer] \in BOOLEAN, WantOK(c)
  PROVE  \/ read_connection(c) = Free
         \/ /\ WantOK(read_connection(c))
            /\ HasResponse(c) => HasResponse(read_connection(c))
<1> DEFINE read == received(c)
           ended == WithEnd(read, fin[c.peer])
           next == IF HasResponse(ended) THEN ended ELSE drive_requests(ended)
           d == read_connection(c)
<1>1. Conn(read) /\ read.out = c.out /\ read.want_out = c.want_out
  BY ReceivedFields
<1>2. d = CASE Len(read.input) >= InputCapacity ->
                  update_connection_events(prepare_response(read, 0, 413, TRUE))
             [] Len(read.input) < InputCapacity ->
                  IF rst[c.peer] \/ finished(next) THEN Free ELSE next
  BY ReadCases
<1>3. Len(read.input) \in Nat /\ InputCapacity \in Nat
  BY <1>1, ConnFacts
<1> HIDE DEF d, next, ended, read
<1>4. CASE Len(read.input) >= InputCapacity
  <2> DEFINE none == 0
             code == 413
             yes == TRUE
             e == prepare_response(read, none, code, yes)
  <2>0. ~(Len(read.input) < InputCapacity)
    BY <1>3, <1>4
  <2>1. d = update_connection_events(e)
    BY <1>2, <1>4, <2>0, Zenon
  <2>2. none \in Nat /\ code \in Statuses /\ code # 0 /\ yes \in BOOLEAN
    BY DEF Statuses
  <2> HIDE DEF none, code, yes
  <2>3. Conn(e) /\ e.out = [req |-> none, status |-> code, close |-> yes]
    BY <1>1, <2>2, ResponseFields
  <2>4. HasResponse(e)
    <3>1. e.out.status = code
      BY <2>3
    <3> QED
      BY <2>2, <3>1 DEF HasResponse, NoResponse
  <2> HIDE DEF e
  <2>5. d.out = e.out /\ d.want_out = HasResponse(e)
    BY <2>1, <2>3, EventsFields
  <2>6. HasResponse(d)
    BY <2>4, <2>5 DEF HasResponse
  <2> QED
    BY <2>6 DEF WantOK, d
<1>5. CASE Len(read.input) < InputCapacity
  <2>1. d = Free \/ d = next
    BY <1>2, <1>3, <1>5
  <2>2. Conn(ended) /\ ended.out = read.out /\ ended.want_out = read.want_out
    BY <1>1, EndFields DEF ended
  <2>3. WantOK(ended) /\ (HasResponse(c) <=> HasResponse(ended))
    BY <1>1, <2>2 DEF WantOK, HasResponse
  <2>4. WantOK(next) /\ (HasResponse(ended) => HasResponse(next))
    <3>1. CASE HasResponse(ended)
      BY <2>3, <3>1 DEF next
    <3>2. CASE ~HasResponse(ended)
      <4> DEFINE f == drive_requests(ended)
      <4>1. f.want_out => HasResponse(f) \/ ended.want_out
        BY <2>2, DriveFields
      <4>2. next = f
        BY <3>2 DEF next
      <4> QED
        BY <2>3, <3>2, <4>1, <4>2 DEF WantOK
    <3> QED
      BY <3>1, <3>2
  <2> QED
    BY <2>1, <2>3, <2>4 DEF d
<1> QED
  BY <1>3, <1>4, <1>5

\* flush_connection leaves interest in writability to those that have a response.
LEMMA FlushWants ==
  ASSUME ScriptsTyped, draining \in BOOLEAN, NEW c, Conn(c), room[c.peer] \in Nat
  PROVE  flush_connection(c) = Free \/ WantOK(flush_connection(c))
<1> DEFINE sent == progressed(c)
           rest == consume_request(sent)
           next == drive_requests(rest)
           d == flush_connection(c)
<1>1. Conn(sent)
  BY ProgressedFields
<1>2. \/ d = Free \/ d = update_connection_events(sent)
      \/ d = update_connection_events(next)
  BY FlushCases
<1> HIDE DEF sent
<1>3. Conn(rest)
  BY <1>1, ConsumeFields
<1> HIDE DEF rest
<1>4. Conn(next)
  BY <1>3, DriveFields
<1> HIDE DEF next
<1>5. ASSUME NEW e, Conn(e), d = update_connection_events(e) PROVE WantOK(d)
  <2> HIDE DEF d
  <2>1. d.out = e.out /\ d.want_out = HasResponse(e)
    BY <1>5, EventsFields
  <2> QED
    BY <2>1 DEF WantOK, HasResponse
<1> QED
  BY <1>1, <1>2, <1>4, <1>5

-----------------------------------------------------------------------------
\* The inductive invariant.  The values are named by bound variables where a
\* formula below them mentions the scripts, which never change.
GotsOK ==
  /\ got \in [Clients -> Seq(GotUnit)]
  /\ \A x \in Clients : \A g, q, R :
       g = got[x] /\ q = inbound[x] /\ R = written[x] - Len(inbound[x])
         => GotOK(x, g) /\ Follows(q, x, R)

LinksOK ==
  \A s \in Used : \A c, R, g :
    /\ c = connections[s]
    /\ R = written[c.peer] - Len(inbound[c.peer]) /\ g = got[c.peer]
    => Linked(c, c.peer, R, g) /\ WantOK(c)

\* What epoll said about sending is still true when the event's turn comes.
OutsOK ==
  \A e \in batch, s \in Used :
    connections[s].fd = e.fd /\ e.out => HasResponse(connections[s])

Waiting(x) == x \notin joined \/ \E i \in 1 .. Len(backlog) : backlog[i] = x

\* A client has one place: none, the backlog, or one slot.
PlacesOK ==
  /\ \A s, t \in Used : connections[s].peer = connections[t].peer => s = t
  /\ \A s \in Used : ~Waiting(connections[s].peer)
  /\ \A i \in 1 .. Len(backlog) : backlog[i] \in joined
  /\ \A i, j \in 1 .. Len(backlog) : backlog[i] = backlog[j] => i = j
  /\ \A x \in Clients : Waiting(x) => got[x] = <<>> /\ written[x] = Len(inbound[x])

StreamsOK == GotsOK /\ LinksOK /\ OutsOK /\ PlacesOK

\* A connection stays tied to its client while the scripts are the same.
LEMMA LinkedStays ==
  ASSUME script' = script, NEW c, NEW x, NEW R, NEW g, Linked(c, x, R, g)
  PROVE  Linked(c, x, R, g)'
<1>1. \A k : Deserved(x, k)' = Deserved(x, k)
  BY DEF Deserved
<1>2. \A p, k : Answers(c, x, p, k)' <=> Answers(c, x, p, k)
  BY <1>1 DEF Answers
<1>3. \A k : Answering(c, x, R, g, k)' <=> Answering(c, x, R, g, k)
  BY <1>2 DEF Answering
<1>4. AtRest(c, x, R, g)' <=> AtRest(c, x, R, g)
  BY DEF AtRest
<1>5. Reads(c, x, Start(c, R))' <=> Reads(c, x, Start(c, R))
  BY DEF Reads
<1> QED
  BY <1>3, <1>4, <1>5 DEF Linked

\* What a client has got stays right while the scripts are the same.
LEMMA GotStays ==
  ASSUME script' = script, NEW x, NEW R, NEW g, NEW q, GotOK(x, g), Follows(q, x, R)
  PROVE  GotOK(x, g)' /\ Follows(q, x, R)'
<1>1. \A k : Deserved(x, k)' = Deserved(x, k)
  BY DEF Deserved
<1>2. Honest(x, g)' <=> Honest(x, g)
  BY <1>1 DEF Honest
<1> QED
  BY <1>2 DEF GotOK, Follows

\* What no step but a read, a send or a drive changes of a connection.
AsBefore(c, d) ==
  /\ Same(c, d) /\ d.input = c.input /\ d.request = c.request
  /\ d.sent = c.sent /\ d.out = c.out /\ d.want_out = c.want_out

\* A step that leaves the wires alone keeps what the clients have got.
LEMMA GotsKept ==
  ASSUME GotsOK, UNCHANGED <<script, written, inbound, got>>
  PROVE  GotsOK'
<1>1. ASSUME NEW x \in Clients, NEW g, NEW q, NEW R,
             g = got'[x], q = inbound'[x], R = written'[x] - Len(inbound'[x])
      PROVE  GotOK(x, g)' /\ Follows(q, x, R)'
  <2>1. GotOK(x, g) /\ Follows(q, x, R)
    BY <1>1 DEF GotsOK
  <2> QED
    BY <2>1, GotStays
<1> QED
  BY <1>1 DEF GotsOK

\* A step that leaves the wires alone keeps the connections tied.
LEMMA LinksKept ==
  ASSUME LinksOK, UNCHANGED <<script, written, inbound, got>>,
         \A t \in Used' : t \in Used /\ AsBefore(connections[t], connections'[t])
  PROVE  LinksOK'
<1>1. ASSUME NEW t \in Used', NEW d, NEW R, NEW g, d = connections'[t],
             R = written'[d.peer] - Len(inbound'[d.peer]), g = got'[d.peer]
      PROVE  Linked(d, d.peer, R, g)' /\ WantOK(d)
  <2>1. PICK c : c = connections[t]
    OBVIOUS
  <2>2. t \in Used /\ d.peer = c.peer /\ AsBefore(c, d)
    BY <1>1, <2>1 DEF AsBefore, Same
  <2>3. Linked(c, c.peer, R, g) /\ WantOK(c)
    BY <1>1, <2>1, <2>2 DEF LinksOK
  <2>4. Linked(d, d.peer, R, g) /\ WantOK(d)
    BY <2>2, <2>3, LinkedSame DEF AsBefore, WantOK, HasResponse
  <2> QED
    BY <2>4, LinkedStays
<1> QED
  BY <1>1 DEF LinksOK

\* A step that leaves the connections as they were keeps their answers.
LEMMA OutsKept ==
  ASSUME OutsOK, batch' \subseteq batch,
         \A t \in Used' : t \in Used /\ AsBefore(connections[t], connections'[t])
  PROVE  OutsOK'
  BY DEF OutsOK, AsBefore, Same, HasResponse

\* A step that opens no connection keeps each client at its place.
LEMMA PlacesKept ==
  ASSUME PlacesOK, UNCHANGED <<joined, written, inbound, got>>,
         backlog' = backlog \/ backlog' = <<>>,
         \A t \in Used' : t \in Used /\ AsBefore(connections[t], connections'[t])
  PROVE  PlacesOK'
<1>1. \A t \in Used' : t \in Used /\ connections'[t].peer = connections[t].peer
  BY DEF AsBefore, Same
<1>2. \A i \in 1 .. Len(backlog') : i \in 1 .. Len(backlog) /\ backlog'[i] = backlog[i]
  BY EmptySeq
<1>3. \A x : Waiting(x)' => Waiting(x)
  BY <1>2 DEF Waiting
<1>4. \A s, t \in Used' : connections'[s].peer = connections'[t].peer => s = t
  BY <1>1 DEF PlacesOK
<1>5. (\A s \in Used : ~Waiting(connections[s].peer))'
  <2>1. ASSUME NEW s \in Used'
        PROVE  /\ connections'[s].peer \in joined'
               /\ \A i \in 1 .. Len(backlog') : backlog'[i] # connections'[s].peer
    <3>1. s \in Used /\ connections'[s].peer = connections[s].peer
      BY <1>1
    <3>2. ~Waiting(connections[s].peer)
      BY <3>1 DEF PlacesOK
    <3> QED
      BY <1>2, <3>1, <3>2 DEF Waiting
  <2> QED
    BY <2>1 DEF Waiting
<1>7. /\ \A i \in 1 .. Len(backlog') : backlog'[i] \in joined'
      /\ \A i, j \in 1 .. Len(backlog') : backlog'[i] = backlog'[j] => i = j
  BY <1>2 DEF PlacesOK
<1>8. \A x \in Clients : Waiting(x)' => got'[x] = <<>> /\ written'[x] = Len(inbound'[x])
  BY <1>3 DEF PlacesOK
<1> QED
  BY <1>4, <1>5, <1>7, <1>8 DEF PlacesOK

\* A step that moves no unit.
LEMMA QuietStreams ==
  ASSUME StreamsOK, UNCHANGED <<script, written, inbound, got, joined>>,
         backlog' = backlog \/ backlog' = <<>>, batch' \subseteq batch,
         \A t \in Used' : t \in Used /\ AsBefore(connections[t], connections'[t])
  PROVE  StreamsOK'
  BY GotsKept, LinksKept, OutsKept, PlacesKept DEF StreamsOK

\* epoll_wait reports writability only to those that have a response.
LEMMA WaitStreams ==
  ASSUME IInv, StreamsOK, epoll_wait
  PROVE  StreamsOK'
<1> USE DEF epoll_wait
<1>1. UNCHANGED <<connections, script, written, inbound, got, joined, backlog>>
  BY DEF tableVars, worldVars, wireVars, clientVars
<1>2. Used' = Used
  BY <1>1 DEF Used
<1>3. \A t \in Used' : t \in Used /\ AsBefore(connections[t], connections'[t])
  BY <1>1, <1>2 DEF AsBefore, Same
<1>4. GotsOK' /\ LinksOK' /\ PlacesOK'
  BY <1>1, <1>3, GotsKept, LinksKept, PlacesKept DEF StreamsOK
<1>5. ASSUME NEW e \in batch', NEW s \in Used, connections[s].fd = e.fd, e.out
      PROVE  HasResponse(connections[s])
  <2>1. e \in Ready
    BY <1>5
  <2>2. \A fd : ~plain_event(fd).out
    BY DEF plain_event
  <2>3. PICK t \in Used : e = event(t)
    BY <1>5, <2>1, <2>2 DEF Ready
  <2>4. connections[t].fd = e.fd /\ connections[t].want_out
    BY <1>5, <2>3 DEF event
  <2>5. s = t
    BY <1>5, <2>4 DEF IInv, TableOK
  <2> QED
    BY <2>4, <2>5 DEF StreamsOK, LinksOK, WantOK
<1>6. OutsOK'
  BY <1>1, <1>2, <1>5 DEF OutsOK
<1> QED
  BY <1>4, <1>6 DEF StreamsOK

\* A step that closes connections and keeps the others as they were.
LEMMA DestroyStreams ==
  ASSUME StreamsOK, NEW code, server_destroy(code)
  PROVE  StreamsOK'
<1>1. UNCHANGED <<script, written, inbound, got, joined>> /\ backlog' = <<>> /\ batch' = {}
  BY DEF server_destroy, worldVars, wireVars, clientVars
<1>2. Used' = {}
  BY DEF server_destroy, Used, Free
<1> QED
  BY <1>1, <1>2, QuietStreams

\* expire_connections closes connections and moves no unit.
LEMMA ExpireStreams ==
  ASSUME StreamsOK, expire_connections
  PROVE  StreamsOK'
<1>1. UNCHANGED <<script, written, inbound, got, joined, backlog, batch>>
  BY DEF expire_connections, wireVars, clientVars
<1>2. \A t \in Slots : connections'[t] = Free \/ connections'[t] = connections[t]
  BY DEF expire_connections
<1>3. Free.fd = NoFd
  BY FreeIsConn
<1>4. \A t \in Used' : t \in Used /\ connections'[t] = connections[t]
  BY <1>2, <1>3 DEF Used
<1>5. \A t \in Used' : t \in Used /\ AsBefore(connections[t], connections'[t])
  BY <1>4 DEF AsBefore, Same
<1> QED
  BY <1>1, <1>5, QuietStreams

\* A table that does not change is as before.
LEMMA SameTableQuiet ==
  ASSUME UNCHANGED connections
  PROVE  Used' = Used /\ \A t \in Used' : t \in Used /\ AsBefore(connections[t], connections'[t])
  BY DEF Used, AsBefore, Same

\* Marking a connection for the drain moves no unit.
LEMMA MarkedAsBefore ==
  ASSUME NEW c, Conn(c)
  PROVE  AsBefore(c, marked(c))
<1> DEFINE v == c.fd # NoFd
           d == [c EXCEPT !.drain = v]
<1>1. d.fd = c.fd /\ d.peer = c.peer /\ d.input = c.input /\ d.request = c.request
      /\ d.sent = c.sent /\ d.out = c.out /\ d.want_out = c.want_out
  BY DEF Conn, ConnectionType
<1> QED
  BY <1>1 DEF AsBefore, Same, marked

\* A second that passes moves no unit.
LEMMA OlderAsBefore ==
  ASSUME NEW c, Conn(c)
  PROVE  AsBefore(c, older(c))
<1> DEFINE v == Lesser(c.age + 1, idle_timeout)
           w == IF c.input = <<>> THEN 0 ELSE Lesser(c.waited + 1, idle_timeout)
           d == [[c EXCEPT !.age = v] EXCEPT !.waited = w]
<1>1. older(c) = IF c.fd = NoFd THEN c ELSE d
  BY DEF older, Conn, ConnectionType
<1> HIDE DEF v, w
<1>2. d.fd = c.fd /\ d.peer = c.peer /\ d.input = c.input /\ d.request = c.request
      /\ d.sent = c.sent /\ d.out = c.out /\ d.want_out = c.want_out
  BY DEF Conn, ConnectionType
<1> HIDE DEF d
<1> QED
  BY <1>1, <1>2 DEF AsBefore, Same

\* A drain that begins, or has begun, moves no unit.
LEMMA DrainStreams ==
  ASSUME IInv, StreamsOK, begin_drain, batch' \subseteq batch,
         UNCHANGED <<script, written, inbound, got, joined>>
  PROVE  StreamsOK'
<1>1. backlog' = backlog \/ backlog' = <<>>
  BY DEF begin_drain
<1>2. ASSUME NEW t \in Slots PROVE AsBefore(connections[t], connections'[t])
  <2>1. connections'[t] = connections[t] \/ connections'[t] = marked(connections[t])
    BY DEF begin_drain
  <2>2. Conn(connections[t])
    BY KeptItself
  <2> QED
    BY <2>1, <2>2, MarkedAsBefore DEF AsBefore, Same
<1>3. \A t \in Used' : t \in Used /\ AsBefore(connections[t], connections'[t])
  BY <1>2 DEF Used, AsBefore, Same
<1> QED
  BY <1>1, <1>3, QuietStreams

\* A second moves no unit.
LEMMA TickStreams ==
  ASSUME IInv, StreamsOK, tick
  PROVE  StreamsOK'
<1>1. UNCHANGED <<script, written, inbound, got, joined, backlog, batch>>
  BY DEF tick, worldVars, wireVars, clientVars
<1>2. ASSUME NEW t \in Slots PROVE AsBefore(connections[t], connections'[t])
  <2>1. connections'[t] = older(connections[t])
    BY DEF tick
  <2> QED
    BY <2>1, KeptItself, OlderAsBefore
<1>3. \A t \in Used' : t \in Used /\ AsBefore(connections[t], connections'[t])
  BY <1>2 DEF Used, AsBefore, Same
<1> QED
  BY <1>1, <1>3, QuietStreams

\* The client at the head of the backlog leaves it.
LEMMA TailBacklog ==
  ASSUME backlog \in Seq(Clients), backlog # <<>>, PlacesOK, backlog' = Tail(backlog),
         joined' = joined, NEW x, x = Head(backlog)
  PROVE  /\ x \in Clients /\ Waiting(x) /\ ~(Waiting(x)')
         /\ \A i \in 1 .. Len(backlog') : i + 1 \in 1 .. Len(backlog) /\ backlog'[i] = backlog[i + 1]
         /\ \A y : Waiting(y)' => Waiting(y)
<1>1. Len(backlog) \in Nat \ {0} /\ x = backlog[1] /\ 1 \in 1 .. Len(backlog)
  BY EmptySeq
<1>2. /\ x \in Clients /\ Len(backlog') = Len(backlog) - 1
      /\ \A i \in 1 .. Len(backlog') : backlog'[i] = backlog[i + 1]
  BY HeadTailProperties
<1>3. \A i \in 1 .. Len(backlog') : i + 1 \in 1 .. Len(backlog) /\ i + 1 # 1
  BY <1>1, <1>2
<1>4. x \in joined
  BY <1>1 DEF PlacesOK
<1>5. \A i \in 1 .. Len(backlog') : backlog'[i] # x
  BY <1>1, <1>2, <1>3 DEF PlacesOK
<1>6. ~(Waiting(x)')
  BY <1>1, <1>4, <1>5 DEF Waiting
<1> QED
  BY <1>1, <1>2, <1>3, <1>6 DEF Waiting

\* The client that is accepted has sent everything that is on its wire and got nothing.
LEMMA AcceptStreams ==
  ASSUME IInv, StreamsOK, NEW epoll_adds \in BOOLEAN, accept_connection(epoll_adds)
  PROVE  StreamsOK'
<1> USE DEF accept_connection
<1>1. UNCHANGED <<script, written, inbound, got, joined, batch>> /\ backlog' = Tail(backlog)
  BY DEF worldVars, wireVars, clientVars
<1>2. PICK x : x = Head(backlog)
  OBVIOUS
<1>3. /\ x \in Clients /\ Waiting(x) /\ ~(Waiting(x)')
      /\ \A i \in 1 .. Len(backlog') : i + 1 \in 1 .. Len(backlog) /\ backlog'[i] = backlog[i + 1]
      /\ \A y : Waiting(y)' => Waiting(y)
  BY <1>1, <1>2, TailBacklog DEF IInv, Typed, WireTyped, StreamsOK
<1>4. GotsOK'
  BY <1>1, GotsKept DEF StreamsOK
<1>5. /\ \A i \in 1 .. Len(backlog') : backlog'[i] \in joined'
      /\ \A i, j \in 1 .. Len(backlog') : backlog'[i] = backlog'[j] => i = j
  <2>1. \A i, j \in 1 .. Len(backlog') : i \in Int /\ j \in Int
    OBVIOUS
  <2>2. \A i, j \in 1 .. Len(backlog') : i + 1 = j + 1 => i = j
    BY <2>1
  <2> QED
    BY <1>1, <1>3, <2>2 DEF StreamsOK, PlacesOK
<1>6. \A y \in Clients : Waiting(y)' => got'[y] = <<>> /\ written'[y] = Len(inbound'[y])
  BY <1>1, <1>3 DEF StreamsOK, PlacesOK
<1>7. \A s \in Used : \A y : y = connections[s].peer => y # x /\ ~(Waiting(y)')
  BY <1>3 DEF StreamsOK, PlacesOK
<1>8. CASE UNCHANGED tableVars
  <2>1. Used' = Used /\ \A t \in Used' : t \in Used /\ AsBefore(connections[t], connections'[t])
    BY <1>8, SameTableQuiet DEF tableVars
  <2>2. LinksOK' /\ OutsOK'
    BY <1>1, <2>1, LinksKept, OutsKept DEF StreamsOK
  <2>3. connections' = connections
    BY <1>8 DEF tableVars
  <2>4. \A s, t \in Used' : connections'[s].peer = connections'[t].peer => s = t
    BY <2>1, <2>3 DEF StreamsOK, PlacesOK
  <2>5. (\A s \in Used : ~Waiting(connections[s].peer))'
    BY <1>7, <2>1, <2>3 DEF Waiting
  <2>6. PlacesOK'
    BY <1>5, <1>6, <2>4, <2>5 DEF PlacesOK
  <2> QED
    BY <1>4, <2>2, <2>6 DEF StreamsOK
<1>9. CASE Used # Slots /\ epoll_adds
  <2> DEFINE s == Smallest(Slots \ Used)
             fd == free_fd
             c == Opened(fd, x)
  <2>1. s \in Slots /\ s \notin Used
    BY <1>9, FreeSlot
  <2>2. fd \in ConnectionFds /\ socket[fd] = NoClient
    BY FreeDescriptor DEF IInv, Typed
  <2>3. Conn(c) /\ c.fd = fd /\ c.peer = x /\ c.out = NoResponse
    BY <1>3, <2>2, OpenedFields
  <2>4. c.input = <<>> /\ c.want_out = FALSE
    BY DEF Opened, Free
  <2>5. connections' = [connections EXCEPT ![s] = c]
    BY <1>2, <1>9 DEF Opened
  <2> HIDE DEF s, fd, c
  <2>6. /\ connections'[s] = c /\ \A t \in Slots : t # s => connections'[t] = connections[t]
    BY <2>1, <2>5 DEF IInv, Typed, TableTyped
  <2>7. Used' = Used \cup {s}
    BY <2>1, <2>2, <2>3, <2>6, Constants DEF Used
  <2>8. \A t \in Used : connections'[t] = connections[t] /\ t # s
    BY <2>1, <2>6 DEF Used
  <2>9. ASSUME NEW d, d = c, NEW R, NEW g,
               R = written'[x] - Len(inbound'[x]), g = got'[x]
        PROVE  Linked(d, x, R, g)' /\ WantOK(d)
    <3>1. g = <<>> /\ written[x] = Len(inbound[x]) /\ Len(inbound[x]) \in Nat
      <4>1. inbound[x] \in Seq(Units)
        BY <1>3 DEF IInv, Typed, WireTyped
      <4> QED
        BY <1>1, <1>3, <2>9, <4>1, LenProperties DEF StreamsOK, PlacesOK
    <3>2. R = 0
      BY <1>1, <2>9, <3>1
    <3>3. Len(d.input) = 0 /\ Start(d, R) = 0
      <4>1. Len(<<>>) = 0
        BY EmptySeq
      <4>2. d.input = <<>>
        BY <2>4, <2>9
      <4>3. Len(d.input) = 0
        BY <4>1, <4>2
      <4> QED
        BY <3>2, <4>3 DEF Start
    <3>4. IsScript(script[x]) /\ Len(script[x]) \in Nat
      BY <1>3, ScriptUnits, ScriptsAssumption DEF IInv, Typed, ScriptsTyped
    <3>5. Boundary(script[x], 0, 0)
      BY <3>4, ScriptBegins
    <3>6. AtRest(d, x, R, g)
      <4>1. Len(g) = 0 * ResponseUnits /\ 0 \in Nat
        BY <3>1, EmptySeq, LimitsAssumption
      <4>2. Clean(g)
        BY <3>1, EmptySeq DEF Clean
      <4> QED
        BY <3>3, <3>5, <4>1, <4>2 DEF AtRest
    <3>7. Reads(d, x, Start(d, R)) /\ Start(d, R) + Len(d.input) <= Len(script[x])
      BY <3>3, <3>4 DEF Reads
    <3>8. Linked(d, x, R, g)
      BY <2>3, <2>9, <3>6, <3>7 DEF Linked
    <3> QED
      BY <1>1, <2>4, <2>9, <3>8, LinkedStays DEF WantOK
  <2>10. LinksOK'
    <3>1. ASSUME NEW t \in Used', NEW d, NEW R, NEW g, d = connections'[t],
                 R = written'[d.peer] - Len(inbound'[d.peer]), g = got'[d.peer]
          PROVE  Linked(d, d.peer, R, g)' /\ WantOK(d)
      <4>1. CASE t = s
        <5>1. d = c /\ d.peer = x
          BY <2>3, <2>6, <3>1, <4>1
        <5>2. R = written'[x] - Len(inbound'[x]) /\ g = got'[x]
          BY <3>1, <5>1
        <5>3. Linked(d, x, R, g)' /\ WantOK(d)
          BY <2>9, <5>1, <5>2
        <5> QED
          BY <5>1, <5>3
      <4>2. CASE t # s
        <5>1. t \in Used /\ connections'[t] = connections[t]
          BY <2>7, <2>8, <3>1, <4>2
        <5>2. Linked(d, d.peer, R, g) /\ WantOK(d)
          BY <1>1, <3>1, <5>1 DEF StreamsOK, LinksOK
        <5> QED
          BY <1>1, <5>2, LinkedStays
      <4> QED
        BY <4>1, <4>2
    <3> QED
      BY <3>1 DEF LinksOK
  <2>11. OutsOK'
    <3>1. ASSUME NEW e \in batch PROVE e.fd # fd
      <4>1. SUFFICES ASSUME e.fd = fd PROVE FALSE
        OBVIOUS
      <4>2. PICK t \in Slots : connections[t].fd = fd
        BY <2>2, <4>1 DEF IInv, EventsOK
      <4>3. t \in Used
        BY <2>2, <4>2, Constants DEF Used
      <4> QED
        BY <2>2, <4>2, <4>3, Constants DEF IInv, TableOK
    <3> QED
      BY <1>1, <2>3, <2>6, <2>7, <2>8, <3>1 DEF StreamsOK, OutsOK
  <2>12. PlacesOK'
    <3>1. \A t, u \in Used' : connections'[t].peer = connections'[u].peer => t = u
      BY <1>7, <2>3, <2>6, <2>7, <2>8 DEF StreamsOK, PlacesOK
    <3>2. (\A t \in Used : ~Waiting(connections[t].peer))'
      BY <1>3, <1>7, <2>3, <2>6, <2>7, <2>8 DEF Waiting
    <3> QED
      BY <1>5, <1>6, <3>1, <3>2 DEF PlacesOK
  <2> QED
    BY <1>4, <2>10, <2>11, <2>12 DEF StreamsOK
<1> QED
  BY <1>8, <1>9

\* To send nothing gives the client nothing.
LEMMA NothingSent ==
  ASSUME NEW c, NEW g \in Seq(GotUnit)
  PROVE  g \o response_units(c, 0) = g
<1>1. 1 .. 0 = {}
  OBVIOUS
<1>2. response_units(c, 0) = <<>>
  BY <1>1 DEF response_units
<1> QED
  BY <1>2, ConcatEmptySeq

\* An event moves its connection along the script, in the input and in what
\* the client gets.
LEMMA HandledLinks ==
  ASSUME IInv, StreamsOK, NEW e \in batch, NEW s \in Slots, connections[s].fd = e.fd,
         NEW c, c = connections[s], NEW x, x = c.peer,
         NEW R, R = written[x] - Len(inbound[x]), NEW g, g = got[x]
  PROVE  LET kept == was_kept(e, c)
             f == g \o response_units(was_read(e, c), units_out(e, c))
             Q == R + units_in(e, c) IN
         /\ f \in Seq(GotUnit) /\ GotOK(x, f)
         /\ kept = Free \/ (Linked(kept, x, Q, f) /\ WantOK(kept))
<1> DEFINE read == was_read(e, c)
           sent == was_sent(e, c)
           kept == was_kept(e, c)
           n == units_in(e, c)
           m == units_out(e, c)
           f == g \o response_units(read, m)
           Q == R + n
<1>1. /\ s \in Used /\ Conn(c) /\ x \in Clients
      /\ inbound[x] \in Seq(Units) /\ fin[x] \in BOOLEAN
      /\ room[x] \in Nat /\ ScriptsTyped /\ draining \in BOOLEAN
  BY HandledConnection
<1>2. /\ g \in Seq(GotUnit) /\ GotOK(x, g) /\ Follows(inbound[x], x, R) /\ R \in Nat
      /\ Linked(c, x, R, g) /\ WantOK(c)
  <2>1. PICK q : q = inbound[x]
    OBVIOUS
  <2>2. g \in Seq(GotUnit)
    BY <1>1 DEF StreamsOK, GotsOK
  <2>3. GotOK(x, g) /\ Follows(q, x, R)
    BY <1>1, <2>1 DEF StreamsOK, GotsOK
  <2>4. Linked(c, c.peer, R, g) /\ WantOK(c)
    BY <1>1 DEF StreamsOK, LinksOK
  <2>5. R \in Nat
    BY <2>3 DEF Follows
  <2> QED
    BY <2>1, <2>2, <2>3, <2>4, <2>5
<1>3. e.out => HasResponse(c)
  BY <1>1 DEF StreamsOK, OutsOK
<1>4. /\ read = IF e.in THEN read_connection(c) ELSE c
      /\ sent = IF read # Free /\ e.out THEN flush_connection(read) ELSE read
      /\ kept = IF sent # Free /\ e.hup /\ ~HasResponse(sent) THEN Free ELSE sent
      /\ m = IF read # Free /\ e.out THEN sendable(read) ELSE 0
      /\ n = IF e.in THEN taken(c) ELSE 0
  BY DEF was_read, was_sent, was_kept, units_in, units_out
<1>5. n \in Nat /\ (read # Free => Conn(read) /\ read.peer = x)
  <2>1. n \in 0 .. Len(inbound[c.peer]) /\ (read # Free => Kept(c, read))
    BY HandledOutcome
  <2> HIDE DEF read, n
  <2> QED
    BY <2>1 DEF Kept, Same
<1> HIDE DEF read, sent, kept, n, m
<1>6. Q \in Nat
  BY <1>2, <1>5
<1>7. \/ read = Free
      \/ Linked(read, x, Q, g) /\ WantOK(read) /\ (HasResponse(c) => HasResponse(read))
  <2>1. CASE e.in
    <3>1. read_connection(c) = Free \/ Linked(read_connection(c), x, R + taken(c), g)
      BY <1>1, <1>2, ReadLinks
    <3>2. \/ read_connection(c) = Free
          \/ /\ WantOK(read_connection(c))
             /\ HasResponse(c) => HasResponse(read_connection(c))
      BY <1>1, <1>2, ReadWants
    <3> QED
      BY <1>4, <2>1, <3>1, <3>2
  <2>2. CASE ~e.in
    <3>1. Q = R
      BY <1>2, <1>4, <2>2
    <3> QED
      BY <1>2, <1>4, <2>2, <3>1
  <2> QED
    BY <2>1, <2>2
<1> HIDE DEF Q, f
<1>8. /\ f \in Seq(GotUnit) /\ GotOK(x, f)
      /\ sent = Free \/ (Linked(sent, x, Q, f) /\ WantOK(sent))
  <2>1. CASE read # Free /\ e.out
    <3> DEFINE h == g \o response_units(read, sendable(read))
    <3>1. /\ Conn(read) /\ room[read.peer] \in Nat /\ HasResponse(read)
          /\ Linked(read, x, Q, g)
      BY <1>1, <1>3, <1>5, <1>7, <2>1
    <3>2. sendable(read) \in Nat /\ read.sent + sendable(read) <= ResponseUnits
      BY <3>1, SendableFacts
    <3>3. flush_connection(read) = Free \/ Linked(flush_connection(read), x, Q, h)
      BY <1>1, <1>2, <1>6, <3>1, FlushLinks
    <3>4. flush_connection(read) = Free \/ WantOK(flush_connection(read))
      BY <1>1, <3>1, FlushWants
    <3>5. GotOK(x, h)
      BY <1>1, <1>2, <3>1, <3>2, SendingKeepsGot
    <3>6. h \in Seq(GotUnit)
      BY <1>2, <3>1, <3>2, UnitsSent DEF Gains
    <3>7. f = h /\ sent = flush_connection(read)
      BY <1>4, <2>1 DEF f
    <3> HIDE DEF h
    <3> QED
      BY <3>3, <3>4, <3>5, <3>6, <3>7
  <2>2. CASE ~(read # Free /\ e.out)
    <3>1. m = 0 /\ sent = read
      BY <1>4, <2>2
    <3>2. f = g
      BY <1>2, <3>1, NothingSent DEF f
    <3> QED
      BY <1>2, <1>7, <3>1, <3>2
  <2> QED
    BY <2>1, <2>2
<1>9. kept = Free \/ (Linked(kept, x, Q, f) /\ WantOK(kept))
  BY <1>4, <1>8
<1> QED
  BY <1>8, <1>9 DEF read, kept, n, m, Q, f

\* What is left of the units on their way once n have been read.
LEMMA FollowsRest ==
  ASSUME NEW x, NEW R, NEW q \in Seq(Units), Follows(q, x, R), NEW n \in 0 .. Len(q)
  PROVE  LET p == SubSeq(q, n + 1, Len(q)) IN
         /\ Follows(p, x, R + n) /\ Len(p) = Len(q) - n
<1> DEFINE L == Len(q)
           a == n + 1
           p == SubSeq(q, a, L)
<1>1. L \in Nat /\ n \in Nat /\ R \in Nat /\ R + L <= Len(script[x])
      /\ \A i \in 1 .. L : q[i] = script[x][R + i]
  BY LenProperties DEF Follows
<1>2. a \in Int /\ L \in Int /\ \A i \in a .. L : i \in 1 .. Len(q)
  BY <1>1
<1>3. \A i \in a .. L : q[i] \in Units
  BY <1>2, ElementOfSeq
<1> HIDE DEF L, a
<1>4. /\ Len(p) = IF a <= L THEN L - a + 1 ELSE 0
      /\ \A i \in 1 .. L - a + 1 : p[i] = q[a + i - 1]
  BY <1>2, <1>3, SubSeqProperties
<1> HIDE DEF p
<1>5. Len(p) = L - n
  BY <1>1, <1>4 DEF a, L
<1>6. ASSUME NEW i \in 1 .. Len(p) PROVE p[i] = script[x][R + n + i]
  <2>1. i \in 1 .. L - a + 1 /\ a + i - 1 = n + i /\ n + i \in 1 .. L
    BY <1>1, <1>5 DEF a, L
  <2>2. R + (n + i) = R + n + i
    BY <1>1, <2>1
  <2> QED
    BY <1>1, <1>4, <2>1, <2>2
<1>7. R + n \in Nat /\ R + n + Len(p) = R + L
  BY <1>1, <1>5
<1>8. Follows(p, x, R + n)
  BY <1>1, <1>6, <1>7 DEF Follows
<1> QED
  BY <1>5, <1>8 DEF a, L, p

\* The dispatch of an event, whatever it does to its connection.
LEMMA HandleStreams ==
  ASSUME IInv, StreamsOK, NEW e \in batch, NEW s \in Slots, handle_event(e, s)
  PROVE  StreamsOK'
<1>1. PICK c, x, R, g : /\ c = connections[s] /\ x = c.peer
                        /\ R = written[x] - Len(inbound[x]) /\ g = got[x]
  OBVIOUS
<1>2. PICK kept, n, f, p :
        /\ kept = was_kept(e, c) /\ n = units_in(e, c)
        /\ f = g \o response_units(was_read(e, c), units_out(e, c))
        /\ p = SubSeq(inbound[x], n + 1, Len(inbound[x]))
  OBVIOUS
<1>3. /\ c.fd = e.fd /\ batch' = batch \ {e}
      /\ connections' = [connections EXCEPT ![s] = kept]
      /\ UNCHANGED <<script, written, joined, backlog>>
  BY <1>1, <1>2, HandleCases DEF clientVars
<1>4. /\ inbound' = [inbound EXCEPT ![x] = SubSeq(@, n + 1, Len(@))]
      /\ got' = [got EXCEPT ![x] = @ \o response_units(was_read(e, c), units_out(e, c))]
  BY <1>1, <1>2, HandleCases
<1>5. s \in Used /\ x \in Clients /\ inbound[x] \in Seq(Units)
  BY <1>1, <1>3, HandledConnection
<1>6. Outcome(c, kept) /\ n \in 0 .. Len(inbound[x])
  BY <1>1, <1>2, <1>3, HandledOutcome
<1>7. /\ f \in Seq(GotUnit) /\ GotOK(x, f)
      /\ kept = Free \/ (Linked(kept, x, R + n, f) /\ WantOK(kept))
  BY <1>1, <1>2, <1>3, HandledLinks
<1>8. Follows(p, x, R + n) /\ Len(p) = Len(inbound[x]) - n
  <2>1. Follows(inbound[x], x, R)
    BY <1>1, <1>5, SMTT(40) DEF StreamsOK, GotsOK
  <2> QED
    BY <1>2, <1>5, <1>6, <2>1, FollowsRest
<1>9. /\ inbound'[x] = p /\ \A y \in Clients : y # x => inbound'[y] = inbound[y]
      /\ got'[x] = f /\ \A y \in Clients : y # x => got'[y] = got[y]
      /\ got' \in [Clients -> Seq(GotUnit)]
  BY <1>1, <1>2, <1>4, <1>5, <1>7 DEF IInv, Typed, WireTyped, StreamsOK, GotsOK
<1>10. written'[x] - Len(inbound'[x]) = R + n
  <2>1. written[x] \in Nat /\ Len(inbound[x]) \in Nat
    BY <1>5, LenProperties DEF IInv, Typed, WrittenTyped
  <2>2. written'[x] = written[x] /\ Len(inbound'[x]) = Len(inbound[x]) - n
    BY <1>3, <1>8, <1>9
  <2> QED
    BY <1>1, <1>6, <2>1, <2>2
<1>11. GotsOK'
  <2>1. ASSUME NEW y \in Clients, NEW h, NEW q, NEW Q,
               h = got'[y], q = inbound'[y], Q = written'[y] - Len(inbound'[y])
        PROVE  GotOK(y, h)' /\ Follows(q, y, Q)'
    <3>1. CASE y = x
      <4>1. GotOK(y, h) /\ Follows(q, y, Q)
        BY <1>7, <1>8, <1>9, <1>10, <2>1, <3>1
      <4> QED
        BY <1>3, <4>1, GotStays
    <3>2. CASE y # x
      <4>1. GotOK(y, h) /\ Follows(q, y, Q)
        BY <1>3, <1>9, <2>1, <3>2 DEF StreamsOK, GotsOK
      <4> QED
        BY <1>3, <4>1, GotStays
    <3> QED
      BY <3>1, <3>2
  <2> QED
    BY <1>9, <2>1 DEF GotsOK
<1>12. /\ connections'[s] = kept
       /\ \A t \in Slots : t # s => connections'[t] = connections[t]
  BY <1>3 DEF IInv, Typed, TableTyped
<1>13. s \in Used' => kept # Free /\ Same(c, kept) /\ Linked(kept, x, R + n, f) /\ WantOK(kept)
  BY <1>6, <1>7, <1>12, FreeIsConn DEF Used, Outcome, Kept
<1>14. \A t \in Used' : t # s => t \in Used /\ connections'[t] = connections[t]
  BY <1>12 DEF Used
<1>15. \A t \in Used : connections[t].peer \in Clients /\ (t # s => connections[t].peer # x)
  BY <1>1, <1>5 DEF StreamsOK, PlacesOK, IInv, TableOK
<1>16. LinksOK'
  <2>1. ASSUME NEW t \in Used', NEW d, NEW Q, NEW h, d = connections'[t],
               Q = written'[d.peer] - Len(inbound'[d.peer]), h = got'[d.peer]
        PROVE  Linked(d, d.peer, Q, h)' /\ WantOK(d)
    <3>1. CASE t = s
      <4>1. d = kept /\ d.peer = x
        BY <1>1, <1>12, <1>13, <2>1, <3>1 DEF Same
      <4>2. Q = R + n /\ h = f
        BY <1>9, <1>10, <2>1, <4>1
      <4>3. Linked(d, d.peer, Q, h) /\ WantOK(d)
        BY <1>13, <2>1, <3>1, <4>1, <4>2
      <4> QED
        BY <1>3, <4>3, LinkedStays
    <3>2. CASE t # s
      <4>1. t \in Used /\ d = connections[t] /\ d.peer \in Clients /\ d.peer # x
        BY <1>14, <1>15, <2>1, <3>2
      <4>2. Q = written[d.peer] - Len(inbound[d.peer]) /\ h = got[d.peer]
        BY <1>3, <1>9, <2>1, <4>1
      <4>3. Linked(d, d.peer, Q, h) /\ WantOK(d)
        BY <4>1, <4>2 DEF StreamsOK, LinksOK
      <4> QED
        BY <1>3, <4>3, LinkedStays
    <3> QED
      BY <3>1, <3>2
  <2> QED
    BY <2>1 DEF LinksOK
<1>17. OutsOK'
  <2>1. ASSUME NEW a \in batch', NEW t \in Used', connections'[t].fd = a.fd, a.out
        PROVE  HasResponse(connections'[t])
    <3>1. a \in batch /\ a # e
      BY <1>3, <2>1
    <3>2. t # s
      <4>1. a.fd # e.fd
        BY <3>1 DEF IInv, EventsOK
      <4> QED
        BY <1>3, <1>12, <1>13, <2>1, <4>1 DEF Same
    <3> QED
      BY <1>14, <2>1, <3>1, <3>2 DEF StreamsOK, OutsOK
  <2> QED
    BY <2>1 DEF OutsOK
<1>18. PlacesOK'
  <2>1. \A t \in Used' : t \in Used /\ connections'[t].peer = connections[t].peer
    BY <1>1, <1>5, <1>12, <1>13, <1>14 DEF Same
  <2>2. \A t, u \in Used' : connections'[t].peer = connections'[u].peer => t = u
    BY <2>1 DEF StreamsOK, PlacesOK
  <2>3. \A y : Waiting(y)' <=> Waiting(y)
    BY <1>3 DEF Waiting
  <2>4. (\A t \in Used : ~Waiting(connections[t].peer))'
    BY <1>3, <2>1 DEF StreamsOK, PlacesOK, Waiting
  <2>5. ~Waiting(x)
    BY <1>1, <1>5 DEF StreamsOK, PlacesOK
  <2>6. \A y \in Clients : Waiting(y)' => got'[y] = <<>> /\ written'[y] = Len(inbound'[y])
    BY <1>3, <1>9, <2>3, <2>5 DEF StreamsOK, PlacesOK
  <2> QED
    BY <1>3, <2>2, <2>4, <2>6 DEF StreamsOK, PlacesOK
<1> QED
  BY <1>11, <1>16, <1>17, <1>18 DEF StreamsOK

\* A client connects once, and has sent and got nothing before.
LEMMA ConnectsStreams ==
  ASSUME IInv, StreamsOK, NEW x \in Clients, client_connects(x)
  PROVE  StreamsOK'
<1> USE DEF client_connects
<1>1. /\ UNCHANGED <<script, written, inbound, got, batch, connections>>
      /\ joined' = joined \cup {x} /\ backlog' = Append(backlog, x) /\ x \notin joined
  BY DEF serverVars, tableVars, wireVars
<1>2. Used' = Used /\ \A t \in Used' : t \in Used /\ AsBefore(connections[t], connections'[t])
  BY <1>1, SameTableQuiet
<1>3. GotsOK' /\ LinksOK' /\ OutsOK'
  BY <1>1, <1>2, GotsKept, LinksKept, OutsKept DEF StreamsOK
<1>4. /\ Len(backlog') = Len(backlog) + 1 /\ Len(backlog) \in Nat
      /\ backlog'[Len(backlog) + 1] = x
      /\ \A i \in 1 .. Len(backlog) : backlog'[i] = backlog[i]
  <2>1. backlog \in Seq(Clients)
    BY DEF IInv, Typed, WireTyped
  <2>2. Len(backlog) \in Nat
    BY <2>1, LenProperties
  <2>3. /\ Len(Append(backlog, x)) = Len(backlog) + 1
        /\ \A i \in 1 .. Len(backlog) : Append(backlog, x)[i] = backlog[i]
        /\ Append(backlog, x)[Len(backlog) + 1] = x
    BY <2>1, AppendProperties
  <2> QED
    BY <1>1, <2>2, <2>3
<1>5. \A i \in 1 .. Len(backlog') :
        i \in 1 .. Len(backlog) \/ (backlog'[i] = x /\ i = Len(backlog'))
  BY <1>4
<1>6. \A i \in 1 .. Len(backlog) : backlog[i] # x
  BY <1>1 DEF StreamsOK, PlacesOK
<1>7. Waiting(x)
  BY <1>1 DEF Waiting
<1>8. \A y : Waiting(y)' => Waiting(y)
  BY <1>1, <1>4, <1>5, <1>7 DEF Waiting
<1>9. PlacesOK'
  <2>1. \A t, u \in Used' : connections'[t].peer = connections'[u].peer => t = u
    BY <1>1, <1>2 DEF StreamsOK, PlacesOK
  <2>2. (\A t \in Used : ~Waiting(connections[t].peer))'
    <3>1. ASSUME NEW t \in Used'
          PROVE  /\ connections'[t].peer \in joined'
                 /\ \A i \in 1 .. Len(backlog') : backlog'[i] # connections'[t].peer
      <4>1. t \in Used /\ ~Waiting(connections[t].peer) /\ connections' = connections
        BY <1>1, <1>2, <3>1 DEF StreamsOK, PlacesOK
      <4>2. connections[t].peer # x
        BY <1>7, <4>1
      <4> QED
        BY <1>1, <1>4, <1>5, <4>1, <4>2 DEF Waiting
    <3> QED
      BY <3>1 DEF Waiting
  <2>3. /\ \A i \in 1 .. Len(backlog') : backlog'[i] \in joined'
        /\ \A i, j \in 1 .. Len(backlog') : backlog'[i] = backlog'[j] => i = j
    BY <1>1, <1>4, <1>5, <1>6 DEF StreamsOK, PlacesOK
  <2>4. \A y \in Clients : Waiting(y)' => got'[y] = <<>> /\ written'[y] = Len(inbound'[y])
    BY <1>1, <1>8 DEF StreamsOK, PlacesOK
  <2> QED
    BY <2>1, <2>2, <2>3, <2>4 DEF PlacesOK
<1> QED
  BY <1>3, <1>9 DEF StreamsOK

\* p is q and the next n units of the script of x, of which w are written.
Arrives(p, q, x, w, n) == p = q \o SubSeq(script[x], w + 1, w + n)

\* What a client sends follows what it has sent.
LEMMA FollowsMore ==
  ASSUME NEW x, script[x] \in Seq(Units), NEW w \in Nat, NEW q \in Seq(Units),
         NEW R \in Nat, w = R + Len(q), Follows(q, x, R), NEW n \in Nat, w + n <= Len(script[x]),
         NEW p, Arrives(p, q, x, w, n)
  PROVE  Follows(p, x, R) /\ R = w + n - Len(p)
<1> DEFINE L == Len(q)
           a == w + 1
           b == w + n
           more == SubSeq(script[x], a, b)
<1>0. p = q \o more
  BY DEF Arrives
<1>1. /\ L \in Nat /\ R \in Nat /\ w = R + L /\ Len(script[x]) \in Nat
      /\ \A i \in 1 .. L : q[i] = script[x][R + i]
  BY LenProperties DEF Follows
<1>2. a \in Int /\ b \in Int /\ \A i \in a .. b : i \in 1 .. Len(script[x])
  BY <1>1
<1>3. \A i \in a .. b : script[x][i] \in Units
  BY <1>2, ElementOfSeq
<1> HIDE DEF a, b
<1>4. /\ more \in Seq(Units) /\ Len(more) = IF a <= b THEN b - a + 1 ELSE 0
      /\ \A i \in 1 .. b - a + 1 : more[i] = script[x][a + i - 1]
  BY <1>2, <1>3, SubSeqProperties
<1> HIDE DEF more
<1>5. Len(more) = n /\ b - a + 1 = n
  BY <1>1, <1>4 DEF a, b
<1>6. /\ Len(p) = Len(q) + Len(more)
      /\ \A i \in 1 .. Len(q) + Len(more) :
           p[i] = IF i <= Len(q) THEN q[i] ELSE more[i - Len(q)]
  <2> DEFINE v == q \o more
  <2>1. /\ Len(v) = Len(q) + Len(more)
        /\ \A i \in 1 .. Len(q) + Len(more) :
             v[i] = IF i <= Len(q) THEN q[i] ELSE more[i - Len(q)]
    BY <1>4, ConcatProperties
  <2>2. p = v
    BY <1>0
  <2> HIDE DEF v
  <2> QED
    BY <2>1, <2>2
<1>7. Len(p) = L + n /\ \A i \in 1 .. L + n : p[i] = IF i <= L THEN q[i] ELSE more[i - L]
  BY <1>5, <1>6
<1> HIDE DEF L
<1>8. ASSUME NEW i \in 1 .. L + n PROVE p[i] = script[x][R + i]
  <2>1. CASE i <= L
    <3>1. i \in 1 .. L
      BY <1>1, <2>1
    <3> QED
      BY <1>1, <1>7, <2>1, <3>1
  <2>2. CASE ~(i <= L)
    <3>1. i - L \in 1 .. n /\ a + (i - L) - 1 = R + i
      <4>1. L \in Nat /\ R \in Nat /\ w = R + L /\ i \in Int /\ i <= L + n /\ i > L
        BY <1>1, <2>2
      <4>2. a + (i - L) - 1 = w + (i - L)
        BY <4>1 DEF a
      <4>3. w + (i - L) = R + i
        BY <4>1
      <4> QED
        BY <4>1, <4>2, <4>3, SMTT(40)
    <3>2. p[i] = more[i - L]
      BY <1>7, <2>2
    <3>3. more[i - L] = script[x][a + (i - L) - 1]
      BY <1>4, <1>5, <3>1
    <3> QED
      BY <3>1, <3>2, <3>3
  <2> QED
    BY <2>1, <2>2
<1>9. R + Len(p) = w + n /\ R = w + n - Len(p)
  <2>1. L \in Nat /\ R \in Nat /\ w = R + L /\ Len(p) = L + n
    BY <1>1, <1>7
  <2> QED
    BY <2>1, SMTT(40)
<1>10. Follows(p, x, R)
  BY <1>1, <1>7, <1>8, <1>9 DEF Follows
<1> QED
  BY <1>9, <1>10

\* A client goes on with its script.
LEMMA SendsStreams ==
  ASSUME IInv, StreamsOK, NEW x \in Clients,
         NEW n \in 1 .. Len(script[x]) - written[x], client_sends(x, n)
  PROVE  StreamsOK'
<1> USE DEF client_sends
<1>1. UNCHANGED <<script, got, batch, connections, joined, backlog>>
  BY DEF serverVars, tableVars
<1>2. PICK w, q, p : /\ w = written[x] /\ q = inbound[x]
                     /\ Arrives(p, q, x, w, n)
  BY DEF Arrives
<1>3. /\ script[x] \in Seq(Units) /\ Len(script[x]) \in Nat /\ w \in Nat /\ q \in Seq(Units)
      /\ n \in Nat /\ w + n <= Len(script[x]) /\ Len(q) \in Nat
  <2>1. w \in Nat /\ q \in Seq(Units) /\ script[x] \in Seq(Units) /\ Len(script[x]) \in Nat
    BY <1>2, ScriptUnits DEF IInv, Typed, WrittenTyped, WireTyped
  <2> QED
    BY <1>2, <2>1, LenProperties
<1>4. /\ inbound'[x] = p /\ \A y \in Clients : y # x => inbound'[y] = inbound[y]
      /\ written'[x] = w + n /\ \A y \in Clients : y # x => written'[y] = written[y]
  BY <1>2 DEF Arrives, IInv, Typed, WireTyped, WrittenTyped
<1> HIDE DEF client_sends
<1>5. PICK R \in Nat : w = R + Len(q) /\ Follows(q, x, R)
  <2>1. \A R : R = written[x] - Len(inbound[x]) => R \in Nat /\ Follows(q, x, R)
    BY <1>2 DEF StreamsOK, GotsOK, Follows
  <2>2. w - Len(q) \in Nat /\ Follows(q, x, w - Len(q))
    BY <1>2, <2>1
  <2>3. w = (w - Len(q)) + Len(q)
    BY <1>3
  <2> QED
    BY <2>2, <2>3
<1>7. Follows(p, x, R) /\ R = w + n - Len(p)
  <2>1. script[x] \in Seq(Units) /\ n \in Nat /\ w + n <= Len(script[x])
    BY <1>3
  <2>2. w \in Nat /\ q \in Seq(Units) /\ R \in Nat /\ w = R + Len(q) /\ Follows(q, x, R)
    BY <1>3, <1>5
  <2>3. Arrives(p, q, x, w, n)
    BY <1>2
  <2> QED
    BY <2>1, <2>2, <2>3, FollowsMore
\* The place in the script that the server has reached is the same.
<1>8. \A y \in Clients : written'[y] - Len(inbound'[y]) = written[y] - Len(inbound[y])
  <2>1. written'[x] - Len(inbound'[x]) = written[x] - Len(inbound[x])
    <3>1. written'[x] = w + n /\ inbound'[x] = p
      BY <1>4
    <3>2. written[x] = w /\ inbound[x] = q
      BY <1>2
    <3>3. w + n - Len(p) = w - Len(q)
      BY <1>3, <1>5, <1>7
    <3>4. written'[x] - Len(inbound'[x]) = w + n - Len(p)
      <4>1. Len(inbound'[x]) = Len(p)
        BY <3>1
      <4> QED
        BY <1>3, <3>1, <4>1
    <3>5. written[x] - Len(inbound[x]) = w - Len(q)
      BY <3>2
    <3> QED
      BY <3>3, <3>4, <3>5
  <2> QED
    BY <1>4, <2>1
<1>9. GotsOK'
  <2>1. ASSUME NEW y \in Clients, NEW h, NEW r, NEW Q,
               h = got'[y], r = inbound'[y], Q = written'[y] - Len(inbound'[y])
        PROVE  GotOK(y, h)' /\ Follows(r, y, Q)'
    <3>1. GotOK(y, h)
      BY <1>1, <2>1 DEF StreamsOK, GotsOK
    <3>2. CASE y = x
      <4>1. Follows(r, y, Q)
        BY <1>2, <1>4, <1>5, <1>7, <1>8, <2>1, <3>2
      <4> QED
        BY <1>1, <3>1, <4>1, GotStays
    <3>3. CASE y # x
      <4>1. Follows(r, y, Q)
        BY <1>4, <2>1, <3>3 DEF StreamsOK, GotsOK
      <4> QED
        BY <1>1, <3>1, <4>1, GotStays
    <3> QED
      BY <3>2, <3>3
  <2>2. got' \in [Clients -> Seq(GotUnit)]
    BY <1>1 DEF StreamsOK, GotsOK
  <2> QED
    BY <2>1, <2>2 DEF GotsOK
<1>10. Used' = Used
  BY <1>1 DEF Used
<1>11. LinksOK'
  <2>1. ASSUME NEW t \in Used, NEW d, NEW Q, NEW h, d = connections'[t],
               Q = written'[d.peer] - Len(inbound'[d.peer]), h = got'[d.peer]
        PROVE  Linked(d, d.peer, Q, h)' /\ WantOK(d)
    <3>1. d = connections[t] /\ d.peer \in Clients
      BY <1>1, <2>1 DEF IInv, TableOK
    <3>2. Q = written[d.peer] - Len(inbound[d.peer]) /\ h = got[d.peer]
      BY <1>1, <1>8, <2>1, <3>1
    <3>3. Linked(d, d.peer, Q, h) /\ WantOK(d)
      BY <3>1, <3>2 DEF StreamsOK, LinksOK
    <3> QED
      BY <1>1, <3>3, LinkedStays
  <2> QED
    BY <1>10, <2>1 DEF LinksOK
<1>12. OutsOK'
  BY <1>1, <1>10 DEF StreamsOK, OutsOK
<1>13. \A y : Waiting(y)' <=> Waiting(y)
  BY <1>1 DEF Waiting
<1>14. ASSUME NEW y \in Clients, Waiting(y) PROVE written'[y] = Len(inbound'[y])
  <2>1. got[y] = <<>> /\ written[y] = Len(inbound[y])
    BY <1>14 DEF StreamsOK, PlacesOK
  <2>2. CASE y = x
    <3>1. w = Len(q)
      BY <1>2, <2>1, <2>2
    <3>2. R = 0
      BY <1>3, <1>5, <3>1
    <3>3. Len(p) \in Nat
      <4>1. Units' = Units /\ IInv'
        BY <1>1, SendsHolds, TypesStay
      <4>2. p \in Seq(Units)
        BY <1>4, <4>1 DEF IInv, Typed, WireTyped
      <4> QED
        BY <4>2, LenProperties
    <3>4. w + n = Len(p)
      BY <1>3, <1>7, <3>2, <3>3
    <3> QED
      BY <1>4, <2>2, <3>4
  <2>3. CASE y # x
    BY <1>4, <2>1, <2>3
  <2> QED
    BY <2>2, <2>3
<1>15. PlacesOK'
  <2>1. (\A t \in Used : ~Waiting(connections[t].peer))'
    BY <1>1, <1>10, <1>13 DEF StreamsOK, PlacesOK, Waiting
  <2>2. \A y \in Clients : Waiting(y)' => got'[y] = <<>> /\ written'[y] = Len(inbound'[y])
    BY <1>1, <1>13, <1>14 DEF StreamsOK, PlacesOK
  <2> QED
    BY <1>1, <1>10, <2>1, <2>2 DEF StreamsOK, PlacesOK
<1> QED
  BY <1>9, <1>11, <1>12, <1>15 DEF StreamsOK

\* Before any client connects, nothing is on its way.
LEMMA InitStreams ==
  ASSUME Init
  PROVE  StreamsOK
<1> USE DEF Init
<1>1. Used = {}
  BY DEF Used, Free
<1>2. <<>> \in Seq(GotUnit) /\ Len(<<>>) = 0 /\ DOMAIN <<>> = {}
  BY EmptySeq, LenProperties
<1>3. ASSUME NEW x \in Clients PROVE GotOK(x, <<>>) /\ Follows(<<>>, x, 0)
  <2>1. Len(script[x]) \in Nat
    BY ScriptUnits DEF ScriptsTyped
  <2> QED
    BY <1>2, <2>1 DEF GotOK, InOrder, CloseIsLast, Honest, Follows
<1>4. \A x \in Clients : got[x] = <<>> /\ inbound[x] = <<>> /\ written[x] = 0
  OBVIOUS
<1>5. GotsOK
  <2>1. got \in [Clients -> Seq(GotUnit)]
    BY <1>2
  <2>2. ASSUME NEW x \in Clients, NEW g, NEW q, NEW R,
               g = got[x], q = inbound[x], R = written[x] - Len(inbound[x])
        PROVE  GotOK(x, g) /\ Follows(q, x, R)
    <3>1. g = <<>> /\ q = <<>> /\ R = 0
      BY <1>2, <1>4, <2>2
    <3> QED
      BY <1>3, <3>1
  <2> QED
    BY <2>1, <2>2 DEF GotsOK
<1>6. LinksOK /\ OutsOK
  BY <1>1 DEF LinksOK, OutsOK
<1>7. PlacesOK
  BY <1>1, <1>2, <1>4 DEF PlacesOK
<1> QED
  BY <1>5, <1>6, <1>7 DEF StreamsOK

\* Every step of the loop.
LEMMA LoopStreams ==
  ASSUME IInv, StreamsOK, Loop
  PROVE  StreamsOK'
<1>1. CASE loop_exits
  BY <1>1, DestroyStreams DEF loop_exits
<1>2. CASE epoll_wait
  BY <1>2, WaitStreams
<1>3. CASE epoll_wait_fails
  BY <1>3, DestroyStreams DEF epoll_wait_fails
<1>4. CASE accept_would_block
  BY <1>4, SameTableQuiet, QuietStreams
     DEF accept_would_block, tableVars, worldVars, wireVars, clientVars
<1>5. CASE accept_fails
  BY <1>5, DrainStreams DEF accept_fails, worldVars, wireVars, clientVars
<1>6. CASE \E adds \in BOOLEAN : accept_connection(adds)
  BY <1>6, AcceptStreams
<1>7. CASE expire_connections
  BY <1>7, ExpireStreams
<1>8. ASSUME NEW e \in batch, accept_begins(e) \/ skip_event(e) PROVE StreamsOK'
  <2>1. /\ batch' \subseteq batch
        /\ UNCHANGED <<connections, backlog, script, written, inbound, got, joined>>
    BY <1>8 DEF accept_begins, skip_event, tableVars, worldVars, wireVars, clientVars
  <2> QED
    BY <2>1, SameTableQuiet, QuietStreams
<1>9. ASSUME NEW e \in batch, NEW reads \in BOOLEAN, consume_signals(e, reads)
      PROVE  StreamsOK'
  BY <1>9, DrainStreams DEF consume_signals, worldVars, wireVars, clientVars
<1>10. CASE \E e \in batch, s \in Slots : handle_event(e, s)
  BY <1>10, HandleStreams
<1> QED
  BY <1>1, <1>2, <1>3, <1>4, <1>5, <1>6, <1>7, <1>8, <1>9, <1>10 DEF Loop

\* Every step of the server and of the clients.
LEMMA NextStreams == IInv /\ StreamsOK /\ [Next]_vars => StreamsOK'
<1> SUFFICES ASSUME IInv, StreamsOK, [Next]_vars PROVE StreamsOK'
  OBVIOUS
<1>1. ASSUME UNCHANGED <<connections, batch, backlog, script, written, inbound, got, joined>>
      PROVE  StreamsOK'
  BY <1>1, SameTableQuiet, QuietStreams
<1>2. CASE UNCHANGED vars
  BY <1>1, <1>2 DEF vars, serverVars, tableVars, worldVars, wireVars, clientVars
<1>3. ASSUME NEW acceptable \in BOOLEAN, kofun_http_route(acceptable) PROVE StreamsOK'
  BY <1>1, <1>3 DEF kofun_http_route, tableVars, worldVars, wireVars, clientVars
<1>4. CASE run_refused
  BY <1>4, DestroyStreams DEF run_refused
<1>5. CASE run_starts \/ terminate
  BY <1>1, <1>5 DEF run_starts, terminate, serverVars, tableVars, worldVars, wireVars, clientVars
<1>6. CASE Loop
  BY <1>6, LoopStreams
<1>7. ASSUME NEW c \in Clients, client_shuts(c) \/ client_aborts(c) \/ client_reads(c)
      PROVE  StreamsOK'
  BY <1>1, <1>7 DEF client_shuts, client_aborts, client_reads, serverVars, tableVars, clientVars
<1>8. ASSUME NEW c \in Clients, client_connects(c) PROVE StreamsOK'
  BY <1>8, ConnectsStreams
<1>9. ASSUME NEW c \in Clients, NEW n \in 1 .. Len(script[c]) - written[c], client_sends(c, n)
      PROVE  StreamsOK'
  BY <1>9, SendsStreams
<1>10. CASE tick
  BY <1>10, TickStreams
<1> QED
  BY <1>2, <1>3, <1>4, <1>5, <1>6, <1>7, <1>8, <1>9, <1>10 DEF Next

\* Every connection stays tied to its client's script: what is read, what is
\* buffered and what is answered follow each other in it, for any scripts,
\* any buffer sizes and any number of clients and slots.
THEOREM StreamsStayTied == Spec => []StreamsOK
<1>1. Init => StreamsOK
  BY InitStreams
<1>2. IInv /\ StreamsOK /\ [Next]_vars => StreamsOK'
  BY NextStreams
<1> QED
  BY <1>1, <1>2, Inductive, PTL DEF Spec

\* What the properties say is a part of what ties the streams.
LEMMA StreamsGive == StreamsOK => ResponsesInOrder /\ NothingAfterClose /\ StatusIsDeserved
<1> SUFFICES ASSUME StreamsOK PROVE ResponsesInOrder /\ NothingAfterClose /\ StatusIsDeserved
  OBVIOUS
<1>1. ASSUME NEW x \in Clients PROVE GotOK(x, got[x])
  BY DEF StreamsOK, GotsOK
<1>2. ResponsesInOrder
  BY <1>1 DEF GotOK, InOrder, ResponsesInOrder
<1>3. NothingAfterClose
  BY <1>1 DEF GotOK, CloseIsLast, NothingAfterClose
<1>4. StatusIsDeserved
  BY <1>1 DEF GotOK, Honest, StatusIsDeserved
<1> QED
  BY <1>2, <1>3, <1>4

\* A client reads whole responses in the order of its requests, however the
\* requests were cut and however the sends were interrupted.
THEOREM AnswersAreInOrder == Spec => []ResponsesInOrder
  BY StreamsStayTied, StreamsGive, PTL

\* A response that announces the end of the connection is the last one.
THEOREM CloseEndsTheStream == Spec => []NothingAfterClose
  BY StreamsStayTied, StreamsGive, PTL

\* Every request gets the status that the whole script says it deserves.
THEOREM AnswersAreDeserved == Spec => []StatusIsDeserved
  BY StreamsStayTied, StreamsGive, PTL

=============================================================================
