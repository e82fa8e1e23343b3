------------------------ MODULE LanguageServerProofs ------------------------
(***************************************************************************)
(* Proofs about LanguageServer, for any documents, texts and versions, and   *)
(* any number of openings, changes and crashes.                             *)
(*                                                                          *)
(* IInv is inductive: what a document keeps was computed from the text it    *)
(* has, because a result is taken only by a document whose text is the one   *)
(* captured, and every whole change drops what was kept.                    *)
(*                                                                          *)
(* The second part proves from IInv a second invariant, about the analyses   *)
(* that are under way: Flight, Service and Rejected.                        *)
(***************************************************************************)
EXTENDS LanguageServer, SequenceTheorems, TLAPS

States == Settled \cup {"pending", "discarded-invalid-sidecar"}

Document ==
    [open : {TRUE}, epoch : Nat, version : Versions, text : Texts,
     generation : Nat, state : States, sidecar : Texts \cup {Nothing},
     tokens : Texts \cup {Nothing}, lexicalIndex : Texts \cup {Nothing}]

Thread ==
    [state : {"up", "crashed", "errored", "gone"}, inbox : Seq(Nat \X Nat \X {0, 1})]

\* The types in full.
Typed ==
    /\ documents \in [Uris -> {Closed} \cup Document]
    /\ sessionSequence \in 0 .. MaxSessions
    /\ changes \in 0 .. MaxChanges
    /\ phase \in {"serving", "shutdown", "exited"}
    /\ adapter \in {"loading", "loaded", "failed"}
    /\ analyses \subseteq Analysis
    /\ threads \in Seq(Thread)
    /\ worker \in 0 .. Len(threads)
    /\ published \in [Uris -> [version : Versions \cup {0}, about : Texts \cup {Nothing}]]

\* Epochs and generations count the openings and the changes.
Counted ==
    \A u \in Open :
        /\ documents[u].epoch \in 1 .. sessionSequence
        /\ documents[u].generation \in 0 .. changes + 1

\* A half-applied change is that of an open document.
TornIsOpen == torn \subseteq Open

\* What a document keeps, and from which text.
Kept ==
    \A u \in Open :
        /\ documents[u].sidecar # Nothing <=> documents[u].state = "semantic"
        /\ documents[u].state = "syntactic-fallback" => documents[u].tokens # Nothing
        /\ u \notin torn =>
              /\ documents[u].state = "semantic" =>
                    documents[u].sidecar = documents[u].text
              /\ documents[u].state = "syntactic-fallback" =>
                    documents[u].tokens = documents[u].text

IInv == Typed /\ Counted /\ TornIsOpen /\ Kept

\* No document is open at the start.
LEMMA InitIInv ==
    ASSUME Init
    PROVE  IInv
<1> USE DEF Init
<1>1. Open = {}
  BY DEF Open, Closed
<1>2. Typed
  BY BoundsAreNumbers DEF Typed
<1> QED
  BY <1>1, <1>2 DEF IInv, Counted, TornIsOpen, Kept

(***************************************************************************)
(* A document that is open.                                                 *)
(***************************************************************************)
LEMMA OpenIsDocument ==
    ASSUME Typed, NEW u \in Open
    PROVE  u \in Uris /\ documents[u] \in Document
BY DEF Typed, Open, Closed

(***************************************************************************)
(* Records keep their types.                                                *)
(***************************************************************************)
LEMMA AnalysisTypes ==
    ASSUME NEW a \in Analysis
    PROVE  /\ [a EXCEPT !.aborted = TRUE] \in Analysis
           /\ [a EXCEPT !.stage = "posted"] \in Analysis
           /\ [a EXCEPT !.stage = "immediate", !.retry = 1] \in Analysis
<1>1. [a EXCEPT !.aborted = TRUE] \in Analysis
  BY DEF Analysis
<1>2. [a EXCEPT !.stage = "posted"] \in Analysis
  BY DEF Analysis
<1>3. [a EXCEPT !.stage = "immediate"] \in Analysis
  BY DEF Analysis
<1>4. [[a EXCEPT !.stage = "immediate"] EXCEPT !.retry = 1] \in Analysis
  <2>1. 1 \in 0 .. 1
    OBVIOUS
  <2> QED
    BY <1>3, <2>1 DEF Analysis
<1> QED
  BY <1>1, <1>2, <1>4

\* Aborting an analysis leaves it an analysis.
LEMMA AbortedTypes ==
    ASSUME NEW S \in SUBSET Analysis
    PROVE  Aborted(S) \subseteq Analysis
BY AnalysisTypes DEF Aborted

\* The document that scheduleSemanticAnalysis leaves.
Scheduled(d) == [d EXCEPT !.generation = @ + 1, !.state = "pending", !.sidecar = Nothing]

\* A scheduled document is pending, with nothing kept.
LEMMA ScheduledType ==
    ASSUME NEW d \in Document
    PROVE  /\ Scheduled(d) \in Document
           /\ Scheduled(d).epoch = d.epoch /\ Scheduled(d).version = d.version
           /\ Scheduled(d).generation = d.generation + 1 /\ Scheduled(d).text = d.text
           /\ Scheduled(d).sidecar = Nothing /\ Scheduled(d).state = "pending"
           /\ Scheduled(d).open = TRUE
<1>1. d.generation + 1 \in Nat /\ "pending" \in States
  BY DEF Document, States
<1>2. [d EXCEPT !.generation = d.generation + 1] \in Document
  BY <1>1 DEF Document
<1>3. [[d EXCEPT !.generation = d.generation + 1] EXCEPT !.state = "pending"] \in Document
  BY <1>1, <1>2 DEF Document
<1>4. Scheduled(d) \in Document
  BY <1>1, <1>3 DEF Document, Scheduled
<1> QED
  BY <1>4 DEF Document, Scheduled

\* scheduleSemanticAnalysis replaces one document and its analysis.
LEMMA Schedule ==
    ASSUME IInv, NEW u \in Uris, NEW old, NEW d \in Document,
           scheduleSemanticAnalysis(u, old, d),
           d.epoch \in 1 .. MaxSessions, d.generation \in 0 .. MaxChanges
    PROVE  /\ documents' = [documents EXCEPT ![u] = Scheduled(d)]
           /\ torn' = torn \ {u}
           /\ analyses' \subseteq Analysis
<1> DEFINE hit == {a \in analyses : old.open /\ HoldsSignal(a, old)}
<1>1. /\ documents' = [documents EXCEPT ![u] = Scheduled(d)]
      /\ analyses' = (analyses \ hit) \cup Aborted(hit) \cup {Captured(u, Scheduled(d))}
      /\ torn' = torn \ {u}
  BY DEF scheduleSemanticAnalysis, Scheduled
<1>2. analyses \subseteq Analysis /\ hit \subseteq Analysis
  BY DEF IInv, Typed
<1>3. Aborted(hit) \subseteq Analysis
  BY <1>2, AbortedTypes
<1>4. Captured(u, Scheduled(d)) \in Analysis
  <2>1. d.generation + 1 \in 1 .. MaxChanges + 1
    BY BoundsAreNumbers
  <2>2. d.version \in Versions /\ d.text \in Texts
    BY DEF Document
  <2>3. /\ Scheduled(d).epoch \in 1 .. MaxSessions /\ Scheduled(d).version \in Versions
        /\ Scheduled(d).generation \in 1 .. MaxChanges + 1 /\ Scheduled(d).text \in Texts
    BY <2>1, <2>2, ScheduledType
  <2>4. 0 \in 0 .. 1
    OBVIOUS
  <2> QED
    BY <2>3, <2>4 DEF Captured, Analysis
<1> QED
  <2> HIDE DEF hit
  <2> QED
    BY <1>1, <1>2, <1>3, <1>4

\* Scheduling an analysis keeps the invariant and publishes nothing.
LEMMA ScheduledInv ==
    ASSUME IInv, NEW u \in Uris, NEW old, NEW d \in Document,
           scheduleSemanticAnalysis(u, old, d),
           d.epoch \in 1 .. sessionSequence', d.generation \in 0 .. changes',
           sessionSequence' \in sessionSequence .. MaxSessions,
           changes' \in changes .. MaxChanges,
           UNCHANGED <<phase, published, adapter, worker, threads>>
    PROVE  IInv'
<1>1. /\ sessionSequence \in 0 .. MaxSessions /\ changes \in 0 .. MaxChanges
      /\ documents \in [Uris -> {Closed} \cup Document]
      /\ MaxSessions \in Nat /\ MaxChanges \in Nat
  BY BoundsAreNumbers DEF IInv, Typed
<1>2. d.epoch \in 1 .. MaxSessions /\ d.generation \in 0 .. MaxChanges
  BY <1>1
<1>3. /\ documents' = [documents EXCEPT ![u] = Scheduled(d)]
      /\ torn' = torn \ {u}
      /\ analyses' \subseteq Analysis
  BY <1>2, Schedule
<1>4. /\ Scheduled(d) \in Document /\ Scheduled(d).open = TRUE
      /\ Scheduled(d).epoch = d.epoch /\ Scheduled(d).generation = d.generation + 1
      /\ Scheduled(d).sidecar = Nothing /\ Scheduled(d).state = "pending"
  BY ScheduledType
<1>5. documents' \in [Uris -> {Closed} \cup Document]
  BY <1>1, <1>3, <1>4
<1>6. Typed'
  BY <1>1, <1>3, <1>5 DEF IInv, Typed
<1>7. Open' = Open \cup {u} /\ \A v \in Open \ {u} : documents'[v] = documents[v]
  BY <1>1, <1>3, <1>4 DEF Open
<1>8. documents'[u] = Scheduled(d)
  BY <1>1, <1>3
<1>9. Counted'
  <2>1. ASSUME NEW v \in Open \ {u}
        PROVE  /\ documents'[v].epoch \in 1 .. sessionSequence'
               /\ documents'[v].generation \in 0 .. changes' + 1
    BY <1>1, <1>7, <2>1 DEF IInv, Counted
  <2>2. /\ documents'[u].epoch \in 1 .. sessionSequence'
        /\ documents'[u].generation \in 0 .. changes' + 1
    BY <1>1, <1>4, <1>8
  <2> QED
    BY <1>7, <2>1, <2>2 DEF Counted
<1>10. TornIsOpen'
  BY <1>3, <1>7 DEF IInv, TornIsOpen
<1>11. Kept'
  <2>1. Nothing \notin Texts
    BY BoundsAreNumbers
  <2> QED
    BY <1>3, <1>4, <1>7, <1>8, <2>1 DEF IInv, Kept
<1> QED
  BY <1>6, <1>9, <1>10, <1>11 DEF IInv

(***************************************************************************)
(* The results.                                                             *)
(***************************************************************************)
LEMMA ConcludedType ==
    ASSUME NEW d \in Document, NEW a \in Analysis, NEW result
    PROVE  /\ Concluded(d, a, result) \in Document
           /\ Concluded(d, a, result).open = TRUE
           /\ Concluded(d, a, result).epoch = d.epoch
           /\ Concluded(d, a, result).version = d.version
           /\ Concluded(d, a, result).generation = d.generation
           /\ Concluded(d, a, result).text = d.text
<1>1. a.text \in Texts /\ d.text \in Texts
  BY DEF Analysis, Document
<1>2. {"semantic", "syntactic-fallback", "discarded-invalid-sidecar"} \subseteq States
  BY DEF States, Settled
<1>3. CASE result = "sidecar"
  <2>1. [d EXCEPT !.state = "semantic"] \in Document
    BY <1>2 DEF Document
  <2>2. [[d EXCEPT !.state = "semantic"] EXCEPT !.sidecar = a.text] \in Document
    BY <1>1, <2>1 DEF Document
  <2> QED
    BY <1>3, <2>2 DEF Concluded, Document
<1>4. CASE result = "ETS04"
  <2>1. [d EXCEPT !.state = "syntactic-fallback"] \in Document
    BY <1>2 DEF Document
  <2>2. [[d EXCEPT !.state = "syntactic-fallback"] EXCEPT !.sidecar = Nothing] \in Document
    BY <2>1 DEF Document
  <2>3. [[[d EXCEPT !.state = "syntactic-fallback"] EXCEPT !.sidecar = Nothing]
            EXCEPT !.tokens = d.text] \in Document
    BY <1>1, <2>2 DEF Document
  <2> QED
    BY <1>4, <2>3 DEF Concluded, Document
<1>5. CASE result = "failure" /\ a.retry = 1
  <2>1. [d EXCEPT !.state = "discarded-invalid-sidecar"] \in Document
    BY <1>2 DEF Document
  <2>2. [[d EXCEPT !.state = "discarded-invalid-sidecar"] EXCEPT !.sidecar = Nothing]
            \in Document
    BY <2>1 DEF Document
  <2> QED
    BY <1>5, <2>2 DEF Concluded, Document
<1>6. CASE result \notin {"sidecar", "ETS04"} /\ ~(result = "failure" /\ a.retry = 1)
  BY <1>6 DEF Concluded, Document
<1> QED
  BY <1>3, <1>4, <1>5, <1>6

\* A result that is taken was computed from the document's text.
LEMMA ConcludedKeeps ==
    ASSUME NEW d \in Document, NEW a \in Analysis, NEW result, d.text = a.text,
           d.sidecar # Nothing <=> d.state = "semantic",
           d.state = "syntactic-fallback" => d.tokens # Nothing
    PROVE  LET e == Concluded(d, a, result)
           IN  \/ e.state = "semantic" /\ e.sidecar = d.text /\ e.sidecar # Nothing
               \/ /\ e.state = "syntactic-fallback" /\ e.sidecar = Nothing
                  /\ e.tokens = d.text /\ e.tokens # Nothing
               \/ e.state = "discarded-invalid-sidecar" /\ e.sidecar = Nothing
               \/ e = d
<1>1. d.text \in Texts /\ Nothing \notin Texts
  BY BoundsAreNumbers DEF Document
<1>2. CASE result = "sidecar"
  BY <1>1, <1>2 DEF Concluded, Document
<1>3. CASE result = "ETS04"
  BY <1>1, <1>3 DEF Concluded, Document
<1>4. CASE result = "failure" /\ a.retry = 1
  BY <1>4 DEF Concluded, Document
<1>5. CASE result \notin {"sidecar", "ETS04"} /\ ~(result = "failure" /\ a.retry = 1)
  BY <1>5 DEF Concluded
<1> QED
  BY <1>2, <1>3, <1>4, <1>5

\* An element chosen from a set is one of it.
LEMMA ChooseOne ==
    ASSUME NEW S, S # {}
    PROVE  (CHOOSE a \in S : TRUE) \in S
<1>1. \E a : a \in S /\ TRUE
  OBVIOUS
<1> QED
  BY <1>1, Zenon

\* A document changes only by a current analysis of its own.
LEMMA Concluding ==
    ASSUME IInv, NEW S \in SUBSET analyses, NEW result, Conclude(S, result),
           NEW u \in Uris
    PROVE  \/ documents'[u] = documents[u] /\ published'[u] = published[u]
           \/ \E a \in S :
                 /\ a.uri = u /\ currentAnalysis(a)
                 /\ documents'[u] = Concluded(documents[u], a, result)
                 /\ published'[u] = Diagnostics(documents[u], a, result)
<1> DEFINE current == {a \in S : currentAnalysis(a)}
           again   == {a \in current : Retried(a, result)}
           done    == {a \in current \ again : a.uri = u}
           one     == CHOOSE a \in done : TRUE
<1>1. /\ documents'[u] = IF done = {} THEN documents[u]
                          ELSE Concluded(documents[u], one, result)
      /\ published'[u] = IF done = {} THEN published[u]
                          ELSE Diagnostics(documents[u], one, result)
  <2> DEFINE D == [v \in Uris |-> {a \in current \ again : a.uri = v}]
  <2>1. /\ documents' = [v \in Uris |->
              IF D[v] = {} THEN documents[v]
              ELSE Concluded(documents[v], CHOOSE a \in D[v] : TRUE, result)]
        /\ published' = [v \in Uris |->
              IF D[v] = {} THEN published[v]
              ELSE Diagnostics(documents[v], CHOOSE a \in D[v] : TRUE, result)]
    BY DEF Conclude
  <2>2. D[u] = done
    OBVIOUS
  <2> HIDE DEF D, done
  <2>3. /\ documents'[u] = IF D[u] = {} THEN documents[u]
                ELSE Concluded(documents[u], CHOOSE a \in D[u] : TRUE, result)
        /\ published'[u] = IF D[u] = {} THEN published[u]
                ELSE Diagnostics(documents[u], CHOOSE a \in D[u] : TRUE, result)
    BY <2>1, Zenon
  <2> QED
    BY <2>2, <2>3, Zenon
<1>2. CASE done = {}
  BY <1>1, <1>2
<1>3. CASE done # {}
  <2>1. one \in done
    BY <1>3, ChooseOne
  <2>2. one \in S /\ one.uri = u /\ currentAnalysis(one)
    BY <2>1
  <2> HIDE DEF done, one
  <2> QED
    BY <1>1, <1>3, <2>2
<1> QED
  BY <1>2, <1>3

\* What DiagnosticsAreCurrent says of a step.
Published ==
    \A u \in Open' :
        published'[u] # published[u] =>
            /\ published'[u].version = documents'[u].version
            /\ published'[u].about \in {documents'[u].text, Nothing}

\* Whatever the result and whoever reports it, it is stored and published
\* only for the text it is about.
LEMMA ConcludeInv ==
    ASSUME IInv, NEW S \in SUBSET analyses, NEW result, Conclude(S, result),
           UNCHANGED <<sessionSequence, phase, torn, changes, adapter>>,
           threads' \in Seq(Thread), worker' \in 0 .. Len(threads')
    PROVE  IInv' /\ Published
<1>0. \A d \in Document, a \in Analysis :
        /\ Concluded(d, a, result) \in Document
        /\ Concluded(d, a, result).text = d.text
        /\ Concluded(d, a, result).version = d.version
        /\ Concluded(d, a, result).epoch = d.epoch
        /\ Concluded(d, a, result).generation = d.generation
  BY ConcludedType
<1>1. /\ documents \in [Uris -> {Closed} \cup Document]
      /\ published \in [Uris -> [version : Versions \cup {0}, about : Texts \cup {Nothing}]]
      /\ analyses \subseteq Analysis
  BY DEF IInv, Typed
<1>2. /\ documents' = [u \in Uris |-> documents'[u]]
      /\ published' = [u \in Uris |-> published'[u]]
      /\ \E again \in SUBSET S :
            analyses' = (analyses \ S) \cup
                       {[a EXCEPT !.stage = "immediate", !.retry = 1] : a \in again}
  <2> DEFINE again == {a \in {b \in S : currentAnalysis(b)} : Retried(a, result)}
             done(u) == {a \in {b \in S : currentAnalysis(b)} \ again : a.uri = u}
             sets == [u \in Uris |-> done(u)]
  <2>2. /\ documents' = [u \in Uris |->
              IF sets[u] = {} THEN documents[u]
              ELSE Concluded(documents[u], CHOOSE a \in sets[u] : TRUE, result)]
        /\ published' = [u \in Uris |->
              IF sets[u] = {} THEN published[u]
              ELSE Diagnostics(documents[u], CHOOSE a \in sets[u] : TRUE, result)]
        /\ analyses' = (analyses \ S) \cup
              {[a EXCEPT !.stage = "immediate", !.retry = 1] : a \in again}
    BY DEF Conclude
  <2>3. again \in SUBSET S
    OBVIOUS
  <2> HIDE DEF again, sets
  <2> DEFINE Doc(u) == IF sets[u] = {} THEN documents[u]
                       ELSE Concluded(documents[u], CHOOSE a \in sets[u] : TRUE, result)
             Pub(u) == IF sets[u] = {} THEN published[u]
                       ELSE Diagnostics(documents[u], CHOOSE a \in sets[u] : TRUE, result)
  <2>4. documents' = [u \in Uris |-> Doc(u)] /\ published' = [u \in Uris |-> Pub(u)]
    BY <2>2, Zenon
  <2> HIDE DEF Doc, Pub
  <2> QED
    BY <2>2, <2>3, <2>4
<1>3. analyses' \subseteq Analysis
  BY <1>1, <1>2, AnalysisTypes
<1>4. ASSUME NEW u \in Uris, documents'[u] # documents[u] \/ published'[u] # published[u]
      PROVE  \E a \in Analysis :
                /\ documents[u] \in Document
                /\ documents[u].text = a.text
                /\ documents'[u] = Concluded(documents[u], a, result)
                /\ published'[u] = Diagnostics(documents[u], a, result)
  <2>1. PICK a \in S :
          /\ a.uri = u /\ currentAnalysis(a)
          /\ documents'[u] = Concluded(documents[u], a, result)
          /\ published'[u] = Diagnostics(documents[u], a, result)
    BY <1>4, Concluding
  <2>2. documents[u].open /\ documents[u].text = a.text
    BY <2>1 DEF currentAnalysis
  <2>3. documents[u] \in Document
    BY <2>2, OpenIsDocument DEF IInv, Open
  <2> QED
    BY <1>1, <2>1, <2>2, <2>3
<1>5. ASSUME NEW u \in Uris, documents'[u] # documents[u]
      PROVE  /\ documents[u] \in Document /\ documents'[u] \in Document
             /\ documents'[u].open = TRUE /\ documents'[u].text = documents[u].text
             /\ documents'[u].epoch = documents[u].epoch
             /\ documents'[u].generation = documents[u].generation
  <2>1. PICK a \in Analysis :
          /\ documents[u] \in Document
          /\ documents'[u] = Concluded(documents[u], a, result)
    BY <1>4, <1>5
  <2> DEFINE e == Concluded(documents[u], a, result)
  <2>2. /\ e \in Document /\ e.text = documents[u].text
        /\ e.epoch = documents[u].epoch /\ e.generation = documents[u].generation
    BY <1>0, <2>1
  <2> HIDE DEF e
  <2>3. documents'[u] = e
    BY <2>1 DEF e
  <2>4. e.open = TRUE
    BY <2>2 DEF Document
  <2> QED
    BY <2>1, <2>2, <2>3, <2>4
<1>6. Open' = Open
  <2>1. \A u \in Uris : documents[u] \in Document => documents[u].open = TRUE
    BY DEF Document
  <2> QED
    BY <1>5, <2>1 DEF Open
<1>7. documents' \in [Uris -> {Closed} \cup Document]
  BY <1>1, <1>2, <1>5
<1>8. published' \in [Uris -> [version : Versions \cup {0}, about : Texts \cup {Nothing}]]
  <2>1. ASSUME NEW u \in Uris, published'[u] # published[u]
        PROVE  published'[u] \in [version : Versions \cup {0}, about : Texts \cup {Nothing}]
    <3>1. PICK a \in Analysis : /\ documents[u] \in Document
                               /\ published'[u] = Diagnostics(documents[u], a, result)
      BY <1>4, <2>1
    <3>2. documents[u].version \in Versions /\ documents[u].text \in Texts /\ a.text \in Texts
      BY <3>1 DEF Document, Analysis
    <3> QED
      BY <3>1, <3>2 DEF Diagnostics
  <2> QED
    BY <1>1, <1>2, <2>1
<1>9. Typed'
  BY <1>3, <1>7, <1>8 DEF IInv, Typed
<1>10. Counted'
  BY <1>5, <1>6 DEF IInv, Counted, Open
<1>11. TornIsOpen'
  BY <1>6 DEF IInv, TornIsOpen
<1>12. Kept'
  <2>1. SUFFICES ASSUME NEW u \in Open, documents'[u] # documents[u]
                 PROVE  /\ documents'[u].sidecar # Nothing <=> documents'[u].state = "semantic"
                        /\ documents'[u].state = "syntactic-fallback" =>
                              documents'[u].tokens # Nothing
                        /\ documents'[u].state = "semantic" =>
                              documents'[u].sidecar = documents'[u].text
                        /\ documents'[u].state = "syntactic-fallback" =>
                              documents'[u].tokens = documents'[u].text
    BY <1>6, <2>1 DEF IInv, Kept
  <2>2. u \in Uris
    BY DEF Open
  <2>3. PICK a \in Analysis :
          /\ documents[u] \in Document /\ documents[u].text = a.text
          /\ documents'[u] = Concluded(documents[u], a, result)
    BY <1>4, <2>1, <2>2
  <2>4. /\ documents[u].sidecar # Nothing <=> documents[u].state = "semantic"
        /\ documents[u].state = "syntactic-fallback" => documents[u].tokens # Nothing
    BY DEF IInv, Kept
  <2>5. documents'[u].text = documents[u].text
    BY <1>5, <2>1, <2>2
  <2>6. \/ documents'[u].state = "semantic" /\ documents'[u].sidecar = documents[u].text
           /\ documents'[u].sidecar # Nothing
        \/ /\ documents'[u].state = "syntactic-fallback" /\ documents'[u].sidecar = Nothing
           /\ documents'[u].tokens = documents[u].text /\ documents'[u].tokens # Nothing
        \/ documents'[u].state = "discarded-invalid-sidecar" /\ documents'[u].sidecar = Nothing
    BY <2>1, <2>3, <2>4, ConcludedKeeps
  <2> QED
    BY <2>5, <2>6
<1>13. Published
  <2>1. SUFFICES ASSUME NEW u \in Open, published'[u] # published[u]
                 PROVE  /\ published'[u].version = documents'[u].version
                        /\ published'[u].about \in {documents'[u].text, Nothing}
    BY <1>6 DEF Published
  <2>2. PICK a \in Analysis :
          /\ documents[u] \in Document /\ documents[u].text = a.text
          /\ documents'[u] = Concluded(documents[u], a, result)
          /\ published'[u] = Diagnostics(documents[u], a, result)
    BY <1>4, <2>1 DEF Open
  <2>3. documents'[u].text = documents[u].text /\ documents'[u].version = documents[u].version
    <3> DEFINE e == Concluded(documents[u], a, result)
    <3>1. e.text = documents[u].text /\ e.version = documents[u].version
      BY <1>0, <2>2
    <3> HIDE DEF e
    <3>2. documents'[u] = e
      BY <2>2 DEF e
    <3> QED
      BY <3>1, <3>2
  <2>4. published'[u].version = documents[u].version
    BY <2>2 DEF Diagnostics
  <2>5. published'[u].about \in {documents[u].text, Nothing}
    BY <2>2 DEF Diagnostics
  <2> QED
    BY <2>3, <2>4, <2>5
<1> QED
  BY <1>9, <1>10, <1>11, <1>12, <1>13 DEF IInv

(***************************************************************************)
(* The other steps, each with what DiagnosticsAreCurrent says of it.        *)
(***************************************************************************)

\* A step that changes no document.
LEMMA Frame ==
    ASSUME IInv, UNCHANGED <<documents, sessionSequence, torn, changes, published>>,
           phase' \in {"serving", "shutdown", "exited"},
           adapter' \in {"loading", "loaded", "failed"},
           analyses' \subseteq Analysis,
           threads' \in Seq(Thread), worker' \in 0 .. Len(threads')
    PROVE  IInv' /\ Published
BY DEF IInv, Typed, Counted, TornIsOpen, Kept, Open, Published

\* AbortDocuments leaves analyses.
LEMMA Aborting ==
    ASSUME IInv, NEW D, AbortDocuments(D)
    PROVE  analyses' \subseteq Analysis
<1> DEFINE hit == {a \in analyses : \E d \in D : HoldsSignal(a, d)}
<1>1. analyses' = (analyses \ hit) \cup Aborted(hit)
  BY DEF AbortDocuments
<1>2. analyses \subseteq Analysis /\ hit \subseteq Analysis
  BY DEF IInv, Typed
<1>3. Aborted(hit) \subseteq Analysis
  BY <1>2, AbortedTypes
<1> HIDE DEF hit
<1> QED
  BY <1>1, <1>2, <1>3

\* didOpen keeps the invariant.
LEMMA OpenInv ==
    ASSUME IInv, NEW u \in Uris, NEW v \in Versions, NEW t \in Texts, didOpen(u, v, t)
    PROVE  IInv' /\ Published
<1> DEFINE d == Opened(sessionSequence + 1, v, t)
<1>1. /\ sessionSequence \in 0 .. MaxSessions /\ changes \in 0 .. MaxChanges
      /\ MaxSessions \in Nat /\ MaxChanges \in Nat
  BY BoundsAreNumbers DEF IInv, Typed
<1>2. sessionSequence' = sessionSequence + 1 /\ sessionSequence < MaxSessions
  BY DEF didOpen
<1>3. "pending" \in States /\ sessionSequence + 1 \in Nat
  BY <1>1 DEF States
<1>4. d \in Document
  BY <1>3 DEF Document, Opened
<1>5. d.epoch \in 1 .. sessionSequence' /\ d.generation \in 0 .. changes'
  BY <1>1, <1>2 DEF Opened, didOpen
<1>6. /\ sessionSequence' \in sessionSequence .. MaxSessions
      /\ changes' \in changes .. MaxChanges
      /\ UNCHANGED <<phase, published, adapter, worker, threads>>
  BY <1>1, <1>2 DEF didOpen
<1>7. scheduleSemanticAnalysis(u, documents[u], d)
  BY DEF didOpen
<1>8. IInv'
  <2> HIDE DEF d
  <2> QED
    BY <1>4, <1>5, <1>6, <1>7, ScheduledInv
<1> QED
  BY <1>6, <1>8 DEF Published

\* didChange keeps the invariant.
LEMMA ChangeInv ==
    ASSUME IInv, NEW u \in Uris, NEW v \in Versions, NEW t \in Texts, didChange(u, v, t)
    PROVE  IInv' /\ Published
<1> DEFINE d == [documents[u] EXCEPT !.text = t, !.version = v]
<1>1. /\ sessionSequence \in 0 .. MaxSessions /\ changes \in 0 .. MaxChanges
      /\ MaxSessions \in Nat /\ MaxChanges \in Nat
  BY BoundsAreNumbers DEF IInv, Typed
<1>2. u \in Open /\ changes < MaxChanges /\ changes' = changes + 1
  BY DEF didChange
<1>3. documents[u] \in Document
  BY <1>2, OpenIsDocument DEF IInv
<1>4. d \in Document /\ d.epoch = documents[u].epoch
      /\ d.generation = documents[u].generation
  <2>1. [documents[u] EXCEPT !.text = t] \in Document
    BY <1>3 DEF Document
  <2> QED
    BY <1>3, <2>1 DEF Document
<1>5. documents[u].epoch \in 1 .. sessionSequence
      /\ documents[u].generation \in 0 .. changes + 1
  BY <1>2 DEF IInv, Counted
<1>6. /\ sessionSequence' \in sessionSequence .. MaxSessions
      /\ changes' \in changes .. MaxChanges
      /\ UNCHANGED <<phase, published, adapter, worker, threads>>
      /\ sessionSequence' = sessionSequence
  BY <1>1, <1>2 DEF didChange
<1>7. d.epoch \in 1 .. sessionSequence' /\ d.generation \in 0 .. changes'
  BY <1>2, <1>4, <1>5, <1>6
<1>8. scheduleSemanticAnalysis(u, documents[u], d)
  BY DEF didChange
<1>9. IInv'
  <2> HIDE DEF d
  <2> QED
    BY <1>4, <1>6, <1>7, <1>8, ScheduledInv
<1> QED
  BY <1>6, <1>9 DEF Published

\* A step that changes the text or the memoised index of one document.
LEMMA EditInv ==
    ASSUME IInv, NEW u \in Open, NEW d \in Document,
           documents' = [documents EXCEPT ![u] = d],
           d.epoch = documents[u].epoch, d.generation = documents[u].generation,
           d.state = documents[u].state, d.sidecar = documents[u].sidecar,
           d.tokens = documents[u].tokens,
           \/ torn' = torn \cup {u}
           \/ torn' = torn /\ d.text = documents[u].text,
           changes' \in changes .. MaxChanges,
           UNCHANGED <<sessionSequence, phase, published, adapter, analyses, worker, threads>>
    PROVE  IInv' /\ Published
<1>1. /\ documents \in [Uris -> {Closed} \cup Document] /\ changes \in 0 .. MaxChanges
      /\ MaxChanges \in Nat /\ u \in Uris
  BY BoundsAreNumbers DEF IInv, Typed, Open
<1>2. documents' \in [Uris -> {Closed} \cup Document] /\ documents'[u] = d
  BY <1>1
<1>3. \A v \in Uris \ {u} : documents'[v] = documents[v]
  BY <1>1
<1>4. d.open = TRUE
  BY DEF Document
<1>5. Open' = Open
  BY <1>1, <1>2, <1>3, <1>4 DEF Open
<1>6. Typed'
  BY <1>1, <1>2 DEF IInv, Typed
<1>7. Counted'
  <2>1. SUFFICES ASSUME NEW v \in Open
                 PROVE  /\ documents'[v].epoch \in 1 .. sessionSequence
                        /\ documents'[v].generation \in 0 .. changes' + 1
    BY <1>5 DEF Counted
  <2>2. /\ documents'[v].epoch = documents[v].epoch
        /\ documents'[v].generation = documents[v].generation
    BY <1>2, <1>3 DEF Open
  <2> QED
    BY <1>1, <2>2 DEF IInv, Counted
<1>8. TornIsOpen'
  BY <1>5 DEF IInv, TornIsOpen
<1>9. Kept'
  <2>1. SUFFICES ASSUME NEW v \in Open
                 PROVE  /\ documents'[v].sidecar # Nothing <=> documents'[v].state = "semantic"
                        /\ documents'[v].state = "syntactic-fallback" =>
                              documents'[v].tokens # Nothing
                        /\ v \notin torn' =>
                              /\ documents'[v].state = "semantic" =>
                                    documents'[v].sidecar = documents'[v].text
                              /\ documents'[v].state = "syntactic-fallback" =>
                                    documents'[v].tokens = documents'[v].text
    BY <1>5 DEF Kept
  <2>2. /\ documents'[v].sidecar = documents[v].sidecar
        /\ documents'[v].state = documents[v].state
        /\ documents'[v].tokens = documents[v].tokens
    BY <1>2, <1>3 DEF Open
  <2>3. v \notin torn' => v \notin torn /\ documents'[v].text = documents[v].text
    BY <1>2, <1>3 DEF Open
  <2> QED
    BY <2>2, <2>3 DEF IInv, Kept
<1> QED
  BY <1>6, <1>7, <1>8, <1>9 DEF IInv, Published

\* A change that is refused half way marks its document torn.
LEMMA ChangeHalfInv ==
    ASSUME IInv, NEW u \in Uris, NEW v \in Versions, NEW t \in Texts,
           didChangeHalf(u, v, t)
    PROVE  IInv' /\ Published
<1> DEFINE d == [documents[u] EXCEPT !.text = t]
<1>1. u \in Open /\ torn' = torn \cup {u}
  BY DEF didChangeHalf
<1>2. documents[u] \in Document
  BY <1>1, OpenIsDocument DEF IInv
<1>3. d \in Document
  BY <1>2 DEF Document
<1>4. /\ d.epoch = documents[u].epoch /\ d.generation = documents[u].generation
      /\ d.state = documents[u].state /\ d.sidecar = documents[u].sidecar
      /\ d.tokens = documents[u].tokens
  BY <1>2 DEF Document
<1>5. documents' = [documents EXCEPT ![u] = d]
  BY DEF didChangeHalf
<1>6. changes' \in changes .. MaxChanges
  <2>1. changes \in 0 .. MaxChanges /\ MaxChanges \in Nat
    BY BoundsAreNumbers DEF IInv, Typed
  <2> QED
    BY <2>1 DEF didChangeHalf
<1>7. UNCHANGED <<sessionSequence, phase, published, adapter, analyses, worker, threads>>
  BY DEF didChangeHalf, tasks
<1> HIDE DEF d
<1> QED
  BY <1>1, <1>3, <1>4, <1>5, <1>6, <1>7, EditInv

\* A request that memoises its index keeps the invariant.
LEMMA IndexInv ==
    ASSUME IInv, NEW u \in Uris, buildLexicalIndex(u)
    PROVE  IInv' /\ Published
<1> DEFINE d == [documents[u] EXCEPT !.lexicalIndex = documents[u].text]
<1>1. u \in Open /\ torn' = torn
  BY DEF buildLexicalIndex
<1>2. documents[u] \in Document
  BY <1>1, OpenIsDocument DEF IInv
<1>3. d \in Document
  BY <1>2 DEF Document
<1>4. /\ d.epoch = documents[u].epoch /\ d.generation = documents[u].generation
      /\ d.state = documents[u].state /\ d.sidecar = documents[u].sidecar
      /\ d.tokens = documents[u].tokens /\ d.text = documents[u].text
  BY <1>2 DEF Document
<1>5. documents' = [documents EXCEPT ![u] = d]
  BY DEF buildLexicalIndex
<1>6. changes' \in changes .. MaxChanges
  <2>1. changes \in 0 .. MaxChanges /\ MaxChanges \in Nat
    BY BoundsAreNumbers DEF IInv, Typed
  <2> QED
    BY <2>1 DEF buildLexicalIndex
<1>7. UNCHANGED <<sessionSequence, phase, published, adapter, analyses, worker, threads>>
  BY DEF buildLexicalIndex, tasks
<1> HIDE DEF d
<1> QED
  BY <1>1, <1>3, <1>4, <1>5, <1>6, <1>7, EditInv

\* didClose keeps the invariant.
LEMMA CloseInv ==
    ASSUME IInv, NEW u \in Uris, didClose(u)
    PROVE  IInv' /\ Published
<1>1. /\ documents \in [Uris -> {Closed} \cup Document]
      /\ published \in [Uris -> [version : Versions \cup {0}, about : Texts \cup {Nothing}]]
  BY DEF IInv, Typed
<1>2. /\ u \in Open /\ documents' = [documents EXCEPT ![u] = Closed]
      /\ published' = [published EXCEPT
                         ![u] = [version |-> documents[u].version, about |-> Nothing]]
      /\ torn' = torn \ {u}
  BY DEF didClose
<1>3. documents[u].version \in Versions
  BY <1>2, OpenIsDocument DEF IInv, Document
<1>4. analyses' \subseteq Analysis
  BY Aborting DEF didClose
<1>5. published' \in [Uris -> [version : Versions \cup {0}, about : Texts \cup {Nothing}]]
  <2>1. [version |-> documents[u].version, about |-> Nothing]
            \in [version : Versions \cup {0}, about : Texts \cup {Nothing}]
    BY <1>3
  <2> QED
    BY <1>1, <1>2, <2>1
<1>6. documents' \in [Uris -> {Closed} \cup Document]
  BY <1>1, <1>2
<1>7. UNCHANGED <<sessionSequence, phase, changes, adapter, worker, threads>>
  BY DEF didClose
<1>8. Typed'
  BY <1>4, <1>5, <1>6, <1>7 DEF IInv, Typed
<1>9. Open' = Open \ {u} /\ \A v \in Uris \ {u} : documents'[v] = documents[v]
                                                 /\ published'[v] = published[v]
  BY <1>1, <1>2 DEF Open, Closed
<1>10. Counted'
  BY <1>7, <1>9 DEF IInv, Counted, Open
<1>11. TornIsOpen'
  BY <1>2, <1>9 DEF IInv, TornIsOpen
<1>12. Kept'
  BY <1>2, <1>9 DEF IInv, Kept, Open
<1>13. Published
  BY <1>9 DEF Published, Open
<1> QED
  BY <1>8, <1>10, <1>11, <1>12, <1>13 DEF IInv

\* shutdown keeps the invariant.
LEMMA ShutdownInv ==
    ASSUME IInv, shutdown
    PROVE  IInv' /\ Published
<1>1. analyses' \subseteq Analysis
  BY Aborting DEF shutdown
<1>2. /\ UNCHANGED <<documents, sessionSequence, torn, changes, published>>
      /\ phase' = "shutdown" /\ adapter' = adapter
      /\ threads' = threads /\ worker' = worker
  BY DEF shutdown
<1> QED
  BY <1>1, <1>2, Frame DEF IInv, Typed

\* exit keeps the invariant.
LEMMA ExitInv ==
    ASSUME IInv, exit
    PROVE  IInv' /\ Published
<1>1. Open' = {}
  BY DEF exit, Open, Closed
<1>2. threads' \in Seq(Thread) /\ worker' \in 0 .. Len(threads')
  BY DEF exit
<1>3. Typed'
  BY <1>2 DEF exit, IInv, Typed
<1>4. torn' = {}
  BY DEF exit
<1> QED
  BY <1>1, <1>3, <1>4 DEF IInv, Counted, TornIsOpen, Kept, Published

\* The adapter that loads, or does not, keeps the invariant.
LEMMA SettlesInv ==
    ASSUME IInv, NEW to \in {"loaded", "failed"}, adapterSettles(to)
    PROVE  IInv' /\ Published
<1>1. /\ UNCHANGED <<documents, sessionSequence, torn, changes, published, phase,
                     analyses, worker, threads>>
      /\ adapter' \in {"loading", "loaded", "failed"}
  BY DEF adapterSettles, client
<1> QED
  BY <1>1, Frame DEF IInv, Typed

(***************************************************************************)
(* The worker threads.                                                      *)
(***************************************************************************)

\* A thread is replaced.
LEMMA ReplaceThread ==
    ASSUME NEW s \in Seq(Thread), NEW w \in 1 .. Len(s), NEW t \in Thread
    PROVE  [s EXCEPT ![w] = t] \in Seq(Thread) /\ Len([s EXCEPT ![w] = t]) = Len(s)
BY ExceptSeq

\* A posted operation goes to a worker that exists.
LEMMA PostThreads ==
    ASSUME IInv, NEW a \in Analysis, post(a)
    PROVE  threads' \in Seq(Thread) /\ worker' \in 0 .. Len(threads')
<1> DEFINE created == IF worker = 0 THEN Append(threads, NewThread) ELSE threads
           current == IF worker = 0 THEN Len(created) ELSE worker
           inbox   == Append(created[current].inbox, Operation(a))
           thread  == [created[current] EXCEPT !.inbox = inbox]
<1>1. threads \in Seq(Thread) /\ worker \in 0 .. Len(threads)
  BY DEF IInv, Typed
<1>2. NewThread \in Thread
  BY DEF NewThread, Thread
<1>3. created \in Seq(Thread) /\ current \in 1 .. Len(created)
  <2>1. CASE worker = 0
    <3>1. /\ Append(threads, NewThread) \in Seq(Thread)
          /\ Len(Append(threads, NewThread)) = Len(threads) + 1
      BY <1>1, <1>2, AppendProperties
    <3> QED
      BY <1>1, <2>1, <3>1
  <2>2. CASE worker # 0
    BY <1>1, <2>2
  <2> QED
    BY <2>1, <2>2
<1>4. worker' = current /\ threads' = [created EXCEPT ![current] = thread]
  BY DEF post
<1> HIDE DEF created, current
<1>5. created[current] \in Thread
  BY <1>3, ElementOfSeq
<1>6. Operation(a) \in Nat \X Nat \X {0, 1}
  <2>1. /\ a.epoch \in 1 .. MaxSessions /\ a.generation \in 1 .. MaxChanges + 1
        /\ a.retry \in 0 .. 1
    BY DEF Analysis
  <2> QED
    BY <2>1, BoundsAreNumbers DEF Operation
<1>7. inbox \in Seq(Nat \X Nat \X {0, 1})
  BY <1>5, <1>6, AppendProperties DEF Thread
<1> HIDE DEF inbox
<1>8. thread \in Thread
  BY <1>5, <1>7 DEF Thread
<1> HIDE DEF thread
<1> QED
  BY <1>3, <1>4, <1>8, ReplaceThread

\* An analysis that starts, or cannot, keeps the invariant.
LEMMA RunInv ==
    ASSUME IInv, NEW a \in analyses, runSemanticAnalysis(a)
    PROVE  IInv' /\ Published
<1>1. analyses \subseteq Analysis /\ a \in Analysis
  BY DEF IInv, Typed
<1>2. UNCHANGED <<sessionSequence, phase, torn, changes, adapter>>
  BY DEF runSemanticAnalysis
<1>3. CASE post(a)
  <2>1. UNCHANGED <<documents, published>>
        /\ analyses' = (analyses \ {a}) \cup {[a EXCEPT !.stage = "posted"]}
    BY <1>3 DEF post
  <2>2. analyses' \subseteq Analysis
    BY <1>1, <2>1, AnalysisTypes
  <2>3. threads' \in Seq(Thread) /\ worker' \in 0 .. Len(threads')
    BY <1>1, <1>3, PostThreads
  <2> QED
    BY <1>2, <2>1, <2>2, <2>3, Frame DEF IInv, Typed
<1>4. CASE end_unposted(a)
  <2>1. /\ worker' = worker /\ threads' = threads
        /\ Conclude({a}, "cancelled") \/ Conclude({a}, "failure")
    BY <1>4 DEF end_unposted
  <2>2. threads' \in Seq(Thread) /\ worker' \in 0 .. Len(threads')
    BY <2>1 DEF IInv, Typed
  <2>3. {a} \in SUBSET analyses
    OBVIOUS
  <2>4. CASE Conclude({a}, "cancelled")
    BY <1>2, <2>2, <2>3, <2>4, ConcludeInv
  <2>5. CASE Conclude({a}, "failure")
    BY <1>2, <2>2, <2>3, <2>5, ConcludeInv
  <2> QED
    BY <2>1, <2>4, <2>5
<1> QED
  BY <1>3, <1>4 DEF runSemanticAnalysis

\* An answer of the worker keeps the invariant.
LEMMA AnswerInv ==
    ASSUME IInv, NEW w \in DOMAIN threads, NEW result, worker_answers(w, result)
    PROVE  IInv' /\ Published
<1> DEFINE thread == [threads[w] EXCEPT !.inbox = Tail(threads[w].inbox)]
           op     == Head(threads[w].inbox)
           found  == {a \in Owner(op) : op \in pending}
<1>1. threads \in Seq(Thread) /\ worker \in 0 .. Len(threads) /\ w \in 1 .. Len(threads)
  BY DEF IInv, Typed
<1>2. threads[w] \in Thread /\ threads[w].inbox # <<>>
  BY <1>1, ElementOfSeq DEF worker_answers
<1>3. Tail(threads[w].inbox) \in Seq(Nat \X Nat \X {0, 1})
  BY <1>2, HeadTailProperties DEF Thread
<1>4. thread \in Thread
  BY <1>2, <1>3 DEF Thread
<1>5. threads' = [threads EXCEPT ![w] = thread] /\ worker' = worker
  BY DEF worker_answers
<1>6. threads' \in Seq(Thread) /\ worker' \in 0 .. Len(threads')
  <2> HIDE DEF thread
  <2> QED
    BY <1>1, <1>4, <1>5, ReplaceThread
<1>7. Conclude(found, result) /\ found \in SUBSET analyses
  BY DEF worker_answers, Owner
<1>8. UNCHANGED <<sessionSequence, phase, torn, changes, adapter>>
  BY DEF worker_answers
<1> HIDE DEF found
<1> QED
  BY <1>6, <1>7, <1>8, ConcludeInv

\* The error or the exit of a worker keeps the invariant.
LEMMA EventInv ==
    ASSUME IInv, NEW w \in DOMAIN threads, NEW from, NEW to \in {"errored", "gone"},
           worker_event(w, from, to)
    PROVE  IInv' /\ Published
<1> DEFINE thread == [threads[w] EXCEPT !.state = to]
           S      == UNION {Owner(op) : op \in pending}
<1>1. threads \in Seq(Thread) /\ w \in 1 .. Len(threads)
  BY DEF IInv, Typed
<1>2. threads[w] \in Thread
  BY <1>1, ElementOfSeq
<1>3. thread \in Thread
  BY <1>2 DEF Thread
<1>4. threads' = [threads EXCEPT ![w] = thread] /\ worker' = 0
  BY DEF worker_event
<1>5. threads' \in Seq(Thread) /\ worker' \in 0 .. Len(threads')
  <2> HIDE DEF thread
  <2>1. threads' \in Seq(Thread) /\ Len(threads') = Len(threads) /\ Len(threads) \in Nat
    BY <1>1, <1>3, <1>4, ReplaceThread
  <2> QED
    BY <1>4, <2>1
<1>6. Conclude(S, "failure") /\ S \in SUBSET analyses
  BY DEF worker_event, Owner
<1>7. UNCHANGED <<sessionSequence, phase, torn, changes, adapter>>
  BY DEF worker_event
<1> HIDE DEF S
<1> QED
  BY <1>5, <1>6, <1>7, ConcludeInv

\* A worker that crashes touches no document.
LEMMA CrashInv ==
    ASSUME IInv, NEW w \in DOMAIN threads, worker_crashes(w)
    PROVE  IInv' /\ Published
<1> DEFINE thread == [state |-> "crashed", inbox |-> <<>>]
<1>1. threads \in Seq(Thread) /\ w \in 1 .. Len(threads) /\ worker \in 0 .. Len(threads)
  BY DEF IInv, Typed
<1>2. thread \in Thread
  BY DEF Thread
<1>3. threads' = [threads EXCEPT ![w] = thread]
      /\ UNCHANGED <<documents, sessionSequence, torn, changes, published, phase,
                     adapter, analyses, worker>>
  BY DEF worker_crashes, client
<1>4. threads' \in Seq(Thread) /\ worker' \in 0 .. Len(threads')
  <2> HIDE DEF thread
  <2> QED
    BY <1>1, <1>2, <1>3, ReplaceThread
<1> QED
  BY <1>3, <1>4, Frame DEF IInv, Typed

(***************************************************************************)
(* The theorems.                                                            *)
(***************************************************************************)
LEMMA StepInv ==
    ASSUME IInv, Next
    PROVE  IInv' /\ Published
<1>1. CASE Notification
  BY <1>1, OpenInv, ChangeInv, ChangeHalfInv, CloseInv, IndexInv, ShutdownInv, ExitInv
  DEF Notification
<1>2. CASE Task
  <2>1. CASE \E to \in {"loaded", "failed"} : adapterSettles(to)
    BY <2>1, SettlesInv
  <2>2. CASE \E a \in analyses : runSemanticAnalysis(a)
    BY <2>2, RunInv
  <2>3. ASSUME NEW w \in DOMAIN threads, NEW result \in Results, worker_answers(w, result)
        PROVE  IInv' /\ Published
    BY <2>3, AnswerInv
  <2>4. ASSUME NEW w \in DOMAIN threads, worker_event(w, "crashed", "errored")
        PROVE  IInv' /\ Published
    BY <2>4, EventInv
  <2>5. ASSUME NEW w \in DOMAIN threads, worker_event(w, "errored", "gone")
        PROVE  IInv' /\ Published
    BY <2>5, EventInv
  <2> QED
    BY <1>2, <2>1, <2>2, <2>3, <2>4, <2>5 DEF Task
<1>3. CASE \E w \in DOMAIN threads : worker_crashes(w)
  BY <1>3, CrashInv
<1> QED
  BY <1>1, <1>2, <1>3 DEF Next

\* IInv is inductive.
THEOREM IInvHolds == Spec => []IInv
<1>1. Init => IInv
  BY InitIInv
<1>2. IInv /\ [Next]_vars => IInv'
  <2>1. SUFFICES ASSUME IInv, [Next]_vars PROVE IInv'
    OBVIOUS
  <2>2. CASE Next
    BY <2>1, <2>2, StepInv
  <2>3. CASE UNCHANGED vars
    BY <2>1, <2>3 DEF IInv, Typed, Counted, TornIsOpen, Kept, Open, vars, client, tasks
  <2> QED
    BY <2>1, <2>2, <2>3
<1> QED
  BY <1>1, <1>2, PTL DEF Spec

\* Type correctness, the epochs in range and a sidecar for exactly the semantic
\* documents, for every number of documents, texts, openings and crashes.
THEOREM TypeCorrect == Spec => []TypeOK
<1>1. IInv => TypeOK
  <2>1. SUFFICES ASSUME IInv PROVE TypeOK
    OBVIOUS
  <2>2. ASSUME NEW u \in Open
        PROVE  documents[u].state \in Settled \cup {"pending", "discarded-invalid-sidecar"}
    BY <2>1, OpenIsDocument DEF IInv, Document, States
  <2> QED
    BY <2>1, <2>2 DEF TypeOK, IInv, Typed, Counted, TornIsOpen, Kept
<1> QED
  BY <1>1, IInvHolds, PTL

\* Requests are answered from the text the document has: no late result of an
\* analysis and no memoised index brings back an older one.
THEOREM AnswersCurrent == Spec => []AnswersAreCurrent
<1>1. IInv => AnswersAreCurrent
  <2>1. SUFFICES ASSUME IInv, NEW u \in Open \ torn, documents[u].state \in Settled
                 PROVE  AnsweredFrom(documents[u]) = {documents[u].text}
    BY DEF AnswersAreCurrent
  <2>2. CASE documents[u].state = "semantic"
    <3>1. documents[u].sidecar = documents[u].text
      BY <2>1, <2>2 DEF IInv, Kept
    <3>2. IndexUsed(documents[u]) = documents[u].text
      BY <2>2 DEF IndexUsed
    <3> QED
      BY <2>2, <3>1, <3>2 DEF AnsweredFrom
  <2>3. CASE documents[u].state = "syntactic-fallback"
    <3>1. documents[u].tokens = documents[u].text /\ documents[u].tokens # Nothing
      BY <2>1, <2>3 DEF IInv, Kept
    <3>2. IndexUsed(documents[u]) = documents[u].text
      BY <2>3, <3>1 DEF IndexUsed
    <3> QED
      BY <2>3, <3>1, <3>2 DEF AnsweredFrom
  <2> QED
    BY <2>1, <2>2, <2>3 DEF Settled
<1> QED
  BY <1>1, IInvHolds, PTL

\* No step publishes diagnostics about another text, or under another version,
\* than the open document has.
THEOREM DiagnosticsCurrent == Spec => DiagnosticsAreCurrent
<1>1. IInv /\ [Next]_vars => [Published]_vars
  BY StepInv
<1>2. [Published]_vars =>
        [\A u \in Open' :
           published'[u] # published[u] =>
               /\ published'[u].version = documents'[u].version
               /\ published'[u].about \in {documents'[u].text, Nothing}]_vars
  BY DEF Published
<1> QED
  BY <1>1, <1>2, IInvHolds, PTL DEF Spec, DiagnosticsAreCurrent

(***************************************************************************)
(* The second invariant, about the analyses that are under way: a document   *)
(* has at most one that still counts, a pending one has it unless a change   *)
(* was half applied, and what it waits for will be resolved.                *)
(***************************************************************************)
Epochs == \A u, v \in Open : documents[u].epoch = documents[v].epoch => u = v

\* An analysis that is not aborted is the one its pending document waits for.
Live ==
    \A a \in analyses : ~a.aborted =>
        /\ a.uri \in Open
        /\ documents[a.uri].epoch = a.epoch /\ documents[a.uri].version = a.version
        /\ documents[a.uri].generation = a.generation
        /\ a.uri \notin torn => documents[a.uri].text = a.text
        /\ documents[a.uri].state = "pending"

OneLive ==
    \A a, b \in analyses : ~a.aborted /\ ~b.aborted /\ a.uri = b.uri => a = b

InFlight ==
    phase = "serving" =>
        \A u \in Open \ torn :
            documents[u].state = "pending" => \E a \in analyses : a.uri = u /\ ~a.aborted

Posted ==
    \A a \in analyses : a.stage = "posted" =>
        ~a.aborted /\ Operation(a) \in pending /\ Served(Operation(a))

Workers == worker # 0 => threads[worker].state \in {"up", "crashed"}

\* Nothing but the answers of workers has failed an analysis so far.
Calm == crashes = 0 /\ adapter # "failed"

Rejected ==
    /\ rejections \in [Uris -> Nat] /\ crashes \in Nat
    /\ Calm =>
        /\ \A w \in DOMAIN threads : threads[w].state = "up"
        /\ \A a \in analyses : ~a.aborted => rejections[a.uri] = a.retry
        /\ \A u \in Open :
              documents[u].state = "discarded-invalid-sidecar" => rejections[u] = 2

Flight == Epochs /\ Live /\ OneLive /\ InFlight
Service == Posted /\ Workers

\* At the start there is nothing under way.
LEMMA InitFlight ==
    ASSUME Init
    PROVE  Flight /\ Service /\ Rejected
<1>1. Open = {}
  BY DEF Init, Open, Closed
<1>2. analyses = {} /\ worker = 0 /\ threads = <<>> /\ crashes = 0
      /\ rejections = [u \in Uris |-> 0] /\ DOMAIN threads = {}
  BY DEF Init
<1>3. Flight
  BY <1>1, <1>2 DEF Flight, Epochs, Live, OneLive, InFlight
<1>4. Service
  BY <1>2 DEF Service, Posted, Workers
<1>5. Rejected
  BY <1>1, <1>2 DEF Rejected
<1> QED
  BY <1>3, <1>4, <1>5

Abort(a) == [a EXCEPT !.aborted = TRUE]
Post(a)  == [a EXCEPT !.stage = "posted"]
Again(a) == [a EXCEPT !.stage = "immediate", !.retry = 1]

\* What identifies an analysis.
SameWork(a, b) ==
    /\ a.uri = b.uri /\ a.epoch = b.epoch /\ a.version = b.version
    /\ a.generation = b.generation /\ a.text = b.text

\* An analysis stays the same one through its stages.
LEMMA SameAnalysis ==
    ASSUME NEW a \in Analysis
    PROVE  /\ SameWork(Abort(a), a) /\ Abort(a).aborted /\ Abort(a).stage = a.stage
           /\ SameWork(Post(a), a) /\ Post(a).aborted = a.aborted
           /\ Post(a).stage = "posted" /\ Post(a).retry = a.retry
           /\ SameWork(Again(a), a) /\ Again(a).aborted = a.aborted
           /\ Again(a).stage = "immediate" /\ Again(a).retry = 1
<1>1. SameWork(Abort(a), a) /\ Abort(a).aborted /\ Abort(a).stage = a.stage
  BY DEF Analysis, Abort, SameWork
<1>2. /\ SameWork(Post(a), a) /\ Post(a).aborted = a.aborted
      /\ Post(a).stage = "posted" /\ Post(a).retry = a.retry
  BY DEF Analysis, Post, SameWork
<1>3. /\ SameWork(Again(a), a) /\ Again(a).aborted = a.aborted
      /\ Again(a).stage = "immediate" /\ Again(a).retry = 1
  BY DEF Analysis, Again, SameWork
<1> QED
  BY <1>1, <1>2, <1>3

\* What is left of a set of analyses that are aborted no longer counts.
LEMMA AbortedAreDead ==
    ASSUME NEW S \in SUBSET Analysis
    PROVE  \A x \in Aborted(S) : x.aborted /\ x.stage # "posted"
<1> SUFFICES ASSUME NEW x \in Aborted(S) PROVE x.aborted /\ x.stage # "posted"
  OBVIOUS
<1>1. PICK b \in S : b.stage # "posted" /\ x = Abort(b)
  BY DEF Aborted, Abort
<1> QED
  BY <1>1, SameAnalysis

\* What a result leaves of a document and of its analyses.
Verdict(S, result, u) ==
    {a \in S : currentAnalysis(a) /\ ~Retried(a, result) /\ a.uri = u}

Repeated(S, result) == {a \in S : currentAnalysis(a) /\ Retried(a, result)}

\* Conclude, document by document.
LEMMA Verdicts ==
    ASSUME IInv, NEW S \in SUBSET analyses, NEW result, Conclude(S, result)
    PROVE  /\ analyses' = (analyses \ S) \cup {Again(a) : a \in Repeated(S, result)}
           /\ \A u \in Uris :
                \/ Verdict(S, result, u) = {} /\ documents'[u] = documents[u]
                \/ \E a \in Verdict(S, result, u) :
                      documents'[u] = Concluded(documents[u], a, result)
<1> DEFINE again == {a \in {b \in S : currentAnalysis(b)} : Retried(a, result)}
           sets == [u \in Uris |-> {a \in {b \in S : currentAnalysis(b)} \ again : a.uri = u}]
<1>1. /\ documents' = [u \in Uris |->
            IF sets[u] = {} THEN documents[u]
            ELSE Concluded(documents[u], CHOOSE a \in sets[u] : TRUE, result)]
      /\ analyses' = (analyses \ S) \cup
            {[a EXCEPT !.stage = "immediate", !.retry = 1] : a \in again}
  BY DEF Conclude
<1>2. again = Repeated(S, result)
  BY DEF Repeated
<1>3. \A u \in Uris : sets[u] = Verdict(S, result, u)
  BY DEF Verdict
<1> HIDE DEF again, sets
<1>4. analyses' = (analyses \ S) \cup {Again(a) : a \in Repeated(S, result)}
  BY <1>1, <1>2 DEF Again
<1>5. ASSUME NEW u \in Uris
      PROVE  \/ Verdict(S, result, u) = {} /\ documents'[u] = documents[u]
             \/ \E a \in Verdict(S, result, u) :
                   documents'[u] = Concluded(documents[u], a, result)
  <2>1. documents'[u] = IF sets[u] = {} THEN documents[u]
                        ELSE Concluded(documents[u], CHOOSE a \in sets[u] : TRUE, result)
    BY <1>1, Zenon
  <2>2. sets[u] = Verdict(S, result, u)
    BY <1>3
  <2>3. CASE sets[u] = {}
    BY <2>1, <2>2, <2>3
  <2>4. CASE sets[u] # {}
    <3>1. (CHOOSE a \in sets[u] : TRUE) \in sets[u]
      BY <2>4, ChooseOne
    <3> QED
      BY <2>1, <2>2, <2>4, <3>1
  <2> QED
    BY <2>3, <2>4
<1> QED
  BY <1>4, <1>5

\* The analyses that share a signal are aborted together, and their operations
\* leave pending; the others keep theirs.
LEMMA SignalledTogether ==
    ASSUME IInv, Posted, NEW hit \in SUBSET analyses,
           \A a \in hit, b \in analyses :
               b.epoch = a.epoch /\ b.generation = a.generation => b \in hit,
           pending' = pending \ {Operation(a) : a \in hit}, threads' = threads,
           NEW new, new.stage = "await",
           analyses' \subseteq (analyses \ hit) \cup Aborted(hit) \cup {new}
    PROVE  Posted'
<1>1. \A x \in Aborted(hit) : x.stage # "posted"
  BY AbortedAreDead DEF IInv, Typed
<1>2. SUFFICES ASSUME NEW x \in analyses', x.stage = "posted"
               PROVE  ~x.aborted /\ Operation(x) \in pending' /\ Served(Operation(x))'
  BY DEF Posted, Operation, Served
<1>3. x \in analyses \ hit
  BY <1>1, <1>2
<1>4. ~x.aborted /\ Operation(x) \in pending /\ Served(Operation(x))
  BY <1>2, <1>3 DEF Posted
<1>5. \A a \in hit : Operation(x) # Operation(a)
  BY <1>3 DEF Operation
<1> QED
  BY <1>4, <1>5 DEF Served

\* A document gets a new analysis, and any earlier one of it no longer counts.
LEMMA ScheduleFlight ==
    ASSUME IInv, Flight, Service, Rejected, NEW u \in Uris, NEW d \in Document,
           scheduleSemanticAnalysis(u, documents[u], d),
           d.epoch \in 1 .. MaxSessions, d.generation \in 0 .. MaxChanges,
           \A v \in Open \ {u} : documents[v].epoch # d.epoch,
           UNCHANGED <<phase, adapter, worker, threads, crashes>>
    PROVE  Flight' /\ Service' /\ Rejected'
<1> DEFINE old == documents[u]
           hit == {a \in analyses : old.open /\ HoldsSignal(a, old)}
           new == Captured(u, Scheduled(d))
<1>1. /\ documents' = [documents EXCEPT ![u] = Scheduled(d)]
      /\ torn' = torn \ {u}
      /\ analyses' = (analyses \ hit) \cup Aborted(hit) \cup {new}
      /\ pending' = pending \ {Operation(a) : a \in hit}
      /\ rejections' = [rejections EXCEPT ![u] = 0]
  BY DEF scheduleSemanticAnalysis, Scheduled
<1>2. /\ Scheduled(d).epoch = d.epoch /\ Scheduled(d).version = d.version
      /\ Scheduled(d).state = "pending" /\ Scheduled(d).open = TRUE
  BY ScheduledType
<1>3. /\ new.uri = u /\ new.epoch = d.epoch /\ new.version = d.version
      /\ new.generation = Scheduled(d).generation /\ new.text = Scheduled(d).text
      /\ new.aborted = FALSE /\ new.retry = 0 /\ new.stage = "await"
  BY <1>2 DEF Captured
<1>4. documents \in [Uris -> {Closed} \cup Document] /\ analyses \subseteq Analysis
  BY DEF IInv, Typed
<1>5. documents'[u] = Scheduled(d) /\ \A v \in Uris \ {u} : documents'[v] = documents[v]
  BY <1>1, <1>4
<1>6. Open' = Open \cup {u}
  BY <1>2, <1>5 DEF Open
<1>7. \A a \in hit, b \in analyses :
         b.epoch = a.epoch /\ b.generation = a.generation => b \in hit
  BY DEF HoldsSignal
<1>8. \A x \in Aborted(hit) : x.aborted /\ x.stage # "posted"
  BY <1>4, AbortedAreDead
<1>9. ASSUME NEW x \in analyses, ~x.aborted, x.uri = u
      PROVE  x \in hit
  BY <1>9 DEF Flight, Live, HoldsSignal, Open
<1>10. ASSUME NEW x \in hit, ~x.aborted
       PROVE  x.uri = u
  <2>1. /\ x.uri \in Open /\ documents[x.uri].epoch = x.epoch
    BY <1>10 DEF Flight, Live
  <2>2. u \in Open /\ documents[u].epoch = x.epoch
    BY <1>10 DEF HoldsSignal, Open
  <2> QED
    BY <2>1, <2>2 DEF Flight, Epochs
<1> HIDE DEF hit, new, old
<1>11. hit \in SUBSET analyses
  BY DEF hit
<1>12. Posted'
  BY <1>1, <1>3, <1>7, <1>11, SignalledTogether DEF Service
<1>13. Workers'
  BY DEF Service, Workers
<1>14. ASSUME NEW x \in analyses', ~x.aborted
       PROVE  x = new \/ (x \in analyses /\ x.uri # u)
  BY <1>1, <1>8, <1>9, <1>14
<1>15. ASSUME NEW x \in analyses, ~x.aborted, x.uri # u
       PROVE  x \in analyses'
  BY <1>1, <1>10, <1>15
<1>16. new \in analyses'
  BY <1>1
<1>17. Epochs'
  BY <1>2, <1>5, <1>6 DEF Flight, Epochs, Open
<1>18. Live'
  <2>1. SUFFICES ASSUME NEW x \in analyses', ~x.aborted
                 PROVE /\ x.uri \in Open'
                       /\ documents'[x.uri].epoch = x.epoch
                       /\ documents'[x.uri].version = x.version
                       /\ documents'[x.uri].generation = x.generation
                       /\ x.uri \notin torn' => documents'[x.uri].text = x.text
                       /\ documents'[x.uri].state = "pending"
    BY DEF Live
  <2>2. CASE x = new
    BY <2>2, <1>2, <1>3, <1>5, <1>6
  <2>3. CASE x \in analyses /\ x.uri # u
    <3>1. /\ x.uri \in Open
          /\ documents[x.uri].epoch = x.epoch /\ documents[x.uri].version = x.version
          /\ documents[x.uri].generation = x.generation
          /\ x.uri \notin torn => documents[x.uri].text = x.text
          /\ documents[x.uri].state = "pending"
      BY <2>1, <2>3 DEF Flight, Live
    <3>2. documents'[x.uri] = documents[x.uri] /\ x.uri \in Open'
      BY <1>5, <1>6, <2>3, <3>1 DEF Open
    <3> QED
      BY <1>1, <2>3, <3>1, <3>2
  <2> QED
    BY <1>14, <2>1, <2>2, <2>3
<1>19. OneLive'
  BY <1>3, <1>14 DEF Flight, OneLive
<1>20. InFlight'
  <2>1. SUFFICES ASSUME phase = "serving", NEW v \in Open' \ torn',
                        documents'[v].state = "pending"
                 PROVE  \E a \in analyses' : a.uri = v /\ ~a.aborted
    BY DEF InFlight
  <2>2. CASE v = u
    BY <1>3, <1>16, <2>2
  <2>3. CASE v # u
    <3>1. v \in Open \ torn /\ documents[v].state = "pending"
      BY <1>1, <1>5, <1>6, <2>1, <2>3 DEF Open
    <3> QED
      BY <1>15, <2>1, <2>3, <3>1 DEF Flight, InFlight
  <2> QED
    BY <2>2, <2>3
<1>21. Rejected'
  <2>1. rejections' \in [Uris -> Nat] /\ crashes' \in Nat /\ rejections'[u] = 0
        /\ \A v \in Uris \ {u} : rejections'[v] = rejections[v]
    BY <1>1 DEF Rejected
  <2>2. ASSUME Calm'
        PROVE  /\ \A w \in DOMAIN threads' : threads'[w].state = "up"
               /\ \A a \in analyses' : ~a.aborted => rejections'[a.uri] = a.retry
               /\ \A v \in Open' :
                     documents'[v].state = "discarded-invalid-sidecar" => rejections'[v] = 2
    <3>1. Calm
      BY <2>2 DEF Calm
    <3>2. \A w \in DOMAIN threads' : threads'[w].state = "up"
      BY <3>1 DEF Rejected
    <3>3. ASSUME NEW a \in analyses', ~a.aborted PROVE rejections'[a.uri] = a.retry
      <4>1. CASE a = new
        BY <1>3, <2>1, <4>1
      <4>2. CASE a \in analyses /\ a.uri # u
        <5>1. a.uri \in Uris
          BY <1>4, <4>2 DEF Analysis
        <5> QED
          BY <2>1, <3>1, <3>3, <4>2, <5>1 DEF Rejected
      <4> QED
        BY <1>14, <3>3, <4>1, <4>2
    <3>4. ASSUME NEW v \in Open', documents'[v].state = "discarded-invalid-sidecar"
          PROVE  rejections'[v] = 2
      <4>1. v # u /\ v \in Open
        BY <1>2, <1>5, <1>6, <3>4
      <4>2. documents[v].state = "discarded-invalid-sidecar" /\ v \in Uris
        BY <1>5, <3>4, <4>1 DEF Open
      <4> QED
        BY <2>1, <3>1, <4>1, <4>2 DEF Rejected
    <3> QED
      BY <3>2, <3>3, <3>4
  <2> QED
    BY <2>1, <2>2 DEF Rejected
<1> QED
  BY <1>12, <1>13, <1>17, <1>18, <1>19, <1>20, <1>21 DEF Flight, Service

\* didOpen keeps the second invariant.
LEMMA OpenFlight ==
    ASSUME IInv, Flight, Service, Rejected,
           NEW u \in Uris, NEW v \in Versions, NEW t \in Texts, didOpen(u, v, t)
    PROVE  Flight' /\ Service' /\ Rejected'
<1> DEFINE d == Opened(sessionSequence + 1, v, t)
<1>1. /\ sessionSequence \in 0 .. MaxSessions /\ MaxSessions \in Nat /\ MaxChanges \in Nat
      /\ sessionSequence < MaxSessions
  BY BoundsAreNumbers DEF IInv, Typed, didOpen
<1>2. d \in Document /\ d.epoch = sessionSequence + 1 /\ d.generation = 0
  BY <1>1 DEF Opened, Document, States
<1>3. scheduleSemanticAnalysis(u, documents[u], d)
  BY DEF didOpen
<1>4. UNCHANGED <<phase, adapter, worker, threads, crashes>>
  BY DEF didOpen
<1> HIDE DEF d
<1>5. d.epoch \in 1 .. MaxSessions /\ d.generation \in 0 .. MaxChanges
  BY <1>1, <1>2
<1>6. ASSUME NEW w \in Open \ {u} PROVE documents[w].epoch # d.epoch
  <2>1. documents[w].epoch \in 1 .. sessionSequence
    BY DEF IInv, Counted
  <2> QED
    BY <1>1, <1>2, <2>1
<1> QED
  BY <1>2, <1>3, <1>4, <1>5, <1>6, ScheduleFlight

\* didChange keeps the second invariant.
LEMMA ChangeFlight ==
    ASSUME IInv, Flight, Service, Rejected,
           NEW u \in Uris, NEW v \in Versions, NEW t \in Texts, didChange(u, v, t)
    PROVE  Flight' /\ Service' /\ Rejected'
<1> DEFINE d == [documents[u] EXCEPT !.text = t, !.version = v]
<1>1. /\ changes \in 0 .. MaxChanges /\ MaxChanges \in Nat /\ changes < MaxChanges
      /\ sessionSequence \in 0 .. MaxSessions /\ MaxSessions \in Nat
      /\ u \in Open
  BY BoundsAreNumbers DEF IInv, Typed, didChange
<1>2. documents[u] \in Document
  BY <1>1, OpenIsDocument DEF IInv
<1>3. /\ d \in Document /\ d.epoch = documents[u].epoch
      /\ d.generation = documents[u].generation
  <2>1. [documents[u] EXCEPT !.text = t] \in Document
    BY <1>2 DEF Document
  <2>2. [[documents[u] EXCEPT !.text = t] EXCEPT !.version = v] \in Document
    BY <2>1 DEF Document
  <2> QED
    BY <1>2, <2>2 DEF Document
<1>4. /\ documents[u].epoch \in 1 .. sessionSequence
      /\ documents[u].generation \in 0 .. changes + 1
  BY <1>1 DEF IInv, Counted
<1>5. scheduleSemanticAnalysis(u, documents[u], d)
  BY DEF didChange
<1>6. UNCHANGED <<phase, adapter, worker, threads, crashes>>
  BY DEF didChange
<1> HIDE DEF d
<1>7. d.epoch \in 1 .. MaxSessions /\ d.generation \in 0 .. MaxChanges
  BY <1>1, <1>3, <1>4
<1>8. ASSUME NEW w \in Open \ {u} PROVE documents[w].epoch # d.epoch
  BY <1>1, <1>3 DEF Flight, Epochs
<1> QED
  BY <1>3, <1>5, <1>6, <1>7, <1>8, ScheduleFlight

\* A step that leaves every document what it is to its analysis.
LEMMA RelabelFlight ==
    ASSUME IInv, Flight, Service, Rejected, NEW u \in Open, NEW d \in Document,
           documents' = [documents EXCEPT ![u] = d],
           d.epoch = documents[u].epoch, d.version = documents[u].version,
           d.generation = documents[u].generation, d.state = documents[u].state,
           \/ torn' = torn \cup {u}
           \/ torn' = torn /\ d.text = documents[u].text,
           UNCHANGED <<phase, rejections, tasks>>
    PROVE  Flight' /\ Service' /\ Rejected'
<1>1. documents \in [Uris -> {Closed} \cup Document] /\ u \in Uris /\ documents[u].open
  BY DEF IInv, Typed, Open
<1>2. d.open = TRUE
  BY DEF Document
<1>3. documents'[u] = d /\ \A v \in Uris \ {u} : documents'[v] = documents[v]
  BY <1>1
<1>4. Open' = Open
  BY <1>1, <1>2, <1>3 DEF Open
<1>5. \A v \in Open :
        /\ documents'[v].epoch = documents[v].epoch
        /\ documents'[v].version = documents[v].version
        /\ documents'[v].generation = documents[v].generation
        /\ documents'[v].state = documents[v].state
        /\ v \notin torn' => v \notin torn /\ documents'[v].text = documents[v].text
  BY <1>3 DEF Open
<1>6. UNCHANGED <<adapter, analyses, pending, worker, threads, crashes>>
  BY DEF tasks
<1>7. Epochs'
  BY <1>4, <1>5 DEF Flight, Epochs
<1>8. Live'
  BY <1>4, <1>5, <1>6 DEF Flight, Live
<1>9. OneLive'
  BY <1>6 DEF Flight, OneLive
<1>10. InFlight'
  BY <1>4, <1>5, <1>6 DEF Flight, InFlight
<1>11. Service'
  BY <1>6 DEF Service, Posted, Workers, Operation, Served
<1>12. Rejected'
  BY <1>4, <1>5, <1>6 DEF Rejected, Calm
<1> QED
  BY <1>7, <1>8, <1>9, <1>10, <1>11, <1>12 DEF Flight

\* A change that is refused half way keeps the second invariant.
LEMMA ChangeHalfFlight ==
    ASSUME IInv, Flight, Service, Rejected,
           NEW u \in Uris, NEW v \in Versions, NEW t \in Texts, didChangeHalf(u, v, t)
    PROVE  Flight' /\ Service' /\ Rejected'
<1> DEFINE d == [documents[u] EXCEPT !.text = t]
<1>1. /\ u \in Open /\ torn' = torn \cup {u} /\ documents' = [documents EXCEPT ![u] = d]
      /\ UNCHANGED <<phase, rejections, tasks>>
  BY DEF didChangeHalf
<1>2. documents[u] \in Document
  BY <1>1, OpenIsDocument DEF IInv
<1>3. /\ d \in Document /\ d.epoch = documents[u].epoch /\ d.version = documents[u].version
      /\ d.generation = documents[u].generation /\ d.state = documents[u].state
  BY <1>2 DEF Document
<1> HIDE DEF d
<1> QED
  BY <1>1, <1>3, RelabelFlight

\* A request that memoises its index keeps the second invariant.
LEMMA IndexFlight ==
    ASSUME IInv, Flight, Service, Rejected, NEW u \in Uris, buildLexicalIndex(u)
    PROVE  Flight' /\ Service' /\ Rejected'
<1> DEFINE d == [documents[u] EXCEPT !.lexicalIndex = documents[u].text]
<1>1. /\ u \in Open /\ torn' = torn /\ documents' = [documents EXCEPT ![u] = d]
      /\ UNCHANGED <<phase, rejections, tasks>>
  BY DEF buildLexicalIndex
<1>2. documents[u] \in Document
  BY <1>1, OpenIsDocument DEF IInv
<1>3. /\ d \in Document /\ d.epoch = documents[u].epoch /\ d.version = documents[u].version
      /\ d.generation = documents[u].generation /\ d.state = documents[u].state
      /\ d.text = documents[u].text
  BY <1>2 DEF Document
<1> HIDE DEF d
<1> QED
  BY <1>1, <1>3, RelabelFlight

\* didClose takes the operations of its document out of the table.
LEMMA CloseFlight ==
    ASSUME IInv, Flight, Service, Rejected, NEW u \in Uris, didClose(u)
    PROVE  Flight' /\ Service' /\ Rejected'
<1> DEFINE hit == {a \in analyses : \E d \in {documents[u]} : HoldsSignal(a, d)}
<1>1. /\ u \in Open /\ documents' = [documents EXCEPT ![u] = Closed] /\ torn' = torn \ {u}
      /\ analyses' = (analyses \ hit) \cup Aborted(hit)
      /\ pending' = pending \ {Operation(a) : a \in hit}
      /\ rejections' = [rejections EXCEPT ![u] = 0]
      /\ UNCHANGED <<phase, adapter, worker, threads, crashes>>
  BY DEF didClose, AbortDocuments
<1>2. documents \in [Uris -> {Closed} \cup Document] /\ analyses \subseteq Analysis
  BY DEF IInv, Typed
<1>3. documents'[u] = Closed /\ \A v \in Uris \ {u} : documents'[v] = documents[v]
  BY <1>1, <1>2
<1>4. Open' = Open \ {u}
  BY <1>3 DEF Open, Closed
<1>5. \A x \in Aborted(hit) : x.aborted /\ x.stage # "posted"
  BY <1>2, AbortedAreDead
<1>6. ASSUME NEW x \in analyses, ~x.aborted PROVE x.uri = u <=> x \in hit
  <2>1. x.uri \in Open /\ documents[x.uri].epoch = x.epoch
        /\ documents[x.uri].generation = x.generation
    BY <1>6 DEF Flight, Live
  <2> QED
    BY <1>1, <2>1 DEF Flight, Epochs, HoldsSignal
<1>7. \A a \in hit, b \in analyses :
         b.epoch = a.epoch /\ b.generation = a.generation => b \in hit
  BY DEF HoldsSignal
<1> HIDE DEF hit
<1>8. ASSUME NEW x \in analyses', ~x.aborted PROVE x \in analyses /\ x.uri # u
  BY <1>1, <1>5, <1>6, <1>8
<1>9. ASSUME NEW x \in analyses, ~x.aborted, x.uri # u PROVE x \in analyses'
  BY <1>1, <1>6, <1>9
<1>10. hit \in SUBSET analyses /\ Posted
  BY DEF hit, Service
<1>11. Posted'
  <2> DEFINE new == [stage |-> "await"]
  <2>1. new.stage = "await"
    OBVIOUS
  <2> HIDE DEF new
  <2> QED
    BY <1>1, <1>7, <1>10, <2>1, SignalledTogether
<1>12. Workers'
  BY <1>1 DEF Service, Workers
<1>13. Epochs'
  BY <1>3, <1>4 DEF Flight, Epochs, Open
<1>14. Live'
  <2>1. SUFFICES ASSUME NEW x \in analyses', ~x.aborted
                 PROVE /\ x.uri \in Open'
                       /\ documents'[x.uri].epoch = x.epoch
                       /\ documents'[x.uri].version = x.version
                       /\ documents'[x.uri].generation = x.generation
                       /\ x.uri \notin torn' => documents'[x.uri].text = x.text
                       /\ documents'[x.uri].state = "pending"
    BY DEF Live
  <2>2. x \in analyses /\ x.uri # u
    BY <1>8, <2>1
  <2>3. /\ x.uri \in Open
        /\ documents[x.uri].epoch = x.epoch /\ documents[x.uri].version = x.version
        /\ documents[x.uri].generation = x.generation
        /\ x.uri \notin torn => documents[x.uri].text = x.text
        /\ documents[x.uri].state = "pending"
    BY <2>1, <2>2 DEF Flight, Live
  <2>4. documents'[x.uri] = documents[x.uri] /\ x.uri \in Open'
    BY <1>3, <1>4, <2>2, <2>3 DEF Open
  <2> QED
    BY <1>1, <2>2, <2>3, <2>4
<1>15. OneLive'
  BY <1>8 DEF Flight, OneLive
<1>16. InFlight'
  <2>1. SUFFICES ASSUME phase = "serving", NEW v \in Open' \ torn',
                        documents'[v].state = "pending"
                 PROVE  \E a \in analyses' : a.uri = v /\ ~a.aborted
    BY <1>1 DEF InFlight
  <2>2. v # u /\ v \in Open \ torn /\ documents[v].state = "pending"
    BY <1>1, <1>3, <1>4, <2>1 DEF Open
  <2> QED
    BY <1>9, <2>1, <2>2 DEF Flight, InFlight
<1>17. Rejected'
  <2>1. /\ rejections' \in [Uris -> Nat] /\ crashes' \in Nat
        /\ \A v \in Uris \ {u} : rejections'[v] = rejections[v]
    BY <1>1 DEF Rejected
  <2>2. Calm' = Calm
    BY <1>1 DEF Calm
  <2>3. ASSUME NEW a \in analyses', ~a.aborted, Calm PROVE rejections'[a.uri] = a.retry
    <3>1. a \in analyses /\ a.uri # u /\ a.uri \in Uris
      BY <1>2, <1>8, <2>3 DEF Analysis
    <3> QED
      BY <2>1, <2>3, <3>1 DEF Rejected
  <2>4. ASSUME NEW v \in Open', documents'[v].state = "discarded-invalid-sidecar", Calm
        PROVE  rejections'[v] = 2
    <3>1. v \in Open \ {u} /\ documents[v].state = "discarded-invalid-sidecar" /\ v \in Uris
      BY <1>3, <1>4, <2>4 DEF Open
    <3> QED
      BY <2>1, <2>4, <3>1 DEF Rejected
  <2> QED
    BY <1>1, <2>1, <2>2, <2>3, <2>4 DEF Rejected
<1> QED
  BY <1>11, <1>12, <1>13, <1>14, <1>15, <1>16, <1>17 DEF Flight, Service

\* shutdown leaves no operation and no worker to answer one.
LEMMA ShutdownFlight ==
    ASSUME IInv, Flight, Service, Rejected, shutdown
    PROVE  Flight' /\ Service' /\ Rejected'
<1> DEFINE hit == {a \in analyses : \E d \in {documents[u] : u \in Open} : HoldsSignal(a, d)}
<1>1. /\ phase' = "shutdown"
      /\ analyses' = (analyses \ hit) \cup Aborted(hit)
      /\ UNCHANGED <<documents, torn, rejections, adapter, worker, threads, crashes>>
  BY DEF shutdown, AbortDocuments
<1>2. \A x \in Aborted(hit) : x.aborted /\ x.stage # "posted"
  BY AbortedAreDead DEF IInv, Typed
<1>3. \A x \in analyses : ~x.aborted => x \in hit
  BY DEF Flight, Live, HoldsSignal
<1> HIDE DEF hit
<1>4. \A x \in analyses' : x.aborted /\ x.stage # "posted"
  BY <1>1, <1>2, <1>3 DEF Service, Posted
<1>5. Open' = Open
  BY <1>1 DEF Open
<1>6. Flight'
  BY <1>1, <1>4, <1>5 DEF Flight, Epochs, Live, OneLive, InFlight
<1>7. Service'
  BY <1>1, <1>4 DEF Service, Posted, Workers
<1>8. Rejected'
  BY <1>1, <1>4, <1>5 DEF Rejected, Calm
<1> QED
  BY <1>6, <1>7, <1>8

\* exit leaves nothing.
LEMMA ExitFlight ==
    ASSUME Rejected, exit
    PROVE  Flight' /\ Service' /\ Rejected'
<1>1. /\ Open' = {} /\ analyses' = {} /\ worker' = 0 /\ DOMAIN threads' = {}
      /\ rejections' = [u \in Uris |-> 0] /\ crashes' = crashes
  BY DEF exit, Open, Closed
<1>2. Flight'
  BY <1>1 DEF Flight, Epochs, Live, OneLive, InFlight
<1>3. Service'
  BY <1>1 DEF Service, Posted, Workers
<1>4. Rejected'
  BY <1>1 DEF Rejected
<1> QED
  BY <1>2, <1>3, <1>4

\* The adapter that loads, or does not, posts nothing yet.
LEMMA SettlesFlight ==
    ASSUME Flight, Service, Rejected, NEW to \in {"loaded", "failed"}, adapterSettles(to)
    PROVE  Flight' /\ Service' /\ Rejected'
<1>1. /\ adapter = "loading"
      /\ UNCHANGED <<documents, torn, rejections, phase, analyses, pending, worker, threads,
                     crashes>>
  BY DEF adapterSettles, client
<1>2. Open' = Open
  BY <1>1 DEF Open
<1>3. Flight'
  BY <1>1, <1>2 DEF Flight, Epochs, Live, OneLive, InFlight
<1>4. Service'
  BY <1>1 DEF Service, Posted, Workers, Operation, Served
<1>5. Rejected'
  BY <1>1, <1>2 DEF Rejected, Calm
<1> QED
  BY <1>3, <1>4, <1>5

\* A worker that crashes serves nobody, but its events are still to come.
LEMMA CrashFlight ==
    ASSUME IInv, Flight, Service, Rejected, NEW w \in DOMAIN threads, worker_crashes(w)
    PROVE  Flight' /\ Service' /\ Rejected'
<1>1. /\ crashes' = crashes + 1
      /\ threads' = [threads EXCEPT ![w] = [state |-> "crashed", inbox |-> <<>>]]
      /\ UNCHANGED <<documents, torn, rejections, phase, adapter, analyses, pending, worker>>
  BY DEF worker_crashes, client
<1>2. threads \in Seq(Thread) /\ worker \in 0 .. Len(threads)
  BY DEF IInv, Typed
<1>3. /\ DOMAIN threads' = DOMAIN threads /\ threads'[w].state = "crashed"
      /\ \A v \in DOMAIN threads \ {w} : threads'[v] = threads[v]
  BY <1>1
<1>4. Open' = Open
  BY <1>1 DEF Open
<1>5. Flight'
  BY <1>1, <1>4 DEF Flight, Epochs, Live, OneLive, InFlight
<1>6. Workers'
  BY <1>1, <1>2, <1>3 DEF Service, Workers
<1>7. \A op : Served(op) => Served(op)'
  BY <1>3 DEF Served
<1>8. Posted'
  BY <1>1, <1>7 DEF Service, Posted, Operation
<1>9. Rejected'
  BY <1>1 DEF Rejected, Calm
<1> QED
  BY <1>5, <1>6, <1>8, <1>9 DEF Service

\* A document that is concluded is no longer pending.
LEMMA ConcludedSettles ==
    ASSUME NEW d \in Document, NEW a \in Analysis, NEW result \in Results,
           ~Retried(a, result)
    PROVE  /\ Concluded(d, a, result).state # "pending"
           /\ Concluded(d, a, result).state = "discarded-invalid-sidecar" =>
                 result = "failure" /\ a.retry = 1
<1>1. a.retry \in 0 .. 1
  BY DEF Analysis
<1>2. result = "failure" => a.retry = 1
  BY <1>1 DEF Retried
<1>3. CASE result = "sidecar"
  BY <1>3 DEF Concluded, Document
<1>4. CASE result = "ETS04"
  BY <1>4 DEF Concluded, Document
<1>5. CASE result = "failure"
  BY <1>2, <1>5 DEF Concluded, Document
<1> QED
  BY <1>3, <1>4, <1>5 DEF Results

\* Where an analysis comes from that is there after a result.
Origin(x, y, S, result) ==
    \/ x = y /\ x \notin S
    \/ y \in Repeated(S, result) /\ x = Again(y)

\* Every analysis after a result comes from one before it, for the same work.
LEMMA Origins ==
    ASSUME IInv, NEW S \in SUBSET analyses, NEW result, Conclude(S, result),
           NEW x \in analyses'
    PROVE  \E y \in analyses : /\ Origin(x, y, S, result) /\ SameWork(x, y)
                               /\ x.aborted = y.aborted
<1>1. analyses' = (analyses \ S) \cup {Again(a) : a \in Repeated(S, result)}
  BY Verdicts
<1>2. CASE x \in analyses \ S
  BY <1>2 DEF Origin, SameWork
<1>3. ASSUME NEW y \in Repeated(S, result), x = Again(y)
      PROVE  \E z \in analyses : /\ Origin(x, z, S, result) /\ SameWork(x, z)
                                 /\ x.aborted = z.aborted
  <2>1. y \in analyses /\ y \in Analysis
    BY DEF Repeated, IInv, Typed
  <2>2. SameWork(Again(y), y) /\ Again(y).aborted = y.aborted
    BY <2>1, SameAnalysis
  <2> QED
    BY <1>3, <2>1, <2>2 DEF Origin
<1> QED
  BY <1>1, <1>2, <1>3

\* The document of an analysis that goes on stays as it is.
LEMMA Undecided ==
    ASSUME IInv, Flight, NEW S \in SUBSET analyses, NEW result, Conclude(S, result),
           NEW x, NEW y \in analyses, Origin(x, y, S, result), ~y.aborted
    PROVE  /\ documents'[y.uri] = documents[y.uri]
           /\ \A a \in S : ~a.aborted /\ a.uri = y.uri => a = y /\ x = Again(y)
<1>1. \A a \in S : ~a.aborted /\ a.uri = y.uri => a = y
  BY DEF Flight, OneLive
<1>2. Verdict(S, result, y.uri) = {}
  <2>1. SUFFICES ASSUME NEW a \in Verdict(S, result, y.uri) PROVE FALSE
    OBVIOUS
  <2>2. a \in S /\ ~a.aborted /\ a.uri = y.uri /\ ~Retried(a, result)
    BY DEF Verdict, currentAnalysis
  <2>3. a = y
    BY <1>1, <2>2
  <2> QED
    BY <2>2, <2>3 DEF Origin, Repeated
<1>3. y.uri \in Uris
  BY DEF IInv, Typed, Analysis
<1>4. documents'[y.uri] = documents[y.uri]
  BY <1>2, <1>3, Verdicts
<1> QED
  BY <1>1, <1>4 DEF Origin

\* Operations that are answered leave the table with the stage of their
\* analyses, and a retry is under way for the same document.
LEMMA ConcludeFlight ==
    ASSUME IInv, Flight, NEW S \in SUBSET analyses, NEW result, Conclude(S, result),
           result \in Results \/ \A a \in S : a.aborted,
           UNCHANGED <<sessionSequence, phase, torn>>
    PROVE  Flight'
<1>1. ASSUME NEW u \in Uris
      PROVE  /\ u \in Open' <=> u \in Open
             /\ u \in Open => documents'[u].epoch = documents[u].epoch
             /\ \/ documents'[u] = documents[u] /\ Verdict(S, result, u) = {}
                \/ documents'[u].state # "pending"
  <2>1. CASE Verdict(S, result, u) = {} /\ documents'[u] = documents[u]
    BY <2>1 DEF Open
  <2>2. ASSUME NEW a \in Verdict(S, result, u),
               documents'[u] = Concluded(documents[u], a, result)
        PROVE  /\ u \in Open' <=> u \in Open
               /\ u \in Open => documents'[u].epoch = documents[u].epoch
               /\ documents'[u].state # "pending"
    <3>1. /\ a \in S /\ a \in Analysis /\ ~a.aborted /\ ~Retried(a, result)
          /\ documents[u].open
      BY DEF Verdict, currentAnalysis, IInv, Typed
    <3>2. documents[u] \in Document /\ u \in Open
      BY <3>1, OpenIsDocument DEF Open, IInv
    <3>3. result \in Results
      BY <3>1
    <3> DEFINE e == Concluded(documents[u], a, result)
    <3>4. e.open = TRUE /\ e.epoch = documents[u].epoch
      BY <3>1, <3>2, ConcludedType, ZenonT(40)
    <3>5. e.state # "pending"
      BY <3>1, <3>2, <3>3, ConcludedSettles
    <3> HIDE DEF e
    <3>6. documents'[u] = e
      BY <2>2 DEF e
    <3> QED
      BY <3>2, <3>4, <3>5, <3>6 DEF Open
  <2> QED
    BY <2>1, <2>2, Verdicts
<1>2. Open' = Open
  BY <1>1 DEF Open
<1>3. Epochs'
  BY <1>1, <1>2 DEF Flight, Epochs, Open
<1>4. Live'
  <2>1. SUFFICES ASSUME NEW x \in analyses', ~x.aborted
                 PROVE /\ x.uri \in Open'
                       /\ documents'[x.uri].epoch = x.epoch
                       /\ documents'[x.uri].version = x.version
                       /\ documents'[x.uri].generation = x.generation
                       /\ x.uri \notin torn' => documents'[x.uri].text = x.text
                       /\ documents'[x.uri].state = "pending"
    BY DEF Live
  <2>2. PICK y \in analyses : /\ Origin(x, y, S, result) /\ SameWork(x, y)
                              /\ x.aborted = y.aborted
    BY Origins
  <2>3. /\ y.uri \in Open
        /\ documents[y.uri].epoch = y.epoch /\ documents[y.uri].version = y.version
        /\ documents[y.uri].generation = y.generation
        /\ y.uri \notin torn => documents[y.uri].text = y.text
        /\ documents[y.uri].state = "pending"
    BY <2>1, <2>2 DEF Flight, Live
  <2>4. documents'[y.uri] = documents[y.uri]
    BY <2>1, <2>2, Undecided
  <2> QED
    BY <1>2, <2>2, <2>3, <2>4 DEF SameWork
<1>5. OneLive'
  <2>1. SUFFICES ASSUME NEW x \in analyses', NEW z \in analyses', ~x.aborted, ~z.aborted,
                        x.uri = z.uri
                 PROVE  x = z
    BY DEF OneLive
  <2>2. PICK y \in analyses : /\ Origin(x, y, S, result) /\ SameWork(x, y)
                              /\ x.aborted = y.aborted
    BY Origins
  <2>3. PICK v \in analyses : /\ Origin(z, v, S, result) /\ SameWork(z, v)
                              /\ z.aborted = v.aborted
    BY Origins
  <2>4. y = v
    BY <2>1, <2>2, <2>3 DEF Flight, OneLive, SameWork
  <2> QED
    BY <2>2, <2>3, <2>4 DEF Origin, Repeated
<1>6. InFlight'
  <2>1. SUFFICES ASSUME phase = "serving", NEW u \in Open' \ torn',
                        documents'[u].state = "pending"
                 PROVE  \E a \in analyses' : a.uri = u /\ ~a.aborted
    BY DEF InFlight
  <2>2. u \in Open \ torn /\ u \in Uris
    BY <1>2, <2>1 DEF Open
  <2>3. documents'[u] = documents[u] /\ Verdict(S, result, u) = {}
    BY <1>1, <2>1, <2>2
  <2>4. PICK y \in analyses : y.uri = u /\ ~y.aborted
    BY <2>1, <2>2, <2>3 DEF Flight, InFlight
  <2>5. analyses' = (analyses \ S) \cup {Again(a) : a \in Repeated(S, result)}
    BY Verdicts
  <2>6. CASE y \notin S
    BY <2>4, <2>5, <2>6
  <2>7. CASE y \in S
    <3>1. currentAnalysis(y)
      BY <2>2, <2>4 DEF Flight, Live, currentAnalysis, Open
    <3>2. y \in Repeated(S, result)
      BY <2>3, <2>4, <2>7, <3>1 DEF Verdict, Repeated
    <3>3. Again(y).uri = y.uri /\ Again(y).aborted = y.aborted
      BY SameAnalysis DEF IInv, Typed, SameWork
    <3> QED
      BY <2>4, <2>5, <3>2, <3>3
  <2> QED
    BY <2>6, <2>7
<1> QED
  BY <1>3, <1>4, <1>5, <1>6 DEF Flight

\* The worker that an analysis is posted to has its message, or has crashed.
LEMMA PostServes ==
    ASSUME IInv, Service, NEW a \in Analysis, post(a)
    PROVE  /\ Workers' /\ Served(Operation(a))'
           /\ \A op : Served(op) => Served(op)'
           /\ (\A w \in DOMAIN threads : threads[w].state = "up") =>
                 \A w \in DOMAIN threads' : threads'[w].state = "up"
<1> DEFINE created == IF worker = 0 THEN Append(threads, NewThread) ELSE threads
           current == IF worker = 0 THEN Len(created) ELSE worker
           op == Operation(a)
           inbox == Append(created[current].inbox, op)
           thread == [created[current] EXCEPT !.inbox = inbox]
<1>1. threads \in Seq(Thread) /\ worker \in 0 .. Len(threads) /\ Len(threads) \in Nat
  BY DEF IInv, Typed
<1>2. NewThread \in Thread /\ NewThread.state = "up"
  BY DEF NewThread, Thread
<1>3. worker' = current /\ threads' = [created EXCEPT ![current] = thread]
  BY DEF post
<1>4. /\ created \in Seq(Thread) /\ current \in DOMAIN created
      /\ created[current].state \in {"up", "crashed"}
      /\ DOMAIN threads \subseteq DOMAIN created
      /\ \A w \in DOMAIN threads : created[w] = threads[w]
      /\ \A w \in DOMAIN created \ DOMAIN threads : created[w].state = "up"
  <2>1. CASE worker = 0
    <3> DEFINE longer == Append(threads, NewThread)
    <3>1. /\ longer \in Seq(Thread) /\ Len(longer) = Len(threads) + 1
          /\ \A i \in 1 .. Len(threads) : longer[i] = threads[i]
          /\ longer[Len(threads) + 1] = NewThread
      BY <1>1, <1>2, AppendProperties
    <3> HIDE DEF longer
    <3>2. created = longer /\ current = Len(longer)
      BY <2>1 DEF longer
    <3> HIDE DEF created, current
    <3>3. DOMAIN longer = 1 .. Len(threads) + 1 /\ DOMAIN threads = 1 .. Len(threads)
      BY <1>1, <3>1
    <3> QED
      BY <1>1, <1>2, <3>1, <3>2, <3>3
  <2>2. CASE worker # 0
    BY <1>1, <2>2 DEF Service, Workers
  <2> QED
    BY <2>1, <2>2
<1> HIDE DEF created, current
<1>5. created[current] \in Thread
  BY <1>4, ElementOfSeq
<1>6. op \in Nat \X Nat \X {0, 1}
  <2>1. /\ a.epoch \in 1 .. MaxSessions /\ a.generation \in 1 .. MaxChanges + 1
        /\ a.retry \in 0 .. 1
    BY DEF Analysis
  <2> QED
    BY <2>1, BoundsAreNumbers DEF Operation
<1> HIDE DEF op
<1>7. /\ inbox \in Seq(Nat \X Nat \X {0, 1})
      /\ Len(inbox) = Len(created[current].inbox) + 1
      /\ Len(created[current].inbox) \in Nat
      /\ \A i \in 1 .. Len(created[current].inbox) : inbox[i] = created[current].inbox[i]
      /\ inbox[Len(created[current].inbox) + 1] = op
  <2>1. created[current].inbox \in Seq(Nat \X Nat \X {0, 1})
    BY <1>5 DEF Thread
  <2> QED
    BY <1>6, <2>1, AppendProperties, LenProperties
<1> HIDE DEF inbox
<1>8. DOMAIN inbox = 1 .. Len(inbox)
      /\ DOMAIN created[current].inbox = 1 .. Len(created[current].inbox)
  BY <1>5, <1>7 DEF Thread
<1>9. op = inbox[Len(inbox)] /\ Len(inbox) \in DOMAIN inbox
      /\ \A i \in DOMAIN created[current].inbox :
            i \in DOMAIN inbox /\ inbox[i] = created[current].inbox[i]
  <2>1. /\ Len(inbox) = Len(created[current].inbox) + 1
        /\ Len(created[current].inbox) \in Nat
    BY <1>7
  <2>2. Len(inbox) \in 1 .. Len(inbox)
    BY <2>1
  <2>3. \A i \in 1 .. Len(created[current].inbox) : i \in 1 .. Len(inbox)
    BY <2>1
  <2>4. op = inbox[Len(inbox)]
    BY <1>7, <2>1
  <2>5. \A i \in 1 .. Len(created[current].inbox) : inbox[i] = created[current].inbox[i]
    BY <1>7
  <2> QED
    BY <1>8, <2>2, <2>3, <2>4, <2>5, Zenon
<1>10. thread.state = created[current].state /\ thread.inbox = inbox
  BY <1>5 DEF Thread
<1> HIDE DEF thread
<1>11. /\ DOMAIN threads' = DOMAIN created /\ threads'[current] = thread
       /\ \A w \in DOMAIN created \ {current} : threads'[w] = created[w]
  BY <1>3, <1>4
<1>12. Workers'
  BY <1>3, <1>4, <1>10, <1>11 DEF Workers
<1>13. Served(op)'
  BY <1>4, <1>9, <1>10, <1>11 DEF Served
<1>14. ASSUME NEW o, Served(o) PROVE Served(o)'
  <2>1. PICK w \in DOMAIN threads :
          \/ threads[w].state = "up" /\ \E i \in DOMAIN threads[w].inbox :
                                            threads[w].inbox[i] = o
          \/ threads[w].state \in {"crashed", "errored"}
    BY <1>14 DEF Served
  <2>2. w \in DOMAIN threads' /\ created[w] = threads[w]
    BY <1>4, <1>11
  <2>3. CASE w = current
    <3>1. threads'[w].state = threads[w].state
          /\ \A i \in DOMAIN threads[w].inbox :
                i \in DOMAIN threads'[w].inbox /\ threads'[w].inbox[i] = threads[w].inbox[i]
      BY <1>9, <1>10, <1>11, <2>2, <2>3
    <3> QED
      BY <2>1, <2>2, <3>1 DEF Served
  <2>4. CASE w # current
    <3>1. threads'[w] = threads[w]
      BY <1>4, <1>11, <2>2, <2>4
    <3> QED
      BY <2>1, <2>2, <3>1 DEF Served
  <2> QED
    BY <2>3, <2>4
<1>15. ASSUME \A w \in DOMAIN threads : threads[w].state = "up"
       PROVE  \A w \in DOMAIN threads' : threads'[w].state = "up"
  BY <1>4, <1>10, <1>11, <1>15
<1> QED
  BY <1>12, <1>13, <1>14, <1>15 DEF op

\* An operation that is posted is in the table and in a mailbox.
LEMMA PostFlight ==
    ASSUME IInv, Flight, Service, Rejected, NEW a \in analyses, runSemanticAnalysis(a), post(a)
    PROVE  Flight' /\ Service' /\ Rejected'
<1>1. /\ ~a.aborted /\ pending' = pending \cup {Operation(a)}
      /\ analyses' = (analyses \ {a}) \cup {Post(a)}
      /\ UNCHANGED <<documents, phase, torn, rejections, adapter, crashes>>
  BY DEF runSemanticAnalysis, post, Post
<1>2. a \in Analysis
  BY DEF IInv, Typed
<1>3. /\ SameWork(Post(a), a) /\ ~Post(a).aborted /\ Post(a).retry = a.retry
  BY <1>1, <1>2, SameAnalysis
<1>4. /\ Workers' /\ Served(Operation(a))'
      /\ \A op : Served(op) => Served(op)'
      /\ (\A w \in DOMAIN threads : threads[w].state = "up") =>
            \A w \in DOMAIN threads' : threads'[w].state = "up"
  BY <1>2, PostServes
<1>5. Open' = Open
  BY <1>1 DEF Open
<1>6. Flight'
  <2>1. Epochs'
    BY <1>1, <1>5 DEF Flight, Epochs
  <2>2. Live'
    BY <1>1, <1>3, <1>5 DEF Flight, Live, SameWork
  <2>3. OneLive'
    BY <1>1, <1>3 DEF Flight, OneLive, SameWork
  <2>4. InFlight'
    BY <1>1, <1>3, <1>5 DEF Flight, InFlight, SameWork
  <2> QED
    BY <2>1, <2>2, <2>3, <2>4 DEF Flight
<1>7. Operation(Post(a)) = Operation(a)
  BY <1>3 DEF Operation, SameWork
<1>8. Posted'
  <2>1. SUFFICES ASSUME NEW x \in analyses', x.stage = "posted"
                 PROVE  ~x.aborted /\ Operation(x) \in pending' /\ Served(Operation(x))'
    BY DEF Posted, Operation, Served
  <2>2. CASE x = Post(a)
    BY <1>1, <1>3, <1>4, <1>7, <2>2 DEF Served
  <2>3. CASE x \in analyses
    <3>1. ~x.aborted /\ Operation(x) \in pending /\ Served(Operation(x))
      BY <2>1, <2>3 DEF Service, Posted
    <3> DEFINE op == Operation(x)
    <3>2. Served(op) => Served(op)'
      <4> HIDE DEF op
      <4> QED
        BY <1>4
    <3> QED
      BY <1>1, <3>1, <3>2 DEF Served
  <2> QED
    BY <1>1, <2>2, <2>3
<1>9. Rejected'
  BY <1>1, <1>3, <1>4, <1>5 DEF Rejected, Calm, SameWork
<1> QED
  BY <1>4, <1>6, <1>8, <1>9 DEF Service

\* An analysis that ends before it is posted: it was aborted, or there is no
\* adapter.
LEMMA EndFlight ==
    ASSUME IInv, Flight, Service, Rejected, NEW a \in analyses,
           runSemanticAnalysis(a), end_unposted(a)
    PROVE  Flight' /\ Service' /\ Rejected'
<1>1. /\ a.stage # "posted"
      /\ UNCHANGED <<sessionSequence, phase, torn, adapter, rejections, crashes, pending,
                     worker, threads>>
  BY DEF runSemanticAnalysis, end_unposted
<1>2. PICK result \in {"cancelled", "failure"} :
        /\ Conclude({a}, result)
        /\ \/ result = "cancelled" /\ a.aborted
           \/ result = "failure" /\ adapter = "failed"
  BY DEF end_unposted
<1>3. {a} \in SUBSET analyses /\ (result \in Results \/ \A b \in {a} : b.aborted)
  BY <1>2 DEF Results
<1>4. Flight'
  BY <1>1, <1>2, <1>3, ConcludeFlight
<1>5. ASSUME NEW x \in analyses', x.stage = "posted" PROVE x \in analyses
  <2>1. PICK y \in analyses : Origin(x, y, {a}, result)
    BY <1>2, <1>3, Origins
  <2>2. Again(y).stage = "immediate"
    BY SameAnalysis DEF IInv, Typed
  <2> QED
    BY <1>5, <2>1, <2>2 DEF Origin
<1>6. Service'
  BY <1>1, <1>5 DEF Service, Posted, Workers, Operation, Served
<1>7. Rejected'
  <2>1. CASE result = "failure"
    BY <1>1, <1>2, <2>1 DEF Rejected, Calm
  <2>2. CASE result = "cancelled"
    <3>1. \A u \in Uris : Verdict({a}, result, u) = {}
      BY <1>2, <2>2 DEF Verdict, currentAnalysis
    <3>2. Repeated({a}, result) = {}
      BY <1>2, <2>2 DEF Repeated, currentAnalysis
    <3>3. \A u \in Uris : documents'[u] = documents[u]
      BY <1>2, <1>3, <3>1, Verdicts
    <3>4. analyses' \subseteq analyses
      BY <1>2, <1>3, <3>2, Verdicts
    <3>5. Open' = Open
      BY <3>3 DEF Open
    <3> QED
      BY <1>1, <3>3, <3>4, <3>5 DEF Rejected, Calm, Open
  <2> QED
    BY <2>1, <2>2
<1> QED
  BY <1>4, <1>6, <1>7

\* The worker's answer settles the analysis that it finds, and counts.
LEMMA AnswerRejects ==
    ASSUME IInv, Flight, Service, Rejected, NEW S \in SUBSET analyses, NEW result \in Results,
           Conclude(S, result), \A a \in S : a.stage = "posted",
           UNCHANGED <<adapter, crashes>>, DOMAIN threads' = DOMAIN threads,
           \A w \in DOMAIN threads : threads'[w].state = threads[w].state,
           rejections' = [u \in Uris |-> rejections[u] +
                IF result = "failure" /\ \E a \in S : a.uri = u THEN 1 ELSE 0]
    PROVE  Rejected'
<1>1. \A a \in S : ~a.aborted
  BY DEF Service, Posted
<1>2. analyses \subseteq Analysis /\ rejections \in [Uris -> Nat]
  BY DEF IInv, Typed, Rejected
<1>3. ASSUME NEW u \in Uris
      PROVE  /\ rejections'[u] = rejections[u] +
                  IF result = "failure" /\ \E a \in S : a.uri = u THEN 1 ELSE 0
             /\ rejections[u] \in Nat
             /\ result = "failure" /\ (\E a \in S : a.uri = u) =>
                   rejections'[u] = rejections[u] + 1
             /\ (\A a \in S : a.uri # u) \/ result # "failure" =>
                   rejections'[u] = rejections[u]
  BY <1>2
<1>4. rejections' \in [Uris -> Nat] /\ crashes' \in Nat
  BY <1>2 DEF Rejected
<1>5. ASSUME Calm, NEW x \in analyses', ~x.aborted
      PROVE  rejections'[x.uri] = x.retry
  <2>1. PICK y \in analyses : /\ Origin(x, y, S, result) /\ SameWork(x, y)
                              /\ x.aborted = y.aborted
    BY Origins
  <2>2. /\ rejections[y.uri] = y.retry /\ y.uri \in Uris /\ ~y.aborted /\ x.uri = y.uri
        /\ y \in Analysis
    BY <1>2, <1>5, <2>1 DEF Rejected, Analysis, SameWork
  <2>3. \A a \in S : a.uri = y.uri => a = y /\ x = Again(y)
    BY <1>1, <2>1, <2>2, Undecided
  <2>4. CASE x = y /\ x \notin S
    BY <1>3, <2>2, <2>3, <2>4
  <2>5. CASE y \in Repeated(S, result) /\ x = Again(y)
    <3>1. y \in S /\ result = "failure" /\ y.retry = 0
      BY <2>5 DEF Repeated, Retried
    <3>2. rejections'[y.uri] = 0 + 1
      BY <1>3, <2>2, <3>1
    <3>3. x.retry = 1
      BY <2>2, <2>5, SameAnalysis
    <3> QED
      BY <2>2, <3>2, <3>3
  <2> QED
    BY <2>1, <2>4, <2>5 DEF Origin
<1>6. ASSUME Calm, NEW u \in Open', documents'[u].state = "discarded-invalid-sidecar"
      PROVE  rejections'[u] = 2
  <2>1. u \in Uris
    BY DEF Open
  <2>2. CASE documents'[u] = documents[u]
    <3>1. u \in Open /\ documents[u].state = "discarded-invalid-sidecar"
      BY <1>6, <2>2 DEF Open
    <3>2. \A a \in S : a.uri # u
      BY <1>1, <3>1 DEF Flight, Live
    <3>3. rejections[u] = 2
      BY <1>6, <3>1 DEF Rejected
    <3> QED
      BY <1>3, <2>1, <3>2, <3>3
  <2>3. ASSUME NEW a \in Verdict(S, result, u),
               documents'[u] = Concluded(documents[u], a, result)
        PROVE  rejections'[u] = 2
    <3>1. /\ a \in S /\ a \in Analysis /\ ~a.aborted /\ a.uri = u /\ ~Retried(a, result)
          /\ documents[u].open
      BY <1>2 DEF Verdict, currentAnalysis
    <3>2. documents[u] \in Document
      BY <2>1, <3>1, OpenIsDocument DEF Open, IInv
    <3> DEFINE e == Concluded(documents[u], a, result)
    <3>3. e.state = "discarded-invalid-sidecar" => result = "failure" /\ a.retry = 1
      BY <3>1, <3>2, ConcludedSettles
    <3> HIDE DEF e
    <3>4. documents'[u] = e
      BY <2>3 DEF e
    <3>5. result = "failure" /\ a.retry = 1
      BY <1>6, <3>3, <3>4
    <3>6. rejections[u] = 1
      BY <1>6, <3>1, <3>5 DEF Rejected
    <3>7. rejections'[u] = 1 + 1
      BY <1>3, <2>1, <3>1, <3>5, <3>6
    <3> QED
      BY <3>7
  <2> QED
    BY <2>1, <2>2, <2>3, Verdicts
<1>7. Calm' = Calm
  BY DEF Calm
<1> QED
  BY <1>4, <1>5, <1>6, <1>7 DEF Rejected

\* An answer takes its operation out of the table and out of the mailbox.
LEMMA AnswerFlight ==
    ASSUME IInv, Flight, Service, Rejected, NEW w \in DOMAIN threads,
           NEW result \in Results, worker_answers(w, result)
    PROVE  Flight' /\ Service' /\ Rejected'
<1> DEFINE inbox == threads[w].inbox
           rest == Tail(inbox)
           thread == [threads[w] EXCEPT !.inbox = rest]
           op == Head(inbox)
           found == {a \in Owner(op) : op \in pending}
<1>1. /\ threads[w].state = "up" /\ inbox # <<>>
      /\ threads' = [threads EXCEPT ![w] = thread]
      /\ UNCHANGED <<sessionSequence, phase, torn, adapter, worker, crashes>>
      /\ Conclude(found, result) /\ pending' = pending \ {op}
      /\ rejections' = [u \in Uris |-> rejections[u] +
             IF result = "failure" /\ \E a \in found : a.uri = u THEN 1 ELSE 0]
  BY DEF worker_answers
<1>2. threads \in Seq(Thread) /\ threads[w] \in Thread
  BY ElementOfSeq DEF IInv, Typed
<1>3. inbox \in Seq(Nat \X Nat \X {0, 1})
  BY <1>2 DEF Thread
<1>4. thread.state = "up" /\ thread.inbox = rest
  BY <1>1, <1>2 DEF Thread
<1>5. \A i \in DOMAIN inbox : inbox[i] # op => \E j \in DOMAIN rest : rest[j] = inbox[i]
  <2>1. /\ rest \in Seq(Nat \X Nat \X {0, 1}) /\ Len(rest) = Len(inbox) - 1
        /\ Len(inbox) \in Nat /\ op = inbox[1]
        /\ \A j \in 1 .. Len(rest) : rest[j] = inbox[j + 1]
    BY <1>1, <1>3, HeadTailProperties, LenProperties
  <2>2. DOMAIN inbox = 1 .. Len(inbox) /\ DOMAIN rest = 1 .. Len(rest)
    BY <1>3, <2>1
  <2> HIDE DEF inbox, rest, op
  <2>3. ASSUME NEW i \in DOMAIN inbox, inbox[i] # op
        PROVE  \E j \in DOMAIN rest : rest[j] = inbox[i]
    <3>1. i # 1 /\ i \in 1 .. Len(inbox)
      BY <2>1, <2>2, <2>3
    <3>2. i - 1 \in 1 .. Len(rest) /\ (i - 1) + 1 = i
      BY <2>1, <3>1
    <3>3. rest[i - 1] = inbox[i]
      BY <2>1, <3>2
    <3> QED
      BY <2>2, <3>2, <3>3
  <2> QED
    BY <2>3
<1> HIDE DEF rest, thread
<1>6. /\ DOMAIN threads' = DOMAIN threads /\ threads'[w] = thread
      /\ \A v \in DOMAIN threads \ {w} : threads'[v] = threads[v]
      /\ \A v \in DOMAIN threads : threads'[v].state = threads[v].state
  BY <1>1, <1>2, <1>4
<1>7. /\ found \in SUBSET analyses /\ \A a \in found : a.stage = "posted"
      /\ \A a \in analyses : a.stage = "posted" /\ Operation(a) = op /\ op \in pending =>
            a \in found
  BY DEF Owner
<1> HIDE DEF found, op
<1>8. Flight'
  BY <1>1, <1>7, ConcludeFlight
<1>9. Rejected'
  BY <1>1, <1>6, <1>7, AnswerRejects
<1>10. ASSUME NEW o, Served(o), o # op PROVE Served(o)'
  <2>1. PICK v \in DOMAIN threads :
          \/ threads[v].state = "up" /\ \E i \in DOMAIN threads[v].inbox :
                                            threads[v].inbox[i] = o
          \/ threads[v].state \in {"crashed", "errored"}
    BY <1>10 DEF Served
  <2>2. CASE v = w
    <3>1. PICK i \in DOMAIN inbox : inbox[i] = o
      BY <1>1, <2>1, <2>2
    <3>2. PICK j \in DOMAIN rest : rest[j] = o
      BY <1>5, <1>10, <3>1
    <3> QED
      BY <1>4, <1>6, <3>2 DEF Served
  <2>3. CASE v # w
    BY <1>6, <2>1, <2>3 DEF Served
  <2> QED
    BY <2>2, <2>3
<1>11. Posted'
  <2>1. SUFFICES ASSUME NEW x \in analyses', x.stage = "posted"
                 PROVE  ~x.aborted /\ Operation(x) \in pending' /\ Served(Operation(x))'
    BY DEF Posted, Operation, Served
  <2>2. x \in analyses \ found
    <3>1. PICK y \in analyses : Origin(x, y, found, result)
      BY <1>1, <1>7, Origins
    <3>2. Again(y).stage = "immediate"
      BY SameAnalysis DEF IInv, Typed
    <3> QED
      BY <2>1, <3>1, <3>2 DEF Origin
  <2>3. ~x.aborted /\ Operation(x) \in pending /\ Served(Operation(x))
    BY <2>1, <2>2 DEF Service, Posted
  <2>4. Operation(x) # op
    BY <1>7, <2>1, <2>2, <2>3
  <2> DEFINE o == Operation(x)
  <2>5. Served(o)'
    <3>1. Served(o) /\ o # op
      BY <2>3, <2>4
    <3> HIDE DEF o
    <3> QED
      BY <1>10, <3>1
  <2> QED
    BY <1>1, <2>3, <2>4, <2>5 DEF Served
<1>12. Workers'
  BY <1>1, <1>2, <1>6 DEF Service, Workers, IInv, Typed
<1> QED
  BY <1>8, <1>9, <1>11, <1>12 DEF Service

\* The handlers of a worker's `error' and `exit' leave no operation pending.
LEMMA EventFlight ==
    ASSUME IInv, Flight, Service, Rejected, NEW w \in DOMAIN threads,
           NEW from \in {"crashed", "errored"}, NEW to, worker_event(w, from, to)
    PROVE  Flight' /\ Service' /\ Rejected'
<1> DEFINE S == UNION {Owner(op) : op \in pending}
<1>1. /\ threads[w].state = from /\ worker' = 0 /\ Conclude(S, "failure")
      /\ UNCHANGED <<sessionSequence, phase, torn, adapter, rejections, crashes>>
  BY DEF worker_event
<1>2. S \in SUBSET analyses /\ "failure" \in Results
  BY DEF Owner, Results
<1>3. \A x \in analyses : x.stage = "posted" => x \in S
  BY DEF Service, Posted, Owner
<1> HIDE DEF S
<1>4. Flight'
  BY <1>1, <1>2, ConcludeFlight
<1>5. ASSUME NEW x \in analyses', x.stage = "posted" PROVE FALSE
  <2>1. PICK y \in analyses : Origin(x, y, S, "failure")
    BY <1>1, <1>2, Origins
  <2>2. Again(y).stage = "immediate"
    BY SameAnalysis DEF IInv, Typed
  <2> QED
    BY <1>3, <1>5, <2>1, <2>2 DEF Origin
<1>6. Service'
  BY <1>1, <1>5 DEF Service, Posted, Workers
<1>7. ~Calm
  BY <1>1 DEF Rejected
<1>8. Rejected'
  BY <1>1, <1>7 DEF Rejected, Calm
<1> QED
  BY <1>4, <1>6, <1>8

\* Every step keeps the second invariant.
LEMMA StepFlight ==
    ASSUME IInv, Flight, Service, Rejected, Next
    PROVE  Flight' /\ Service' /\ Rejected'
<1>1. CASE Notification
  BY <1>1, OpenFlight, ChangeFlight, ChangeHalfFlight, CloseFlight, IndexFlight,
     ShutdownFlight, ExitFlight DEF Notification
<1>2. CASE Task
  <2>1. CASE \E to \in {"loaded", "failed"} : adapterSettles(to)
    BY <2>1, SettlesFlight
  <2>2. CASE \E a \in analyses : runSemanticAnalysis(a)
    BY <2>2, PostFlight, EndFlight DEF runSemanticAnalysis
  <2>3. ASSUME NEW w \in DOMAIN threads, NEW result \in Results, worker_answers(w, result)
        PROVE  Flight' /\ Service' /\ Rejected'
    BY <2>3, AnswerFlight
  <2>4. ASSUME NEW w \in DOMAIN threads,
               worker_event(w, "crashed", "errored") \/ worker_event(w, "errored", "gone")
        PROVE  Flight' /\ Service' /\ Rejected'
    BY <2>4, EventFlight
  <2> QED
    BY <1>2, <2>1, <2>2, <2>3, <2>4 DEF Task
<1>3. CASE \E w \in DOMAIN threads : worker_crashes(w)
  BY <1>3, CrashFlight
<1> QED
  BY <1>1, <1>2, <1>3 DEF Next

\* What is under way is as described, for any number of documents, openings,
\* changes and crashes.
THEOREM FlightHolds == Spec => [](Flight /\ Service /\ Rejected)
<1>1. Init => Flight /\ Service /\ Rejected
  BY InitFlight
<1>2. IInv /\ Flight /\ Service /\ Rejected /\ [Next]_vars =>
         Flight' /\ Service' /\ Rejected'
  <2>1. SUFFICES ASSUME IInv, Flight, Service, Rejected, [Next]_vars
                 PROVE  Flight' /\ Service' /\ Rejected'
    OBVIOUS
  <2>2. CASE Next
    BY <2>1, <2>2, StepFlight
  <2>3. CASE UNCHANGED vars
    BY <2>1, <2>3, SMTT(40) DEF Flight, Epochs, Live, OneLive, InFlight, Service, Posted, Workers,
          Rejected, Calm, Open, Operation, Served, vars, client, tasks
  <2> QED
    BY <2>1, <2>2, <2>3
<1> QED
  BY <1>1, <1>2, IInvHolds, PTL DEF Spec

\* runSemanticAnalysis, scheduleSemanticAnalysis and the workers' handlers: a
\* pending document always has an analysis of its own on the way, and whatever
\* that waits for is with a worker that will answer or is about to be failed.
THEOREM PendingFlies == Spec => []PendingIsInFlight
<1>1. Flight /\ Service => PendingIsInFlight
  <2>1. SUFFICES ASSUME Flight, Service, phase = "serving", NEW u \in Open \ torn,
                        documents[u].state = "pending"
                 PROVE  \E a \in analyses :
                           /\ a.uri = u /\ currentAnalysis(a)
                           /\ a.stage = "posted" =>
                                 Operation(a) \in pending /\ Served(Operation(a))
    BY DEF PendingIsInFlight
  <2>2. PICK a \in analyses : a.uri = u /\ ~a.aborted
    BY <2>1 DEF Flight, InFlight
  <2>3. currentAnalysis(a)
    BY <2>1, <2>2 DEF Flight, Live, currentAnalysis, Open
  <2>4. a.stage = "posted" => Operation(a) \in pending /\ Served(Operation(a))
    BY <2>1 DEF Service, Posted
  <2> QED
    BY <2>2, <2>3, <2>4
<1> QED
  BY <1>1, FlightHolds, PTL

\* The retry of runSemanticAnalysis: while no worker has crashed and there is
\* an adapter, a document is given up only when a worker has rejected it twice.
THEOREM DiscardsDeserved == Spec => []DiscardIsDeserved
<1>1. Rejected => DiscardIsDeserved
  BY DEF Rejected, Calm, DiscardIsDeserved
<1> QED
  BY <1>1, FlightHolds, PTL
=============================================================================
