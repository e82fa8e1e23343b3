------------------------ MODULE SemanticEventsProofs ------------------------
(***************************************************************************)
(* Proofs about SemanticEvents, for any records that a producer may send    *)
(* and any limit.                                                           *)
(*                                                                          *)
(* IInv is inductive: its parts about the stream are kept by every call of   *)
(* the sink, whoever makes it, and the part about the commit says what has   *)
(* been checked or written so far.                                           *)
(***************************************************************************)
EXTENDS SemanticEvents, SequenceTheorems, WellFoundedInduction, TLAPS

Stream ==
    [phase : 0 .. 7, began : BOOLEAN, ended : BOOLEAN, ready : BOOLEAN,
     failed : BOOLEAN, cancelled : BOOLEAN, exit : 0 .. 3,
     status : {"none", "checked", "failed", "cancelled"},
     records : Seq(AllRecords)]

\* Only an ended stream that has not failed is ready.
Stages(s) ==
    /\ Len(s.records) <= KOFUN_SEMANTIC_MAX_EVENTS - 2
    /\ s.ready => s.ended /\ s.began /\ ~s.failed

NodesAreUnique(s) ==
    \A m, n \in OfKind(s, "node") : m.id = n.id => m = n

IdentitiesAreUnique(s) ==
    \A i, j \in OfKind(s, "identity") : i.sub = j.sub /\ i.id = j.id => i = j

\* A visible reference names an identity that came before it.
ReferencesResolve(s) ==
    \A r \in OfKind(s, "reference") :
        r.visible => \E i \in OfKind(s, "identity") :
                        /\ i.sub = r.target.sub /\ i.id = r.target.id
                        /\ r.status = "validated" => i.status = "validated"

\* What a diagnostic may affect.
Subjects(s) == NodeIds(s) \cup {x.id : x \in OfKind(s, "reference")}

\* The owners and the affected subjects came before the records naming them.
SubjectsResolve(s) ==
    /\ \A kind \in {"identity", "reference", "fact"} :
          \A r \in OfKind(s, kind) : r.owner \in NodeIds(s)
    /\ \A r \in OfKind(s, "diagnostic") : r.affected \subseteq Subjects(s)

\* What was checked when the stream ended.
EndIsJustified(s) ==
    s.ready =>
        /\ validate_closure(s)
        /\ s.status = "checked" =>
              \A r \in Records(s) \ OfKind(s, "diagnostic") : r.status = "validated"

StreamOK(s) ==
    /\ s \in Stream /\ Stages(s)
    /\ NodesAreUnique(s) /\ IdentitiesAreUnique(s)
    /\ ReferencesResolve(s) /\ SubjectsResolve(s) /\ EndIsJustified(s)

\* What a commit has found out and written.
CommitOK ==
    /\ commit \in {"idle", "checked", "created", "written"}
    /\ commit # "idle" =>
          /\ stream.ready /\ destination # Other
          /\ kofun_semantic_validate_stream(Bytes(stream))
    /\ commit = "written" => temporary = Bytes(stream)

IInv == StreamOK(stream) /\ CommitOK

(***************************************************************************)
(* What a call of the sink may do to a stream: leave it alone, fail it, or   *)
(* take one more record.                                                     *)
(***************************************************************************)
Fails(s, t) ==
    /\ t \in Stream
    /\ t.records = s.records /\ t.cancelled = s.cancelled
    /\ t.failed /\ ~t.ready

Takes(s, t, r) ==
    /\ ~s.failed /\ ~s.ended /\ Len(s.records) < KOFUN_SEMANTIC_MAX_EVENTS - 2
    /\ t \in Stream
    /\ t.records = Append(s.records, r) /\ t.cancelled = s.cancelled
    /\ t.ready = s.ready

AtPhase(s, phase) == [s EXCEPT !.phase = phase]
With(s, r) == [s EXCEPT !.records = Append(@, r)]
Ended(s, status) == [s EXCEPT !.ended = TRUE, !.ready = TRUE, !.status = status]

\* set_error fails the stream.
LEMMA SetError ==
    ASSUME NEW s \in Stream
    PROVE  Fails(s, set_error(s))
BY DEF Stream, Fails, set_error

\* Entering a phase keeps the records.
LEMMA AtPhaseKeeps ==
    ASSUME NEW s \in Stream, NEW phase \in 1 .. 7
    PROVE  LET t == AtPhase(s, phase)
           IN  /\ t \in Stream
               /\ t.records = s.records /\ t.cancelled = s.cancelled
               /\ t.began = s.began /\ t.ended = s.ended /\ t.failed = s.failed
               /\ t.ready = s.ready /\ t.status = s.status
BY DEF Stream, AtPhase

\* ensure_event lets a call through, or fails, or ignores it.
LEMMA EnsureEvent ==
    ASSUME NEW s \in Stream, NEW phase \in 1 .. 7, NEW next
    PROVE  LET t == ensure_event(s, phase, next)
           IN  \/ t = s
               \/ t = set_error(s)
               \/ /\ t = AtPhase(next, phase)
                  /\ ~s.failed /\ ~s.ended /\ s.began
                  /\ phase < 7 => Len(s.records) < KOFUN_SEMANTIC_MAX_EVENTS - 2
<1>1. Len(s.records) \in Nat
  BY LenProperties DEF Stream
<1>2. CASE s.failed \/ s.ended
  BY <1>2 DEF ensure_event
<1>3. CASE ~(s.failed \/ s.ended)
  BY <1>1, <1>3, LimitIsANumber DEF ensure_event, AtPhase
<1> QED
  BY <1>2, <1>3

\* A call that is refused fails the stream or changes nothing.
LEMMA FailsAtPhase ==
    ASSUME NEW s \in Stream, NEW phase \in 1 .. 7
    PROVE  LET t == ensure_event(s, phase, set_error(s)) IN t = s \/ Fails(s, t)
<1>1. Fails(s, set_error(s))
  BY SetError
<1>2. Fails(s, AtPhase(set_error(s), phase))
  BY <1>1, AtPhaseKeeps DEF Fails
<1> QED
  BY <1>1, <1>2, EnsureEvent

\* A call that is let through takes its record.
LEMMA TakesAtPhase ==
    ASSUME NEW s \in Stream, NEW phase \in 2 .. 6, NEW r \in AllRecords
    PROVE  LET t == ensure_event(s, phase, With(s, r))
           IN  t = s \/ Fails(s, t) \/ Takes(s, t, r)
<1>1. Fails(s, set_error(s)) /\ phase \in 1 .. 7 /\ phase < 7
  BY SetError
<1>2. Append(s.records, r) \in Seq(AllRecords)
  BY AppendProperties DEF Stream
<1>3. /\ With(s, r) \in Stream
      /\ With(s, r).records = Append(s.records, r)
      /\ With(s, r).cancelled = s.cancelled /\ With(s, r).ready = s.ready
  BY <1>2 DEF Stream, With
<1>4. LET t == AtPhase(With(s, r), phase)
      IN  /\ t \in Stream
          /\ t.records = Append(s.records, r)
          /\ t.cancelled = s.cancelled /\ t.ready = s.ready
  BY <1>1, <1>3, AtPhaseKeeps
<1> QED
  BY <1>1, <1>4, EnsureEvent DEF Takes

\* The node callback.
LEMMA NodeCall ==
    ASSUME NEW s \in Stream, NEW r \in NodeRecords
    PROVE  LET t == Node(s, r)
           IN  \/ t = s \/ Fails(s, t)
               \/ Takes(s, t, r) /\ r.id \notin NodeIds(s) /\ valid_relations(s, r)
<1> DEFINE Valid == r.id \notin NodeIds(s) /\ valid_relations(s, r)
<1>1. r \in AllRecords
  BY DEF AllRecords
<1>2. CASE Valid
  <2>1. Node(s, r) = ensure_event(s, 2, With(s, r))
    BY <1>2 DEF Node, Event, With
  <2> QED
    BY <1>1, <1>2, <2>1, TakesAtPhase
<1>3. CASE ~Valid
  <2>1. Node(s, r) = ensure_event(s, 2, set_error(s))
    BY <1>3 DEF Node, Event
  <2> QED
    BY <2>1, FailsAtPhase
<1> QED
  BY <1>2, <1>3

\* The identity callback.
LEMMA IdentityCall ==
    ASSUME NEW s \in Stream, NEW r \in IdentityRecords
    PROVE  LET t == Identity(s, r)
           IN  \/ t = s \/ Fails(s, t)
               \/ /\ Takes(s, t, r)
                  /\ r.owner \in NodeIds(s)
                  /\ ~(s.cancelled /\ r.status = "validated")
                  /\ \A i \in OfKind(s, "identity") : i.sub = r.sub => i.id # r.id
<1> DEFINE Valid ==
        /\ r.status # "error"
        /\ r.owner \in NodeIds(s)
        /\ ~(s.cancelled /\ r.status = "validated")
        /\ \A i \in OfKind(s, "identity") :
              i.sub = r.sub => i.owner # r.owner /\ i.id # r.id
<1>1. r \in AllRecords
  BY DEF AllRecords
<1>2. CASE Valid
  <2>1. Identity(s, r) = ensure_event(s, 3, With(s, r))
    BY <1>2 DEF Identity, Event, With
  <2> QED
    BY <1>1, <1>2, <2>1, TakesAtPhase
<1>3. CASE ~Valid
  <2>1. Identity(s, r) = ensure_event(s, 3, set_error(s))
    BY <1>3 DEF Identity, Event
  <2> QED
    BY <2>1, FailsAtPhase
<1> QED
  BY <1>2, <1>3

\* The reference callback.
LEMMA ReferenceCall ==
    ASSUME NEW s \in Stream, NEW r \in ReferenceRecords
    PROVE  LET t == Reference(s, r)
           IN  \/ t = s \/ Fails(s, t)
               \/ /\ Takes(s, t, r)
                  /\ r.owner \in NodeIds(s) /\ valid_relations(s, r)
                  /\ r.visible =>
                        \E i \in OfKind(s, "identity") :
                           /\ i.sub = r.target.sub /\ i.id = r.target.id
                           /\ r.status = "validated" => i.status = "validated"
<1> DEFINE Valid ==
        /\ r.id \notin {x.id : x \in OfKind(s, "reference")}
        /\ r.owner \in NodeIds(s)
        /\ valid_relations(s, r)
        /\ r.reason = ~r.visible
        /\ \/ reference_kind_matches_namespace(r.space, r.target.sub)
           \/ ~r.visible /\ r.target.sub = "none"
        /\ IF r.visible
           THEN \E i \in OfKind(s, "identity") :
                   /\ i.sub = r.target.sub /\ i.id = r.target.id
                   /\ r.status = "validated" => i.status = "validated"
           ELSE r.status # "validated"
<1>1. r \in AllRecords
  BY DEF AllRecords
<1>2. CASE Valid
  <2>1. Reference(s, r) = ensure_event(s, 4, With(s, r))
    BY <1>2 DEF Reference, Event, With
  <2> QED
    BY <1>1, <1>2, <2>1, TakesAtPhase
<1>3. CASE ~Valid
  <2>1. Reference(s, r) = ensure_event(s, 4, set_error(s))
    BY <1>3 DEF Reference, Event
  <2> QED
    BY <2>1, FailsAtPhase
<1> QED
  BY <1>2, <1>3

\* The fact callback.
LEMMA FactCall ==
    ASSUME NEW s \in Stream, NEW r \in FactRecords
    PROVE  LET t == Fact(s, r)
           IN  \/ t = s \/ Fails(s, t)
               \/ /\ Takes(s, t, r)
                  /\ r.owner \in NodeIds(s) /\ valid_relations(s, r)
<1> DEFINE Valid ==
        /\ r.owner \in NodeIds(s)
        /\ \A f \in OfKind(s, "fact") : f.sub <= r.sub
        /\ valid_relations(s, r)
        /\ r.status = "unavailable" => r.reason /\ ~r.display
        /\ r.status = "validated" => r.display
        /\ \A f \in OfKind(s, "fact") : f.sub = r.sub => f.owner # r.owner
<1>1. r \in AllRecords
  BY DEF AllRecords
<1>2. CASE Valid
  <2>1. Fact(s, r) = ensure_event(s, 5, With(s, r))
    BY <1>2 DEF Fact, Event, With
  <2> QED
    BY <1>1, <1>2, <2>1, TakesAtPhase
<1>3. CASE ~Valid
  <2>1. Fact(s, r) = ensure_event(s, 5, set_error(s))
    BY <1>3 DEF Fact, Event
  <2> QED
    BY <2>1, FailsAtPhase
<1> QED
  BY <1>2, <1>3

\* The diagnostic callback.
LEMMA DiagnosticCall ==
    ASSUME NEW s \in Stream, NEW r \in DiagnosticRecords
    PROVE  LET t == Diagnostic(s, r)
           IN  \/ t = s \/ Fails(s, t)
               \/ Takes(s, t, r) /\ r.affected \subseteq Subjects(s)
<1> DEFINE Valid ==
        /\ r.id \notin Diagnosed(s)
        /\ r.affected \subseteq
              NodeIds(s) \cup {x.id : x \in OfKind(s, "reference")}
<1>1. r \in AllRecords
  BY DEF AllRecords
<1>2. CASE Valid
  <2>1. Diagnostic(s, r) = ensure_event(s, 6, With(s, r))
    BY <1>2 DEF Diagnostic, Event, With
  <2>2. r.affected \subseteq Subjects(s)
    BY <1>2 DEF Subjects
  <2> QED
    BY <1>1, <2>1, <2>2, TakesAtPhase
<1>3. CASE ~Valid
  <2>1. Diagnostic(s, r) = ensure_event(s, 6, set_error(s))
    BY <1>3 DEF Diagnostic, Event
  <2> QED
    BY <2>1, FailsAtPhase
<1> QED
  BY <1>2, <1>3

\* The end: everything that it checks held, or the stream fails.
Ends(s, t, status) ==
    /\ ~s.failed /\ ~s.ended /\ s.began
    /\ t \in Stream
    /\ t.records = s.records /\ t.cancelled = s.cancelled
    /\ t.ended /\ t.began /\ ~t.failed /\ t.status = status
    /\ end_is_justified(s, status) /\ validate_closure(s)

\* The end callback.
LEMMA EndCall ==
    ASSUME NEW s \in Stream, NEW status \in {"checked", "failed", "cancelled"}
    PROVE  LET t == End(s, status) IN t = s \/ Fails(s, t) \/ Ends(s, t, status)
<1> DEFINE Valid == end_is_justified(s, status) /\ validate_closure(s)
<1>1. CASE Valid
  <2>1. End(s, status) = ensure_event(s, 7, Ended(s, status))
    BY <1>1 DEF End, Ended
  <2>2. LET t == Ended(s, status)
        IN  /\ t \in Stream
            /\ t.records = s.records /\ t.cancelled = s.cancelled
            /\ t.ended /\ t.began = s.began /\ t.failed = s.failed /\ t.status = status
    BY DEF Stream, Ended
  <2>3. LET t == AtPhase(Ended(s, status), 7)
        IN  /\ t \in Stream
            /\ t.records = s.records /\ t.cancelled = s.cancelled
            /\ t.ended /\ t.began = s.began /\ t.failed = s.failed /\ t.status = status
    BY <2>2, AtPhaseKeeps
  <2>4. Fails(s, set_error(s))
    BY SetError
  <2> QED
    BY <1>1, <2>1, <2>3, <2>4, EnsureEvent DEF Ends
<1>2. CASE ~Valid
  <2>1. End(s, status) = ensure_event(s, 7, set_error(s))
    BY <1>2 DEF End
  <2> QED
    BY <2>1, FailsAtPhase
<1> QED
  BY <1>1, <1>2

(***************************************************************************)
(* Every call keeps a stream as it should be.                               *)
(***************************************************************************)
StatusIn(nodes, id) == (CHOOSE r \in nodes : r.id = id).status

\* What is said of the records alone.
LEMMA SameRecords ==
    ASSUME NEW s, NEW t, t.records = s.records
    PROVE  /\ Records(t) = Records(s)
           /\ \A kind : OfKind(t, kind) = OfKind(s, kind)
           /\ NodesAreUnique(s) => NodesAreUnique(t)
           /\ IdentitiesAreUnique(s) => IdentitiesAreUnique(t)
           /\ ReferencesResolve(s) => ReferencesResolve(t)
           /\ SubjectsResolve(s) => SubjectsResolve(t)
           /\ validate_closure(s) => validate_closure(t)
<1>1. Records(t) = Records(s)
  BY DEF Records
<1>2. \A kind : OfKind(t, kind) = OfKind(s, kind)
  BY <1>1 DEF OfKind
<1>3. NodeIds(t) = NodeIds(s) /\ Diagnosed(t) = Diagnosed(s)
  BY <1>2 DEF NodeIds, Diagnosed
<1>4. \A d : StatusOf(t, d) = StatusOf(s, d)
  <2>1. \A d : /\ StatusOf(s, d) = StatusIn(OfKind(s, "node"), d)
               /\ StatusOf(t, d) = StatusIn(OfKind(t, "node"), d)
    BY DEF StatusOf, StatusIn
  <2> QED
    BY <1>2, <2>1
<1>5. validate_closure(s) => validate_closure(t)
  BY <1>2, <1>3, <1>4 DEF validate_closure
<1>6. SubjectsResolve(s) => SubjectsResolve(t)
  BY <1>2, <1>3 DEF SubjectsResolve, Subjects
<1> QED
  BY <1>1, <1>2, <1>5, <1>6 DEF NodesAreUnique, IdentitiesAreUnique, ReferencesResolve

\* A record more.
LEMMA OneMore ==
    ASSUME NEW s \in Stream, NEW t, NEW r \in AllRecords,
           t.records = Append(s.records, r)
    PROVE  /\ Records(t) = Records(s) \cup {r}
           /\ Len(t.records) = Len(s.records) + 1
           /\ IsPrefix(s.records, t.records)
           /\ \A kind : OfKind(t, kind) =
                           IF r.kind = kind THEN OfKind(s, kind) \cup {r}
                           ELSE OfKind(s, kind)
<1> DEFINE old == s.records
<1>1. old \in Seq(AllRecords)
  BY DEF Stream
<1>2. /\ Append(old, r) \in Seq(AllRecords)
      /\ Len(Append(old, r)) = Len(old) + 1
      /\ \A i \in 1 .. Len(old) : Append(old, r)[i] = old[i]
      /\ Append(old, r)[Len(old) + 1] = r
  BY <1>1, AppendProperties
<1>3. Len(old) \in Nat /\ DOMAIN old = 1 .. Len(old)
      /\ DOMAIN Append(old, r) = 1 .. Len(old) + 1
  BY <1>1, <1>2, LenProperties
<1> HIDE DEF old
<1>4. ToSet(Append(old, r)) = ToSet(old) \cup {r}
  BY <1>2, <1>3 DEF ToSet
<1>5. Records(t) = Records(s) \cup {r}
  BY <1>4 DEF Records, old
<1>6. SubSeq(Append(old, r), 1, Len(old)) = old
  BY <1>1, <1>2, <1>3
<1>7. IsPrefix(old, Append(old, r))
  BY <1>2, <1>3, <1>6 DEF IsPrefix
<1>8. \A kind : OfKind(t, kind) = IF r.kind = kind THEN OfKind(s, kind) \cup {r}
                                  ELSE OfKind(s, kind)
  BY <1>5 DEF OfKind
<1> QED
  BY <1>2, <1>5, <1>7, <1>8 DEF old

\* A call that fails keeps the invariant.
LEMMA FailsKeeps ==
    ASSUME NEW s, NEW t, StreamOK(s), Fails(s, t)
    PROVE  StreamOK(t)
<1>1. t \in Stream /\ t.records = s.records /\ ~t.ready
  BY DEF Fails
<1>2. Stages(t) /\ EndIsJustified(t)
  BY <1>1 DEF StreamOK, Stages, EndIsJustified
<1> QED
  BY <1>1, <1>2, SameRecords DEF StreamOK

\* What the sink has to check of a record before it takes it.
Fits(s, r) ==
    /\ r.kind = "node" => r.id \notin NodeIds(s)
    /\ r.kind = "identity" =>
          \A i \in OfKind(s, "identity") : i.sub = r.sub => i.id # r.id
    /\ r.kind = "reference" /\ r.visible =>
          \E i \in OfKind(s, "identity") :
              /\ i.sub = r.target.sub /\ i.id = r.target.id
              /\ r.status = "validated" => i.status = "validated"
    /\ r.kind \in {"identity", "reference", "fact"} => r.owner \in NodeIds(s)
    /\ r.kind = "diagnostic" => r.affected \subseteq Subjects(s)

\* A call that takes a record keeps the invariant.
LEMMA TakesKeeps ==
    ASSUME NEW s, NEW t, NEW r \in AllRecords, StreamOK(s), Takes(s, t, r),
           Fits(s, r)
    PROVE  StreamOK(t)
<1>1. s \in Stream /\ t \in Stream /\ t.records = Append(s.records, r)
  BY DEF StreamOK, Takes
<1>2. /\ Records(t) = Records(s) \cup {r}
      /\ Len(t.records) = Len(s.records) + 1
      /\ \A kind : OfKind(t, kind) = IF r.kind = kind THEN OfKind(s, kind) \cup {r}
                                     ELSE OfKind(s, kind)
  BY <1>1, OneMore
<1>3. Stages(t) /\ ~t.ready
  <2>1. ~t.ready
    BY DEF Takes, StreamOK, Stages
  <2>2. Len(s.records) \in Nat
    BY <1>1, LenProperties DEF Stream
  <2> QED
    BY <1>2, <2>1, <2>2, LimitIsANumber DEF Takes, Stages
<1>4. NodesAreUnique(t)
  <2>1. \A m \in OfKind(s, "node") : m.id \in NodeIds(s)
    BY DEF NodeIds
  <2> QED
    BY <1>2, <2>1 DEF StreamOK, NodesAreUnique, Fits
<1>5. IdentitiesAreUnique(t)
  BY <1>2 DEF StreamOK, IdentitiesAreUnique, Fits
<1>6. ReferencesResolve(t)
  BY <1>2 DEF StreamOK, ReferencesResolve, Fits
<1>7. SubjectsResolve(t)
  <2>1. NodeIds(s) \subseteq NodeIds(t) /\ Subjects(s) \subseteq Subjects(t)
    BY <1>2 DEF NodeIds, Subjects
  <2>2. ASSUME NEW kind \in {"identity", "reference", "fact"}, NEW q \in OfKind(t, kind)
        PROVE  q.owner \in NodeIds(t)
    <3>1. q \in OfKind(s, kind) \/ (q = r /\ r.kind = kind)
      BY <1>2, <2>2
    <3>2. q.owner \in NodeIds(s)
      BY <3>1 DEF StreamOK, SubjectsResolve, Fits
    <3> QED
      BY <2>1, <3>2
  <2>3. ASSUME NEW q \in OfKind(t, "diagnostic")
        PROVE  q.affected \subseteq Subjects(t)
    <3>1. q \in OfKind(s, "diagnostic") \/ (q = r /\ r.kind = "diagnostic")
      BY <1>2, <2>3
    <3>2. q.affected \subseteq Subjects(s)
      BY <3>1 DEF StreamOK, SubjectsResolve, Fits
    <3> QED
      BY <2>1, <3>2
  <2> QED
    BY <2>2, <2>3 DEF SubjectsResolve
<1> QED
  BY <1>1, <1>3, <1>4, <1>5, <1>6, <1>7 DEF StreamOK, EndIsJustified

\* A call that ends the stream keeps the invariant.
LEMMA EndsKeeps ==
    ASSUME NEW s, NEW t, NEW status \in {"checked", "failed", "cancelled"},
           StreamOK(s), Ends(s, t, status)
    PROVE  StreamOK(t)
<1>1. /\ t \in Stream /\ t.records = s.records
      /\ t.ended /\ t.began /\ ~t.failed /\ t.status = status
  BY DEF Ends
<1>2. Records(t) = Records(s) /\ OfKind(t, "diagnostic") = OfKind(s, "diagnostic")
  BY <1>1, SameRecords
<1>3. EndIsJustified(t)
  <2>1. validate_closure(t)
    BY <1>1, SameRecords DEF Ends
  <2>2. status = "checked" =>
            \A r \in Records(s) \ OfKind(s, "diagnostic") : r.status = "validated"
    BY DEF Ends, end_is_justified
  <2> QED
    BY <1>1, <1>2, <2>1, <2>2 DEF EndIsJustified
<1>4. Stages(t)
  BY <1>1 DEF StreamOK, Stages
<1> QED
  BY <1>1, <1>3, <1>4, SameRecords DEF StreamOK

Begun(s, phase, exit) == [s EXCEPT !.began = TRUE, !.phase = phase, !.exit = exit]

\* What begin leaves of a stream.
LEMMA BegunKeeps ==
    ASSUME NEW s \in Stream, NEW phase \in 0 .. 7, NEW exit \in 0 .. 3
    PROVE  LET t == Begun(s, phase, exit)
           IN  /\ t \in Stream /\ t.records = s.records
               /\ t.cancelled = s.cancelled /\ t.ready = s.ready
BY DEF Begun, Stream

\* The begin callback.
LEMMA BeginCall ==
    ASSUME NEW s \in Stream, NEW exit \in ExitClasses
    PROVE  LET t == Begin(s, exit)
           IN  \/ Fails(s, t)
               \/ /\ t \in Stream /\ t.records = s.records
                  /\ t.cancelled = s.cancelled /\ t.ready = s.ready
                  /\ ~s.ended /\ ~s.failed
<1>1. Fails(s, set_error(s)) /\ exit \in 0 .. 3
  BY SetError, RecordsAreOfTheirKind
<1>2. Begin(s, exit) = IF s.began \/ s.ended \/ s.failed \/ s.cancelled
                       THEN set_error(s) ELSE Begun(s, 1, exit)
  BY DEF Begin, Begun
<1>3. CASE s.began \/ s.ended \/ s.failed \/ s.cancelled
  BY <1>1, <1>2, <1>3
<1>4. CASE ~(s.began \/ s.ended \/ s.failed \/ s.cancelled)
  BY <1>1, <1>2, <1>4, BegunKeeps
<1> QED
  BY <1>3, <1>4

\* A cancellation that the sink observes.
LEMMA CancellationCall ==
    ASSUME NEW s \in Stream
    PROVE  LET t == observe_cancellation(s)
           IN  \/ t = s
               \/ /\ t \in Stream /\ t.records = s.records /\ t.ready = s.ready
                  /\ ~s.ended /\ ~s.failed
BY DEF observe_cancellation, Stream

\* A stream that has not ended, or whose records and answer do not change.
LEMMA OpenKeeps ==
    ASSUME NEW s, NEW t, StreamOK(s), t \in Stream, t.records = s.records,
           t.ready = s.ready, ~s.ended
    PROVE  StreamOK(t)
<1>1. ~s.ready
  BY DEF StreamOK, Stages
<1>2. Stages(t) /\ EndIsJustified(t)
  BY <1>1 DEF StreamOK, Stages, EndIsJustified
<1> QED
  BY <1>2, SameRecords DEF StreamOK

\* The records that a cancellation does not keep out.
Provisional(r) == r.kind = "diagnostic" \/ r.status # "validated"

\* What any call makes of a stream.
Follows(s, t) ==
    /\ IsPrefix(s.records, t.records)
    /\ s.failed \/ s.ended => t.records = s.records
    /\ s.failed => t.failed /\ ~t.ready
    /\ s.cancelled => \A r \in Records(t) \ Records(s) : Provisional(r)

\* A stream with the same records follows.
LEMMA SameFollows ==
    ASSUME NEW s, StreamOK(s), NEW t, t.records = s.records,
           s.failed => t.failed /\ ~t.ready
    PROVE  Follows(s, t)
<1>1. IsPrefix(s.records, s.records)
  <2>1. s.records \in Seq(AllRecords)
    BY DEF StreamOK, Stream
  <2> QED
    BY <2>1, SubSeqFull DEF IsPrefix
<1> QED
  BY <1>1, SameRecords DEF Follows

\* A stream with a record more follows.
LEMMA TakesFollows ==
    ASSUME NEW s, StreamOK(s), NEW t, NEW r \in AllRecords, Takes(s, t, r),
           s.cancelled => Provisional(r)
    PROVE  Follows(s, t)
<1>1. s \in Stream /\ t.records = Append(s.records, r) /\ ~s.failed /\ ~s.ended
  BY DEF StreamOK, Takes
<1>2. IsPrefix(s.records, t.records) /\ Records(t) = Records(s) \cup {r}
  BY <1>1, OneMore
<1> QED
  BY <1>1, <1>2 DEF Follows

\* A failed stream stays failed.
LEMMA FailsFollows ==
    ASSUME NEW s, StreamOK(s), NEW t, Fails(s, t)
    PROVE  Follows(s, t)
BY SameFollows DEF Fails

\* A stream follows itself.
LEMMA IdleFollows ==
    ASSUME NEW s, StreamOK(s)
    PROVE  Follows(s, s)
BY SameFollows DEF StreamOK, Stages

\* Both together, for each call of a producer.
LEMMA EmitStep ==
    ASSUME NEW s, StreamOK(s), NEW t, NEW r \in AllRecords,
           t = s \/ Fails(s, t) \/ (Takes(s, t, r) /\ Fits(s, r)
                                       /\ (s.cancelled => Provisional(r)))
    PROVE  StreamOK(t) /\ Follows(s, t)
BY FailsKeeps, FailsFollows, TakesKeeps, TakesFollows, IdleFollows

\* Every call of the sink.
LEMMA SinkStep ==
    ASSUME StreamOK(stream),
           \/ begin \/ node \/ identity \/ reference \/ fact \/ diagnostic \/ end
           \/ cancellation_observed \/ rejected
    PROVE  StreamOK(stream') /\ Follows(stream, stream')
<1> USE DEF calls
<1>0. stream \in Stream
  BY DEF StreamOK
<1>1. CASE begin
  <2>1. PICK exit \in ExitClasses : stream' = Begin(stream, exit)
    BY <1>1 DEF begin
  <2>2. CASE Fails(stream, stream')
    BY <2>2, FailsKeeps, FailsFollows
  <2>3. CASE ~Fails(stream, stream')
    <3>1. /\ stream' \in Stream /\ stream'.records = stream.records
          /\ stream'.ready = stream.ready /\ ~stream.ended /\ ~stream.failed
      BY <1>0, <2>1, <2>3, BeginCall
    <3> QED
      BY <3>1, OpenKeeps, SameFollows
  <2> QED
    BY <2>2, <2>3
<1>2. CASE node
  <2>1. PICK r \in NodeRecords : stream' = Node(stream, r)
    BY <1>2 DEF node
  <2>2. r \in AllRecords /\ r.kind = "node"
    BY RecordsAreOfTheirKind DEF AllRecords
  <2>3. valid_relations(stream, r) => (stream.cancelled => Provisional(r))
    BY DEF valid_relations, Provisional
  <2>4. r.id \notin NodeIds(stream) => Fits(stream, r)
    BY <2>2 DEF Fits
  <2> QED
    BY <1>0, <2>1, <2>2, <2>3, <2>4, NodeCall, EmitStep
<1>3. CASE identity
  <2>1. PICK r \in IdentityRecords : stream' = Identity(stream, r)
    BY <1>3 DEF identity
  <2>2. r \in AllRecords /\ r.kind = "identity"
    BY RecordsAreOfTheirKind DEF AllRecords
  <2>3. ~(stream.cancelled /\ r.status = "validated") =>
            (stream.cancelled => Provisional(r))
    BY DEF Provisional
  <2>4. /\ r.owner \in NodeIds(stream)
        /\ \A i \in OfKind(stream, "identity") : i.sub = r.sub => i.id # r.id
        => Fits(stream, r)
    BY <2>2 DEF Fits
  <2> QED
    BY <1>0, <2>1, <2>2, <2>3, <2>4, IdentityCall, EmitStep
<1>4. CASE reference
  <2>1. PICK r \in ReferenceRecords : stream' = Reference(stream, r)
    BY <1>4 DEF reference
  <2>2. r \in AllRecords /\ r.kind = "reference"
    BY RecordsAreOfTheirKind DEF AllRecords
  <2>3. valid_relations(stream, r) => (stream.cancelled => Provisional(r))
    BY DEF valid_relations, Provisional
  <2>4. /\ r.owner \in NodeIds(stream)
        /\ r.visible => \E i \in OfKind(stream, "identity") :
                           /\ i.sub = r.target.sub /\ i.id = r.target.id
                           /\ r.status = "validated" => i.status = "validated"
        => Fits(stream, r)
    BY <2>2 DEF Fits
  <2> QED
    BY <1>0, <2>1, <2>2, <2>3, <2>4, ReferenceCall, EmitStep
<1>5. CASE fact
  <2>1. PICK r \in FactRecords : stream' = Fact(stream, r)
    BY <1>5 DEF fact
  <2>2. r \in AllRecords /\ r.kind = "fact"
    BY RecordsAreOfTheirKind DEF AllRecords
  <2>3. valid_relations(stream, r) => (stream.cancelled => Provisional(r))
    BY DEF valid_relations, Provisional
  <2>4. r.owner \in NodeIds(stream) => Fits(stream, r)
    BY <2>2 DEF Fits
  <2> QED
    BY <1>0, <2>1, <2>2, <2>3, <2>4, FactCall, EmitStep
<1>6. CASE diagnostic
  <2>1. PICK r \in DiagnosticRecords : stream' = Diagnostic(stream, r)
    BY <1>6 DEF diagnostic
  <2>2. r \in AllRecords /\ r.kind = "diagnostic"
    BY RecordsAreOfTheirKind DEF AllRecords
  <2>3. /\ r.affected \subseteq Subjects(stream) => Fits(stream, r)
        /\ Provisional(r)
    BY <2>2 DEF Fits, Provisional
  <2> QED
    BY <1>0, <2>1, <2>2, <2>3, DiagnosticCall, EmitStep
<1>7. CASE end
  <2>1. PICK status \in {"checked", "failed", "cancelled"} :
            stream' = End(stream, status)
    BY <1>7 DEF end
  <2>2. CASE Ends(stream, stream', status)
    <3>1. ~stream.failed /\ stream'.records = stream.records
      BY <2>2 DEF Ends
    <3> QED
      BY <2>2, <3>1, EndsKeeps, SameFollows
  <2>3. CASE stream' = stream \/ Fails(stream, stream')
    BY <2>3, FailsKeeps, FailsFollows, IdleFollows
  <2> QED
    BY <1>0, <2>1, <2>2, <2>3, EndCall
<1>8. CASE cancellation_observed
  <2>1. \/ stream' = stream
        \/ /\ stream' \in Stream /\ stream'.records = stream.records
           /\ stream'.ready = stream.ready /\ ~stream.ended /\ ~stream.failed
    BY <1>0, <1>8, CancellationCall DEF cancellation_observed
  <2> QED
    BY <2>1, IdleFollows, OpenKeeps, SameFollows
<1>9. CASE rejected
  BY <1>0, <1>9, SetError, FailsKeeps, FailsFollows DEF rejected
<1> QED
  BY <1>1, <1>2, <1>3, <1>4, <1>5, <1>6, <1>7, <1>8, <1>9

(***************************************************************************)
(* Init and Next.                                                           *)
(***************************************************************************)
\* A new stream.
LEMMA NewStreamOK == StreamOK(NewStream)
<1>1. NewStream \in Stream
  BY EmptySeq DEF NewStream, Stream
<1>2. Records(NewStream) = {}
  BY DEF Records, NewStream, ToSet
<1>3. \A kind : OfKind(NewStream, kind) = {}
  BY <1>2 DEF OfKind
<1>4. Stages(NewStream) /\ EndIsJustified(NewStream)
  BY LimitIsANumber DEF Stages, EndIsJustified, NewStream
<1> QED
  BY <1>1, <1>3, <1>4 DEF StreamOK, NodesAreUnique, IdentitiesAreUnique, ReferencesResolve,
     SubjectsResolve

\* The invariant holds at the start.
LEMMA InitIInv ==
    ASSUME Init
    PROVE  IInv
BY NewStreamOK DEF Init, IInv, CommitOK

\* A stream is followed by another one or goes on from where it was.
LEMMA NextStream ==
    ASSUME IInv, Next
    PROVE  /\ StreamOK(stream')
           /\ stream' = NewStream \/ Follows(stream, stream')
<1>1. StreamOK(stream) /\ stream \in Stream
  BY DEF IInv, StreamOK
<1>2. CASE \/ begin \/ node \/ identity \/ reference \/ fact \/ diagnostic \/ end
           \/ cancellation_observed \/ rejected
  BY <1>1, <1>2, SinkStep
<1>3. CASE recreate \/ crash
  BY <1>3, NewStreamOK DEF recreate, crash
<1>4. CASE stream' = set_error(stream)
  BY <1>1, <1>4, SetError, FailsKeeps, FailsFollows
<1>5. CASE stream' = stream
  BY <1>1, <1>5, IdleFollows
<1>6. CASE commit_starts \/ io_fails
  BY <1>4, <1>5, <1>6 DEF commit_starts, io_fails, commit_fails
<1>7. CASE creates_temporary \/ writes_temporary \/ renames
  BY <1>5, <1>7 DEF creates_temporary, writes_temporary, renames
<1> QED
  BY <1>2, <1>3, <1>6, <1>7 DEF Next

\* Every step keeps the invariant.
LEMMA NextIInv ==
    ASSUME IInv, [Next]_vars
    PROVE  IInv'
<1>1. CASE Next
  <2>1. StreamOK(stream)'
    BY <1>1, NextStream
  <2> USE DEF IInv, CommitOK
  <2>2. CASE \/ begin \/ node \/ identity \/ reference \/ fact \/ diagnostic \/ end
             \/ cancellation_observed \/ rejected
    BY <2>1, <2>2 DEF begin, node, identity, reference, fact, diagnostic, end,
       cancellation_observed, rejected, calls
  <2>3. CASE recreate \/ crash
    BY <2>1, <2>3 DEF recreate, crash
  <2>4. CASE commit_starts
    BY <2>1, <2>4 DEF commit_starts, commit_fails, files
  <2>5. CASE io_fails
    BY <2>1, <2>5 DEF io_fails, commit_fails
  <2>6. CASE creates_temporary
    BY <2>1, <2>6 DEF creates_temporary
  <2>7. CASE writes_temporary
    BY <2>1, <2>7 DEF writes_temporary
  <2>8. CASE renames
    BY <2>1, <2>8 DEF renames
  <2> QED
    BY <1>1, <2>2, <2>3, <2>4, <2>5, <2>6, <2>7, <2>8 DEF Next
<1>2. CASE UNCHANGED vars
  BY <1>2 DEF IInv, CommitOK, vars, files
<1> QED
  BY <1>1, <1>2

\* The stream and the commit are as described, for any records and any limit.
THEOREM Inductive == Spec => []IInv
<1>1. Init => IInv
  BY InitIInv
<1>2. IInv /\ [Next]_vars => IInv'
  BY NextIInv
<1> QED
  BY <1>1, <1>2, PTL DEF Spec

\* kofun_semantic_event_sink: the phase, the exit class, the status and the
\* number of records stay in their ranges, and only a stream that has ended
\* and not failed is on offer.
THEOREM TypesHold == Spec => []TypeOK
<1>1. IInv => TypeOK
  <2> SUFFICES ASSUME IInv PROVE TypeOK
    OBVIOUS
  <2>1. stream \in Stream /\ Stages(stream)
    BY DEF IInv, StreamOK
  <2>2. Records(stream) \subseteq AllRecords
    <3>1. stream.records \in Seq(AllRecords)
      BY <2>1 DEF Stream
    <3> QED
      BY <3>1, ElementOfSeq, LenProperties DEF Records, ToSet
  <2> QED
    BY <2>1, <2>2 DEF TypeOK, IInv, CommitOK, Stream, Stages
<1> QED
  BY <1>1, Inductive, PTL

(***************************************************************************)
(* What a finished stream promises.                                         *)
(***************************************************************************)
\* A node has one status.
LEMMA StatusOfANode ==
    ASSUME NEW s, NodesAreUnique(s), NEW n \in OfKind(s, "node")
    PROVE  StatusOf(s, n.id) = n.status
<1> DEFINE chosen == CHOOSE r \in OfKind(s, "node") : r.id = n.id
<1>1. chosen \in OfKind(s, "node") /\ chosen.id = n.id
  OBVIOUS
<1>2. chosen = n
  BY <1>1 DEF NodesAreUnique
<1> QED
  BY <1>2 DEF StatusOf

\* The validated nodes of a closed stream are a firm ground.
Validated == {n.id : n \in {m \in OfKind(stream, "node") : m.status = "validated"}}

\* The closure that was validated rests on validated nodes only.
LEMMA ValidatedIsFirm ==
    ASSUME NodesAreUnique(stream), validate_closure(stream)
    PROVE  IsFirmGround(Validated)
<1> SUFFICES ASSUME NEW r \in OfKind(stream, "node"), r.id \in Validated
             PROVE  r.status = "validated" /\ r.dependencies \subseteq Validated
  BY DEF IsFirmGround
<1>1. r.status = "validated"
  BY DEF Validated, NodesAreUnique
<1>2. /\ r.dependencies \subseteq NodeIds(stream)
      /\ \A d \in r.dependencies : StatusOf(stream, d) = "validated"
  BY <1>1 DEF validate_closure
<1>3. ASSUME NEW d \in r.dependencies
      PROVE  d \in Validated
  <2>1. PICK n \in OfKind(stream, "node") : n.id = d
    BY <1>2 DEF NodeIds
  <2>2. n.status = "validated"
    BY <1>2, <2>1, StatusOfANode
  <2> QED
    BY <2>1, <2>2 DEF Validated
<1> QED
  BY <1>1, <1>3

\* A stream on offer is closed.
LEMMA Closed ==
    ASSUME StreamOK(stream), stream.ready
    PROVE  ReadyStreamIsClosed
<1>1. /\ NodesAreUnique(stream) /\ IdentitiesAreUnique(stream)
      /\ ReferencesResolve(stream) /\ SubjectsResolve(stream)
      /\ validate_closure(stream)
      /\ stream.status = "checked" =>
            \A r \in Records(stream) \ OfKind(stream, "diagnostic") :
                r.status = "validated"
  BY DEF StreamOK, EndIsJustified
<1>2. ASSUME NEW r \in Records(stream), r.kind \in {"node", "reference", "fact"}
      PROVE  /\ r.diagnostics \subseteq Diagnosed(stream)
             /\ r.dependencies \subseteq NodeIds(stream)
             /\ r.status = "validated" => RestsOnValidated(r)
             /\ r.status = "provisional" => ~RestsOnValidated(r)
  <2>1. r \in OfKind(stream, "node") \cup OfKind(stream, "reference")
                \cup OfKind(stream, "fact")
    BY <1>2 DEF OfKind
  <2>2. /\ r.dependencies \subseteq NodeIds(stream)
        /\ r.diagnostics \subseteq Diagnosed(stream)
        /\ r.status = "validated" =>
              \A d \in r.dependencies : StatusOf(stream, d) = "validated"
        /\ r.status = "provisional" =>
              \E d \in r.dependencies : StatusOf(stream, d) # "validated"
    BY <1>1, <2>1 DEF validate_closure
  <2>3. \A d \in r.dependencies : \E n \in OfKind(stream, "node") :
            n.id = d /\ n.status = StatusOf(stream, d)
    <3> SUFFICES ASSUME NEW d \in r.dependencies
                 PROVE  \E n \in OfKind(stream, "node") :
                            n.id = d /\ n.status = StatusOf(stream, d)
      OBVIOUS
    <3>1. PICK n \in OfKind(stream, "node") : n.id = d
      BY <2>2 DEF NodeIds
    <3> QED
      BY <1>1, <3>1, StatusOfANode
  <2>4. ASSUME r.status = "validated"
        PROVE  RestsOnValidated(r)
    <3>1. r.dependencies \subseteq Validated /\ Validated \in SUBSET NodeIds(stream)
      BY <2>2, <2>3, <2>4 DEF Validated, NodeIds
    <3>2. IsFirmGround(Validated)
      BY <1>1, ValidatedIsFirm
    <3> QED
      BY <3>1, <3>2 DEF RestsOnValidated
  <2>5. ASSUME r.status = "provisional"
        PROVE  ~RestsOnValidated(r)
    <3>1. PICK n \in OfKind(stream, "node") :
              n.id \in r.dependencies /\ n.status # "validated"
      BY <2>2, <2>3, <2>5
    <3>2. ASSUME NEW T, r.dependencies \subseteq T, IsFirmGround(T)
          PROVE  FALSE
      BY <3>1, <3>2 DEF IsFirmGround
    <3> QED
      BY <3>2 DEF RestsOnValidated
  <2> QED
    BY <2>2, <2>4, <2>5
<1>3. ASSUME NEW r \in OfKind(stream, "reference"), r.visible
      PROVE  \E i \in OfKind(stream, "identity") :
                 /\ r.status = "validated" => i.status = "validated"
                 /\ \A j \in OfKind(stream, "identity") :
                       j.sub = r.target.sub /\ j.id = r.target.id <=> j = i
  <2>1. PICK i \in OfKind(stream, "identity") :
            /\ i.sub = r.target.sub /\ i.id = r.target.id
            /\ r.status = "validated" => i.status = "validated"
    BY <1>1, <1>3 DEF ReferencesResolve
  <2> QED
    BY <1>1, <2>1 DEF IdentitiesAreUnique
<1>4. stream.status = "checked" =>
          {r \in Records(stream) : r.kind # "diagnostic"
                                      /\ r.status # "validated"} = {}
  BY <1>1 DEF OfKind
<1>5. ASSUME NEW r \in Records(stream), r.kind \in {"identity", "reference", "fact"}
      PROVE  r.owner \in NodeIds(stream)
  BY <1>1, <1>5 DEF SubjectsResolve, OfKind
<1>6. \A r \in OfKind(stream, "diagnostic") :
          r.affected \subseteq
             NodeIds(stream) \cup {x.id : x \in OfKind(stream, "reference")}
  BY <1>1 DEF SubjectsResolve, Subjects
<1> QED
  BY <1>2, <1>3, <1>4, <1>5, <1>6 DEF ReadyStreamIsClosed

\* validate_closure and the callbacks before it: whatever the records are, in a
\* stream on offer the validated ones rest on validated nodes through any chain
\* of dependencies and the provisional ones do not, every dependency, diagnostic,
\* owner and affected subject is there, and every visible reference resolves.
THEOREM ReadyStreamsAreClosed == Spec => []ReadyStreamIsClosed
<1>1. IInv => ReadyStreamIsClosed
  BY Closed DEF IInv, ReadyStreamIsClosed
<1> QED
  BY <1>1, Inductive, PTL

\* The callbacks: no call takes back or rewrites a record, a failed or ended
\* stream takes no more, and a cancelled one takes nothing validated.
THEOREM RecordsStay == Spec => AcceptedRecordsStay
<1> DEFINE Stay == stream' # NewStream =>
          /\ IsPrefix(stream.records, stream'.records)
          /\ stream.failed \/ stream.ended => stream'.records = stream.records
          /\ stream.failed => stream'.failed /\ ~stream'.ready
          /\ stream.cancelled =>
                \A r \in Records(stream') \ Records(stream) :
                    r.kind = "diagnostic" \/ r.status # "validated"
<1>1. IInv /\ [Next]_vars => [Stay]_vars
  <2>1. IInv /\ Next => Stay
    BY NextStream DEF Follows, Provisional
  <2> QED
    BY <2>1
<1>2. Spec => [][Stay]_vars
  BY <1>1, Inductive, PTL DEF Spec
<1> QED
  BY <1>2 DEF AcceptedRecordsStay

\* kofun_semantic_stream_commit: whatever is at the destination and wherever
\* the process dies, a new file is there only as the whole of a valid stream.
THEOREM DestinationIsWhole == Spec => DestinationIsReplacedWhole
<1> DEFINE Whole == destination' \notin {destination, Seen(destination)} =>
          /\ destination # Other
          /\ stream.ready /\ destination' = Bytes(stream)
          /\ kofun_semantic_validate_stream(destination')
<1>1. IInv /\ [Next]_vars => [Whole]_vars
  <2>1. ASSUME IInv, Next PROVE Whole
    <3>1. CASE renames
      BY <2>1, <3>1 DEF renames, IInv, CommitOK
    <3>2. CASE recreate \/ crash
      BY <3>2 DEF recreate, crash
    <3>3. CASE ~(renames \/ recreate \/ crash)
      <4>1. destination' = destination
        BY <2>1, <3>3 DEF Next, begin, node, identity, reference, fact, diagnostic, end,
           cancellation_observed, rejected, calls, commit_starts, commit_fails, io_fails,
           creates_temporary, writes_temporary, files
      <4> QED
        BY <4>1
    <3> QED
      BY <3>1, <3>2, <3>3
  <2> QED
    BY <2>1
<1>2. Spec => [][Whole]_vars
  BY <1>1, Inductive, PTL DEF Spec
<1> QED
  BY <1>2 DEF DestinationIsReplacedWhole

(***************************************************************************)
(* The replay.  A sink that has begun and is still taking records is, but   *)
(* for an observed cancellation, the sink that the replay of its records    *)
(* would be: the cancellation only refuses records that the replay would    *)
(* take, and the replay makes it up before a cancelled end.                 *)
(*                                                                          *)
(* That after(bytes) is what its recursive definition says rests on the     *)
(* least-number principle for uniqueness and, for existence, on the history *)
(* of the stream: every record taken extends the run by one.                *)
(***************************************************************************)
Uncancelled(s) == [s EXCEPT !.cancelled = FALSE]

Working(s) == s.began /\ ~s.failed /\ ~s.ended

IsRun(f, bytes) ==
    f = [n \in 0 .. Len(bytes.records) |->
            IF n = 0 THEN Begin(NewStream, bytes.exit)
            ELSE Emit(f[n - 1], bytes.records[n])]

\* The invariant: the run of a working stream, and what it is for.
Replays(s) ==
    /\ Working(s) =>
          \E f : IsRun(f, Bytes(s)) /\ f[Len(s.records)] = Uncancelled(s)
    /\ ~s.began => s.failed \/ Uncancelled(s) = NewStream
    /\ s.ready => kofun_semantic_validate_stream(Bytes(s))

\* A set of natural numbers has a least one.
LEMMA LeastNumber ==
    ASSUME NEW T \in SUBSET Nat, T # {}
    PROVE  \E x \in T : \A y \in T : x <= y
<1> DEFINE R == OpToRel(<, Nat)
<1>1. IsWellFoundedOn(R, Nat)
  BY NatLessThanWellFounded, Zenon
<1>2. \A x, y \in Nat : x < y => <<x, y>> \in R
  BY DEF OpToRel
<1> HIDE DEF R
<1>3. PICK x \in T : \A y \in T : ~(<<y, x>> \in R)
  BY <1>1, WFMin
<1>4. ASSUME NEW y \in T
      PROVE  x <= y
  <2>1. x \in Nat /\ y \in Nat
    OBVIOUS
  <2>2. ~(y < x)
    BY <1>2, <1>3, <2>1
  <2> QED
    BY <2>1, <2>2
<1> QED
  BY <1>4

\* A stream of records has one run.
LEMMA RunsAgree ==
    ASSUME NEW bytes, Len(bytes.records) \in Nat,
           NEW f, IsRun(f, bytes), NEW g, IsRun(g, bytes)
    PROVE  f[Len(bytes.records)] = g[Len(bytes.records)]
<1> DEFINE N == Len(bytes.records)
           Differ == {n \in 0 .. N : f[n] # g[n]}
<1>1. \A n \in 0 .. N :
         /\ f[n] = IF n = 0 THEN Begin(NewStream, bytes.exit)
                   ELSE Emit(f[n - 1], bytes.records[n])
         /\ g[n] = IF n = 0 THEN Begin(NewStream, bytes.exit)
                   ELSE Emit(g[n - 1], bytes.records[n])
  BY DEF IsRun
<1>2. SUFFICES ASSUME Differ # {} PROVE FALSE
  OBVIOUS
<1>3. Differ \in SUBSET Nat
  OBVIOUS
<1>4. PICK n \in Differ : \A m \in Differ : n <= m
  <2> HIDE DEF Differ
  <2> QED
    BY <1>2, <1>3, LeastNumber
<1>5. n # 0
  BY <1>1, <1>4
<1>6. n - 1 \in 0 .. N /\ n - 1 \notin Differ
  BY <1>4, <1>5
<1> QED
  BY <1>1, <1>4, <1>5, <1>6

\* after(bytes) ends where any run ends.
LEMMA AfterIsTheRun ==
    ASSUME NEW bytes, Len(bytes.records) \in Nat, NEW f, IsRun(f, bytes)
    PROVE  after(bytes)[Len(bytes.records)] = f[Len(bytes.records)]
<1>1. IsRun(after(bytes), bytes)
  BY DEF IsRun, after
<1> QED
  BY <1>1, RunsAgree

\* A run goes on with the record that was taken.
LEMMA RunGrows ==
    ASSUME NEW bytes, NEW longer, NEW S, NEW r \in S, NEW f, IsRun(f, bytes),
           bytes.records \in Seq(S), longer.exit = bytes.exit,
           longer.records = Append(bytes.records, r)
    PROVE  \E g : /\ IsRun(g, longer)
                  /\ g[Len(longer.records)] = Emit(f[Len(bytes.records)], r)
<1> DEFINE old == bytes.records
           new == longer.records
           N == Len(old)
           g == [n \in 0 .. N + 1 |-> IF n = N + 1 THEN Emit(f[N], r) ELSE f[n]]
<1>1. /\ N \in Nat /\ Len(new) = N + 1 /\ new[N + 1] = r
      /\ \A n \in 1 .. N : new[n] = old[n]
  BY AppendProperties, LenProperties
<1>2. \A n \in 0 .. N :
         f[n] = IF n = 0 THEN Begin(NewStream, bytes.exit)
                ELSE Emit(f[n - 1], old[n])
  BY DEF IsRun
<1>3. \A n \in 0 .. N + 1 :
         g[n] = IF n = 0 THEN Begin(NewStream, longer.exit)
                ELSE Emit(g[n - 1], new[n])
  <2> SUFFICES ASSUME NEW n \in 0 .. N + 1
               PROVE  g[n] = IF n = 0 THEN Begin(NewStream, longer.exit)
                             ELSE Emit(g[n - 1], new[n])
    OBVIOUS
  <2> HIDE DEF old, new, N
  <2>1. CASE n = N + 1
    <3>1. n # 0 /\ n - 1 = N /\ n - 1 \in 0 .. N + 1 /\ n - 1 # N + 1
      BY <1>1, <2>1
    <3> QED
      BY <1>1, <2>1, <3>1
  <2>2. CASE n = 0
    <3>1. 0 \in 0 .. N /\ 0 # N + 1
      BY <1>1
    <3> QED
      BY <1>2, <2>2, <3>1
  <2>3. CASE n # N + 1 /\ n # 0
    <3>1. n \in 1 .. N /\ n \in 0 .. N /\ n - 1 \in 0 .. N + 1 /\ n - 1 # N + 1
      BY <1>1, <2>3
    <3> QED
      BY <1>1, <1>2, <2>3, <3>1
  <2> QED
    BY <2>1, <2>2, <2>3
<1>4. IsRun(g, longer)
  <2>1. g = [n \in 0 .. N + 1 |-> g[n]]
    OBVIOUS
  <2> HIDE DEF g, N
  <2> QED
    BY <1>1, <1>3, <2>1 DEF IsRun
<1>5. g[Len(new)] = Emit(f[N], r)
  BY <1>1
<1> HIDE DEF g
<1> QED
  BY <1>4, <1>5

(***************************************************************************)
(* One call with and without the observed cancellation.                     *)
(***************************************************************************)
LEMMA UncancelledKeeps ==
    ASSUME NEW s \in Stream
    PROVE  LET u == Uncancelled(s)
           IN  /\ u \in Stream
               /\ u.phase = s.phase /\ u.began = s.began /\ u.ended = s.ended
               /\ u.ready = s.ready /\ u.failed = s.failed /\ ~u.cancelled
               /\ u.exit = s.exit /\ u.status = s.status /\ u.records = s.records
               /\ s.cancelled = FALSE => u = s
BY DEF Stream, Uncancelled

\* The stream that took a record, or that was refused it.
Emitted(s, t, r) ==
    /\ Working(s) /\ Working(t)
    /\ t.records = Append(s.records, r) /\ t.exit = s.exit

\* ensure_event lets the replay through where it let the producer through.
LEMMA TwinAtPhase ==
    ASSUME NEW s \in Stream, NEW phase \in 2 .. 6, NEW r \in AllRecords
    PROVE  LET t == ensure_event(s, phase, With(s, r))
               u == Uncancelled(s)
           IN  \/ t = s \/ Fails(s, t)
               \/ /\ Emitted(s, t, r)
                  /\ ensure_event(u, phase, With(u, r)) = Uncancelled(t)
<1> DEFINE t == ensure_event(s, phase, With(s, r))
           u == Uncancelled(s)
           Refused == \/ ~s.began
                      \/ phase < 7 /\ Len(s.records) >= KOFUN_SEMANTIC_MAX_EVENTS - 2
                      \/ s.phase > phase
<1>1. CASE s.failed \/ s.ended
  BY <1>1 DEF ensure_event
<1>2. CASE ~(s.failed \/ s.ended) /\ Refused
  BY <1>2, SetError DEF ensure_event
<1>3. CASE ~(s.failed \/ s.ended) /\ ~Refused
  <2>1. t = AtPhase(With(s, r), phase)
    BY <1>3 DEF ensure_event, AtPhase
  <2>2. ensure_event(u, phase, With(u, r)) = AtPhase(With(u, r), phase)
    BY <1>3, UncancelledKeeps DEF ensure_event, AtPhase
  <2>3. Emitted(s, t, r)
    BY <1>3, <2>1 DEF AtPhase, With, Emitted, Working, Stream
  <2>4. AtPhase(With(u, r), phase) = Uncancelled(t)
    BY <2>1 DEF AtPhase, With, Uncancelled, Stream
  <2> QED
    BY <2>2, <2>3, <2>4
<1> QED
  BY <1>1, <1>2, <1>3

\* What the replay makes of a record that the producer's sink took.
Twins(s, t, r) ==
    \/ t = s \/ Fails(s, t)
    \/ Emitted(s, t, r) /\ Emit(Uncancelled(s), r) = Uncancelled(t)

\* What a record is checked against does not depend on the cancellation.
LEMMA UncancelledRecords ==
    ASSUME NEW s \in Stream
    PROVE  LET u == Uncancelled(s)
           IN  /\ \A kind : OfKind(u, kind) = OfKind(s, kind)
               /\ NodeIds(u) = NodeIds(s) /\ Diagnosed(u) = Diagnosed(s)
               /\ Records(u) = Records(s) /\ ~u.cancelled
               /\ validate_closure(s) => validate_closure(u)
<1> DEFINE u == Uncancelled(s)
<1>1. u.records = s.records /\ ~u.cancelled
  BY UncancelledKeeps
<1> HIDE DEF u
<1>2. /\ Records(u) = Records(s) /\ \A kind : OfKind(u, kind) = OfKind(s, kind)
      /\ validate_closure(s) => validate_closure(u)
  BY <1>1, SameRecords
<1>3. NodeIds(u) = NodeIds(s) /\ Diagnosed(u) = Diagnosed(s)
  BY <1>2 DEF NodeIds, Diagnosed
<1> QED
  BY <1>1, <1>2, <1>3 DEF u

\* A node that the producer's sink takes, the replay takes.
LEMMA NodeTwin ==
    ASSUME NEW s \in Stream, NEW r \in NodeRecords
    PROVE  Twins(s, Node(s, r), r)
<1> DEFINE u == Uncancelled(s)
           Valid(x) == r.id \notin NodeIds(x) /\ valid_relations(x, r)
<1>1. r \in AllRecords /\ r.kind = "node"
  BY RecordsAreOfTheirKind DEF AllRecords
<1>2. CASE Valid(s)
  <2>1. Valid(u)
    BY <1>2, UncancelledRecords DEF valid_relations
  <2>2. Node(s, r) = ensure_event(s, 2, With(s, r))
    BY <1>2 DEF Node, Event, With
  <2>3. Emit(u, r) = ensure_event(u, 2, With(u, r))
    BY <1>1, <2>1 DEF Emit, Node, Event, With
  <2> QED
    BY <1>1, <2>2, <2>3, TwinAtPhase DEF Twins
<1>3. CASE ~Valid(s)
  <2>1. Node(s, r) = ensure_event(s, 2, set_error(s))
    BY <1>3 DEF Node, Event
  <2> QED
    BY <2>1, FailsAtPhase DEF Twins
<1> QED
  BY <1>2, <1>3

\* An identity that the producer's sink takes, the replay takes.
LEMMA IdentityTwin ==
    ASSUME NEW s \in Stream, NEW r \in IdentityRecords
    PROVE  Twins(s, Identity(s, r), r)
<1> DEFINE u == Uncancelled(s)
           Valid(x) ==
              /\ r.status # "error"
              /\ r.owner \in NodeIds(x)
              /\ ~(x.cancelled /\ r.status = "validated")
              /\ \A i \in OfKind(x, "identity") :
                    i.sub = r.sub => i.owner # r.owner /\ i.id # r.id
<1>1. r \in AllRecords /\ r.kind = "identity"
  BY RecordsAreOfTheirKind DEF AllRecords
<1>2. CASE Valid(s)
  <2>1. Valid(u)
    BY <1>2, UncancelledRecords
  <2>2. Identity(s, r) = ensure_event(s, 3, With(s, r))
    BY <1>2 DEF Identity, Event, With
  <2>3. Emit(u, r) = ensure_event(u, 3, With(u, r))
    BY <1>1, <2>1 DEF Emit, Identity, Event, With
  <2> QED
    BY <1>1, <2>2, <2>3, TwinAtPhase DEF Twins
<1>3. CASE ~Valid(s)
  <2>1. Identity(s, r) = ensure_event(s, 3, set_error(s))
    BY <1>3 DEF Identity, Event
  <2> QED
    BY <2>1, FailsAtPhase DEF Twins
<1> QED
  BY <1>2, <1>3

\* A reference that the producer's sink takes, the replay takes.
LEMMA ReferenceTwin ==
    ASSUME NEW s \in Stream, NEW r \in ReferenceRecords
    PROVE  Twins(s, Reference(s, r), r)
<1> DEFINE u == Uncancelled(s)
           Valid(x) ==
              /\ r.id \notin {y.id : y \in OfKind(x, "reference")}
              /\ r.owner \in NodeIds(x)
              /\ valid_relations(x, r)
              /\ r.reason = ~r.visible
              /\ \/ reference_kind_matches_namespace(r.space, r.target.sub)
                 \/ ~r.visible /\ r.target.sub = "none"
              /\ IF r.visible
                 THEN \E i \in OfKind(x, "identity") :
                         /\ i.sub = r.target.sub /\ i.id = r.target.id
                         /\ r.status = "validated" => i.status = "validated"
                 ELSE r.status # "validated"
<1>1. r \in AllRecords /\ r.kind = "reference"
  BY RecordsAreOfTheirKind DEF AllRecords
<1>2. CASE Valid(s)
  <2>1. Valid(u)
    BY <1>2, UncancelledRecords DEF valid_relations
  <2>2. Reference(s, r) = ensure_event(s, 4, With(s, r))
    BY <1>2 DEF Reference, Event, With
  <2>3. Emit(u, r) = ensure_event(u, 4, With(u, r))
    BY <1>1, <2>1 DEF Emit, Reference, Event, With
  <2> QED
    BY <1>1, <2>2, <2>3, TwinAtPhase DEF Twins
<1>3. CASE ~Valid(s)
  <2>1. Reference(s, r) = ensure_event(s, 4, set_error(s))
    BY <1>3 DEF Reference, Event
  <2> QED
    BY <2>1, FailsAtPhase DEF Twins
<1> QED
  BY <1>2, <1>3

\* A fact that the producer's sink takes, the replay takes.
LEMMA FactTwin ==
    ASSUME NEW s \in Stream, NEW r \in FactRecords
    PROVE  Twins(s, Fact(s, r), r)
<1> DEFINE u == Uncancelled(s)
           Valid(x) ==
              /\ r.owner \in NodeIds(x)
              /\ \A f \in OfKind(x, "fact") : f.sub <= r.sub
              /\ valid_relations(x, r)
              /\ r.status = "unavailable" => r.reason /\ ~r.display
              /\ r.status = "validated" => r.display
              /\ \A f \in OfKind(x, "fact") : f.sub = r.sub => f.owner # r.owner
<1>1. r \in AllRecords /\ r.kind = "fact"
  BY RecordsAreOfTheirKind DEF AllRecords
<1>2. CASE Valid(s)
  <2>1. Valid(u)
    BY <1>2, UncancelledRecords DEF valid_relations
  <2>2. Fact(s, r) = ensure_event(s, 5, With(s, r))
    BY <1>2 DEF Fact, Event, With
  <2>3. Emit(u, r) = ensure_event(u, 5, With(u, r))
    BY <1>1, <2>1 DEF Emit, Fact, Event, With
  <2> QED
    BY <1>1, <2>2, <2>3, TwinAtPhase DEF Twins
<1>3. CASE ~Valid(s)
  <2>1. Fact(s, r) = ensure_event(s, 5, set_error(s))
    BY <1>3 DEF Fact, Event
  <2> QED
    BY <2>1, FailsAtPhase DEF Twins
<1> QED
  BY <1>2, <1>3

\* A diagnostic that the producer's sink takes, the replay takes.
LEMMA DiagnosticTwin ==
    ASSUME NEW s \in Stream, NEW r \in DiagnosticRecords
    PROVE  Twins(s, Diagnostic(s, r), r)
<1> DEFINE u == Uncancelled(s)
           Valid(x) ==
              /\ r.id \notin Diagnosed(x)
              /\ r.affected \subseteq
                    NodeIds(x) \cup {y.id : y \in OfKind(x, "reference")}
<1>1. r \in AllRecords /\ r.kind = "diagnostic"
  BY RecordsAreOfTheirKind DEF AllRecords
<1>2. CASE Valid(s)
  <2>1. Valid(u)
    BY <1>2, UncancelledRecords
  <2>2. Diagnostic(s, r) = ensure_event(s, 6, With(s, r))
    BY <1>2 DEF Diagnostic, Event, With
  <2>3. Emit(u, r) = ensure_event(u, 6, With(u, r))
    BY <1>1, <2>1 DEF Emit, Diagnostic, Event, With
  <2> QED
    BY <1>1, <2>2, <2>3, TwinAtPhase DEF Twins
<1>3. CASE ~Valid(s)
  <2>1. Diagnostic(s, r) = ensure_event(s, 6, set_error(s))
    BY <1>3 DEF Diagnostic, Event
  <2> QED
    BY <2>1, FailsAtPhase DEF Twins
<1> QED
  BY <1>2, <1>3

(***************************************************************************)
(* Every call keeps the run of a working stream.                            *)
(***************************************************************************)
LEMMA FailedReplays ==
    ASSUME NEW s, NEW t, Fails(s, t)
    PROVE  Replays(t)
BY DEF Fails, Replays, Working

\* The first event begins the run.
LEMMA BegunReplays ==
    ASSUME NEW s, StreamOK(s), Replays(s), NEW exit \in ExitClasses
    PROVE  Replays(Begin(s, exit))
<1> DEFINE t == Begin(s, exit)
<1>1. s \in Stream /\ Stages(s)
  BY DEF StreamOK
<1>2. CASE s.began \/ s.ended \/ s.failed \/ s.cancelled
  <2>1. t = set_error(s)
    BY <1>2 DEF Begin
  <2> QED
    BY <1>1, <2>1, SetError, FailedReplays
<1>3. CASE ~(s.began \/ s.ended \/ s.failed \/ s.cancelled)
  <2>1. s = NewStream
    BY <1>1, <1>3, UncancelledKeeps DEF Replays, Stream
  <2>2. /\ t = Begun(NewStream, 1, exit) /\ t.records = <<>> /\ t.exit = exit
        /\ t.began /\ ~t.ready /\ t.cancelled = FALSE
    BY <1>3, <2>1 DEF Begin, Begun, NewStream
  <2>3. t \in Stream
    BY <1>1, <2>1, <2>2, BegunKeeps, RecordsAreOfTheirKind
  <2>4. Uncancelled(t) = t
    BY <2>2, <2>3, UncancelledKeeps
  <2> DEFINE f == [n \in 0 .. 0 |-> t]
             bytes == Bytes(t)
  <2>5. bytes.records = <<>> /\ bytes.exit = exit /\ Len(bytes.records) = 0
    BY <2>2 DEF Bytes
  <2>6. t = Begin(NewStream, bytes.exit)
    BY <2>1, <2>5
  <2>7. f[0] = t
    OBVIOUS
  <2>8. IsRun(f, bytes)
    <3> HIDE DEF t, bytes
    <3>1. \A n \in 0 .. 0 : n = 0
      OBVIOUS
    <3> QED
      BY <2>5, <2>6, <3>1 DEF IsRun
  <2>9. Len(t.records) = 0
    BY <2>5 DEF Bytes
  <2>10. IsRun(f, Bytes(t)) /\ f[Len(t.records)] = Uncancelled(t)
    <3> HIDE DEF t, f
    <3> QED
      BY <2>4, <2>7, <2>8, <2>9
  <2> HIDE DEF t, f, bytes
  <2>11. \E g : IsRun(g, Bytes(t)) /\ g[Len(t.records)] = Uncancelled(t)
    BY <2>10
  <2>12. Replays(t)
    BY <2>2, <2>11 DEF Replays
  <2> QED
    BY <2>12 DEF t
<1> QED
  BY <1>2, <1>3

\* A record more is a step more of the run.
LEMMA EmittedReplays ==
    ASSUME NEW s, StreamOK(s), Replays(s), NEW t, StreamOK(t),
           NEW r \in AllRecords, Twins(s, t, r)
    PROVE  Replays(t)
<1>1. CASE t = s \/ Fails(s, t)
  BY <1>1, FailedReplays
<1>2. CASE Emitted(s, t, r) /\ Emit(Uncancelled(s), r) = Uncancelled(t)
  <2>1. /\ Working(s) /\ Working(t)
        /\ t.records = Append(s.records, r) /\ t.exit = s.exit
    BY <1>2 DEF Emitted
  <2>2. PICK f : IsRun(f, Bytes(s)) /\ f[Len(s.records)] = Uncancelled(s)
    BY <2>1 DEF Replays
  <2>3. /\ s.records \in Seq(AllRecords) /\ Bytes(s).records = s.records
        /\ Bytes(t).records = t.records /\ Bytes(t).exit = Bytes(s).exit
    BY <2>1 DEF StreamOK, Stream, Bytes
  <2>4. \E g : /\ IsRun(g, Bytes(t))
               /\ g[Len(t.records)] = Emit(f[Len(s.records)], r)
    BY <2>1, <2>2, <2>3, RunGrows
  <2>5. ~t.ready
    BY <2>1 DEF StreamOK, Stages, Working
  <2> QED
    BY <1>2, <2>1, <2>2, <2>4, <2>5 DEF Replays, Working
<1> QED
  BY <1>1, <1>2 DEF Twins

\* An observed cancellation is nothing that the run sees.
LEMMA CancelledReplays ==
    ASSUME NEW s, StreamOK(s), Replays(s)
    PROVE  Replays(observe_cancellation(s))
<1> DEFINE t == observe_cancellation(s)
<1>1. CASE s.ended \/ s.failed
  BY <1>1 DEF observe_cancellation
<1>2. CASE ~(s.ended \/ s.failed)
  <2>1. /\ t.records = s.records /\ t.exit = s.exit /\ t.status = s.status
        /\ t.began = s.began /\ t.failed = s.failed /\ t.ended = s.ended
        /\ t.ready = s.ready /\ Uncancelled(t) = Uncancelled(s)
    BY <1>2 DEF observe_cancellation, Uncancelled, StreamOK, Stream
  <2>2. Bytes(t) = Bytes(s)
    BY <2>1 DEF Bytes
  <2> HIDE DEF t
  <2> QED
    BY <2>1, <2>2 DEF Replays, Working, t
<1> QED
  BY <1>1, <1>2

\* The end of a stream that justifies it.
LEMMA EndsAtPhase ==
    ASSUME NEW s \in Stream, Working(s),
           NEW status \in {"checked", "failed", "cancelled"},
           end_is_justified(s, status), validate_closure(s)
    PROVE  LET t == End(s, status)
           IN  /\ t.records = s.records /\ t.exit = s.exit /\ t.status = status
               /\ t.began /\ t.ended /\ t.ready
<1>1. s.began /\ ~s.failed /\ ~s.ended /\ ~(s.phase > 7)
  BY DEF Working, Stream
<1>2. End(s, status) = AtPhase(Ended(s, status), 7)
  BY <1>1 DEF End, ensure_event, Ended, AtPhase
<1>3. LET t == AtPhase(Ended(s, status), 7)
      IN  /\ t.records = s.records /\ t.exit = s.exit /\ t.status = status
          /\ t.began /\ t.ended /\ t.ready
  BY <1>1 DEF Ended, AtPhase, Stream
<1> QED
  BY <1>2, <1>3

\* The replay of a stream that ends justly is ready, with the same bytes.
LEMMA EndReplays ==
    ASSUME NEW s, StreamOK(s), Replays(s),
           NEW status \in {"checked", "failed", "cancelled"}
    PROVE  Replays(End(s, status))
<1> DEFINE t == End(s, status)
           u == Uncancelled(s)
           bytes == Bytes(t)
<1>1. s \in Stream
  BY DEF StreamOK
<1>2. CASE t = s \/ Fails(s, t)
  BY <1>2, FailedReplays
<1>3. CASE Ends(s, t, status)
  <2>1. Working(s) /\ end_is_justified(s, status) /\ validate_closure(s)
    BY <1>3 DEF Ends, Working
  <2>2. /\ t.records = s.records /\ t.exit = s.exit /\ t.status = status
        /\ t.began /\ t.ended /\ t.ready
    BY <1>1, <2>1, EndsAtPhase
  <2>3. /\ bytes.records = s.records /\ bytes.exit = s.exit
        /\ bytes.status = status /\ Len(s.records) \in Nat
    BY <1>1, <2>2, LenProperties DEF Bytes, Stream
  <2>4. PICK f : IsRun(f, Bytes(s)) /\ f[Len(s.records)] = u
    BY <2>1 DEF Replays
  <2>5. IsRun(f, bytes)
    <3>1. Bytes(s).records = bytes.records /\ Bytes(s).exit = bytes.exit
      BY <2>3 DEF Bytes
    <3> HIDE DEF bytes
    <3> QED
      BY <2>4, <3>1 DEF IsRun
  <2>6. after(bytes)[Len(bytes.records)] = u
    <3> HIDE DEF bytes, u
    <3> QED
      BY <2>3, <2>4, <2>5, AfterIsTheRun
  <2>7. replay(bytes) = End(IF status = "cancelled" THEN observe_cancellation(u)
                            ELSE u, status)
    <3> HIDE DEF bytes, u
    <3> QED
      BY <2>3, <2>6 DEF replay
  <2>8. replay(bytes).ready /\ Bytes(replay(bytes)) = bytes
    <3>1. CASE status = "cancelled"
      <4>1. s.cancelled = TRUE /\ s.ended = FALSE /\ s.failed = FALSE
        BY <1>1, <2>1, <3>1 DEF end_is_justified, Working, Stream
      <4>2. observe_cancellation(u) = s
        BY <1>1, <4>1 DEF observe_cancellation, Uncancelled, Stream
      <4>3. replay(bytes) = t
        BY <2>7, <3>1, <4>2
      <4> QED
        BY <2>2, <4>3
    <3>2. CASE status # "cancelled"
      <4>1. /\ u \in Stream /\ Working(u)
            /\ u.records = s.records /\ u.exit = s.exit
        BY <1>1, <2>1, UncancelledKeeps DEF Working
      <4>2. validate_closure(u)
        BY <1>1, <2>1, UncancelledRecords
      <4>3. end_is_justified(u, status)
        <5>1. /\ Records(u) = Records(s)
              /\ OfKind(u, "diagnostic") = OfKind(s, "diagnostic")
          BY <1>1, UncancelledRecords
        <5> HIDE DEF u
        <5> QED
          BY <2>1, <3>2, <4>1, <5>1 DEF end_is_justified, HasErrorDiagnostic
      <4>4. replay(bytes) = End(u, status)
        BY <2>7, <3>2
      <4>5. /\ End(u, status).records = s.records /\ End(u, status).exit = s.exit
            /\ End(u, status).status = status /\ End(u, status).ready
        <5> HIDE DEF u
        <5> QED
          BY <4>1, <4>2, <4>3, EndsAtPhase
      <4>6. Bytes(End(u, status)) = Bytes(t)
        BY <2>2, <4>5 DEF Bytes
      <4> QED
        BY <4>4, <4>5, <4>6
    <3> QED
      BY <3>1, <3>2
  <2>9. kofun_semantic_validate_stream(Bytes(t))
    BY <2>8 DEF kofun_semantic_validate_stream
  <2> HIDE DEF t
  <2> QED
    BY <2>2, <2>9 DEF Replays, Working, t
<1>4. t = s \/ Fails(s, t) \/ Ends(s, t, status)
  BY <1>1, EndCall
<1> HIDE DEF t
<1> QED
  BY <1>2, <1>3, <1>4 DEF t

\* A new stream has nothing to replay.
LEMMA NewStreamReplays == Replays(NewStream)
<1>1. ~NewStream.began /\ ~NewStream.ready /\ NewStream.cancelled = FALSE
  BY DEF NewStream
<1>2. Uncancelled(NewStream) = NewStream
  BY <1>1, NewStreamOK, UncancelledKeeps DEF StreamOK
<1> QED
  BY <1>1, <1>2 DEF Replays, Working

\* Every step keeps the run of the stream.
LEMMA NextReplays ==
    ASSUME IInv, IInv', Replays(stream), [Next]_vars
    PROVE  Replays(stream')
<1>0. StreamOK(stream) /\ StreamOK(stream') /\ stream \in Stream
  BY DEF IInv, StreamOK
<1> USE DEF calls
<1>1. CASE begin
  BY <1>0, <1>1, BegunReplays DEF begin
<1>2. CASE node
  <2>1. PICK r \in NodeRecords : stream' = Node(stream, r)
    BY <1>2 DEF node
  <2> QED
    BY <1>0, <2>1, NodeTwin, EmittedReplays DEF AllRecords
<1>3. CASE identity
  <2>1. PICK r \in IdentityRecords : stream' = Identity(stream, r)
    BY <1>3 DEF identity
  <2> QED
    BY <1>0, <2>1, IdentityTwin, EmittedReplays DEF AllRecords
<1>4. CASE reference
  <2>1. PICK r \in ReferenceRecords : stream' = Reference(stream, r)
    BY <1>4 DEF reference
  <2> QED
    BY <1>0, <2>1, ReferenceTwin, EmittedReplays DEF AllRecords
<1>5. CASE fact
  <2>1. PICK r \in FactRecords : stream' = Fact(stream, r)
    BY <1>5 DEF fact
  <2> QED
    BY <1>0, <2>1, FactTwin, EmittedReplays DEF AllRecords
<1>6. CASE diagnostic
  <2>1. PICK r \in DiagnosticRecords : stream' = Diagnostic(stream, r)
    BY <1>6 DEF diagnostic
  <2> QED
    BY <1>0, <2>1, DiagnosticTwin, EmittedReplays DEF AllRecords
<1>7. CASE end
  BY <1>0, <1>7, EndReplays DEF end
<1>8. CASE cancellation_observed
  BY <1>0, <1>8, CancelledReplays DEF cancellation_observed
<1>9. CASE recreate \/ crash
  BY <1>9, NewStreamReplays DEF recreate, crash
<1>10. CASE stream' = set_error(stream)
  BY <1>0, <1>10, SetError, FailedReplays
<1>11. CASE stream' = stream
  BY <1>11
<1>12. CASE rejected \/ commit_starts \/ io_fails
  BY <1>10, <1>11, <1>12 DEF rejected, commit_starts, io_fails, commit_fails
<1>13. CASE creates_temporary \/ writes_temporary \/ renames \/ UNCHANGED vars
  BY <1>11, <1>13 DEF creates_temporary, writes_temporary, renames, vars
<1> QED
  BY <1>1, <1>2, <1>3, <1>4, <1>5, <1>6, <1>7, <1>8, <1>9, <1>12, <1>13 DEF Next

\* emit_parsed_event and kofun_semantic_validate_stream: the replay accepts
\* the bytes of every stream that the sink lets end, though they do not say
\* when, or whether, a cancellation was observed.
THEOREM ReplaysReproduce == Spec => []ReplayReproduces
<1> DEFINE Run == Replays(stream)
<1>1. Init => Run
  BY NewStreamReplays DEF Init
<1>2. IInv /\ IInv' /\ Run /\ [Next]_vars => Run'
  BY NextReplays
<1>3. Run => ReplayReproduces
  BY DEF Replays, ReplayReproduces
<1> QED
  BY <1>1, <1>2, <1>3, Inductive, PTL DEF Spec
=============================================================================
