------------------------ MODULE SidecarWriterProofs ------------------------
(***************************************************************************)
(* Proofs about SidecarWriter, for any calls, processes, sequences and       *)
(* number of attempts.                                                      *)
(*                                                                          *)
(* IInv is inductive: while a call works on the destination it has the lock, *)
(* so that what it has read there is still there when it renames.            *)
(***************************************************************************)
EXTENDS SidecarWriter, SequenceTheorems, TLAPS

Before == {"idle", "queued", "locking"} \cup Holding

\* No answer is given before the call is over.
NoAnswerYet == \A c \in Calls : stage[c] \in Before => answer[c] = "none"

\* What a call has found out about the destination, and still holds.
Found ==
    \A c \in Calls :
        /\ stage[c] \in {"creating", "written", "deciding"} =>
              destination.kind # "unsafe"
        /\ stage[c] = "deciding" => current[c] = destination
        /\ stage[c] = "renaming" =>
              \/ destination.kind = "absent"
              \/ destination.kind = "document" /\ destination.sequence < Sequence[c]

\* No call got its lock later than now; one that refreshes its digest and is
\* about to rename has a document of the source as it was at that time or later.
Fresh ==
    \A c \in Calls :
        /\ lockedAt[c] <= source
        /\ c \in Refreshing /\ stage[c] = "renaming" => lockedAt[c] <= digest[c]

IInv == TypeOK /\ LockIsExclusive /\ NoAnswerYet /\ Found /\ Fresh /\ AnswersHold

(***************************************************************************)
(* What the decision says.                                                  *)
(***************************************************************************)
LEMMA Decision ==
    ASSUME TypeOK, NEW c \in Calls, NEW d \in Destination, NEW version \in Nat
    PROVE  /\ replacementAgainst(d, c, version) \in
                {"allow", "invalid-old", "source-mismatch", "wrong-file", "stale-sequence"}
           /\ replacementAgainst(d, c, version) = "allow" =>
                 /\ d.kind \in {"absent", "document", "unsafe"}
                 /\ d.kind = "document" => d.sequence < Sequence[c]
                 /\ digest[c] = version
           /\ replacementAgainst(d, c, version) = "stale-sequence" =>
                 d.kind = "document" /\ Sequence[c] <= d.sequence
<1>1. d.sequence \in Nat /\ Sequence[c] \in Nat /\ d.kind \in Kinds
  BY CallsAssumption DEF Destination
<1>2. CASE d.kind = "invalid"
  BY <1>2 DEF replacementAgainst
<1>3. CASE d.kind # "invalid" /\ digest[c] # version
  BY <1>3 DEF replacementAgainst
<1>4. CASE d.kind = "other" /\ digest[c] = version
  BY <1>4 DEF replacementAgainst
<1>5. CASE d.kind = "document" /\ digest[c] = version /\ Sequence[c] <= d.sequence
  BY <1>5 DEF replacementAgainst
<1>6. CASE d.kind = "document" /\ digest[c] = version /\ d.sequence < Sequence[c]
  BY <1>1, <1>6 DEF replacementAgainst
<1>7. CASE d.kind \in {"absent", "unsafe"} /\ digest[c] = version
  BY <1>7 DEF replacementAgainst
<1> QED
  BY <1>1, <1>2, <1>3, <1>4, <1>5, <1>6, <1>7 DEF Kinds

\* The digest that the second decision compares with, refreshed or not.
LEMMA CommittedDigest ==
    ASSUME TypeOK, NEW c \in Calls
    PROVE  commitSourceDigest(c) \in Nat
  BY DEF TypeOK, commitSourceDigest

\* No call has begun.
LEMMA InitIInv ==
    ASSUME Init
    PROVE  IInv
<1>1. destination \in Destination
  BY DEF Init, Destination, Document, NoDocument, Kinds
<1>2. TypeOK
  BY <1>1 DEF Init, TypeOK, Stages, Answers, Destination, NoDocument, Kinds
<1> QED
  BY <1>2 DEF Init, IInv, LockIsExclusive, NoAnswerYet, Found, Fresh, AnswersHold,
     Holding, Before

(***************************************************************************)
(* The order of the calls in a process.                                     *)
(***************************************************************************)
Serial ==
    \A c \in Calls :
        stage[c] \notin {"idle", "queued", "done", "dead"} =>
            queue[ProcessOf[c]] # <<>> /\ Head(queue[ProcessOf[c]]) = c

\* A call that queues does not overtake.
LEMMA AppendHead ==
    ASSUME NEW S, NEW q \in Seq(S), NEW e \in S
    PROVE  /\ Append(q, e) # <<>>
           /\ q # <<>> => Head(Append(q, e)) = Head(q)
<1>1. Append(q, e) # <<>>
  BY AppendProperties
<1>2. Head(Append(q, e)) = IF q = <<>> THEN e ELSE Head(q)
  BY HeadTailAppend
<1> QED
  BY <1>1, <1>2

\* A process begins its next call when the one before it is over.
LEMMA SerialStep ==
    ASSUME TypeOK, Next
    PROVE  Serial'
<1> USE CallsAssumption DEF TypeOK, Serial, Go, Throw, Stages
<1>1. ASSUME NEW c \in Calls, writeTypedSidecarAtomic(c)
      PROVE  Serial'
  <2>1. queue[ProcessOf[c]] \in Seq(Calls)
    OBVIOUS
  <2>2. /\ Append(queue[ProcessOf[c]], c) # <<>>
        /\ queue[ProcessOf[c]] # <<>> =>
              Head(Append(queue[ProcessOf[c]], c)) = Head(queue[ProcessOf[c]])
    BY <2>1, AppendHead
  <2> QED
    BY <1>1, <2>1, <2>2 DEF writeTypedSidecarAtomic
<1>2. ASSUME NEW c \in Calls, Step(c) \/ throws(c)
      PROVE  Serial'
  <2>1. CASE finally(c)
    BY <2>1 DEF finally
  <2>2. CASE acquireDestinationLock(c)
    BY <2>2 DEF acquireDestinationLock
  <2>3. CASE serializeDestination(c)
    BY <2>3 DEF serializeDestination
  <2>4. CASE \/ statLock(c) \/ readInitial(c) \/ writeTemporary(c) \/ readCurrent(c)
             \/ decide(c) \/ rename(c) \/ throws(c)
    BY <2>4 DEF statLock, readInitial, writeTemporary, readCurrent, decide, rename, throws
  <2> QED
    BY <1>2, <2>1, <2>2, <2>3, <2>4 DEF Step
<1>3. CASE edit
  BY <1>3 DEF edit
<1>4. ASSUME NEW p \in Processes, crash(p)
      PROVE  Serial'
  BY <1>4 DEF crash
<1> QED
  BY <1>1, <1>2, <1>3, <1>4 DEF Next

(***************************************************************************)
(* The types.                                                               *)
(***************************************************************************)
LEMMA TypeStep ==
    ASSUME TypeOK, Next
    PROVE  TypeOK'
<1> USE CallsAssumption
<1>1. Serial'
  BY SerialStep
<1> DEFINE Types ==
        /\ destination \in Destination /\ lock \in Calls \cup {Nobody}
        /\ source \in Nat /\ stage \in [Calls -> Stages]
        /\ queue \in [Processes -> Seq(Calls)] /\ tries \in [Calls -> Nat]
        /\ digest \in [Calls -> Nat] /\ current \in [Calls -> Destination]
        /\ answer \in [Calls -> Answers] /\ lockedAt \in [Calls -> Nat]
<1>2. Types
  BY DEF TypeOK
<1>3. SUFFICES Types'
  BY <1>1 DEF TypeOK, Serial
<1>4. ASSUME NEW c \in Calls, writeTypedSidecarAtomic(c)
      PROVE  Types'
  <2>1. queue' \in [Processes -> Seq(Calls)]
    BY <1>2, <1>4, AppendProperties DEF writeTypedSidecarAtomic
  <2> QED
    BY <1>2, <1>4, <2>1 DEF writeTypedSidecarAtomic, Go, Stages, files
<1>5. ASSUME NEW c \in Calls, Step(c) \/ throws(c)
      PROVE  Types'
  <2> USE DEF Go, Throw, Stages, Answers, files
  <2>1. CASE finally(c)
    <3>1. queue[ProcessOf[c]] \in Seq(Calls) /\ queue[ProcessOf[c]] # <<>>
      BY <2>1 DEF TypeOK, finally
    <3>2. Tail(queue[ProcessOf[c]]) \in Seq(Calls)
      BY <3>1, HeadTailProperties
    <3> QED
      BY <1>2, <2>1, <3>2 DEF finally, safeUnlinkOwned
  <2>2. CASE acquireDestinationLock(c)
    <3>1. UNCHANGED <<destination, source, queue, digest, current>>
      BY <2>2 DEF acquireDestinationLock
    <3>2. CASE /\ lock' = c /\ Go(c, "locking", "locked") /\ UNCHANGED answer
               /\ lockedAt' = [lockedAt EXCEPT ![c] = source]
               /\ tries' = [tries EXCEPT ![c] = 0]
      BY <1>2, <3>1, <3>2
    <3>3. CASE Throw(c, "locking", "TS006") /\ UNCHANGED <<lock, lockedAt, tries>>
      BY <1>2, <3>1, <3>3
    <3>4. CASE /\ tries' = [tries EXCEPT ![c] = @ + 1]
               /\ UNCHANGED <<lock, stage, lockedAt, answer>>
      <4>1. tries' \in [Calls -> Nat]
        BY <1>2, <3>4
      <4> QED
        BY <1>2, <3>1, <3>4, <4>1
    <3> QED
      BY <2>2, <3>2, <3>3, <3>4 DEF acquireDestinationLock
  <2>3. CASE serializeDestination(c) \/ statLock(c) \/ writeTemporary(c)
    BY <1>2, <2>3 DEF serializeDestination, statLock, writeTemporary
  <2>7. CASE readCurrent(c)
    BY <1>2, <2>7 DEF readCurrent
  <2>8. CASE throws(c)
    BY <1>2, <2>8 DEF throws
  <2>4. CASE readInitial(c)
    <3>1. replacementAgainst(destination, c, digest[c]) \in
            {"allow", "invalid-old", "source-mismatch", "wrong-file", "stale-sequence"}
      BY <1>2, Decision
    <3> QED
      BY <1>2, <2>4, <3>1 DEF readInitial
  <2>5. CASE decide(c)
    <3>1. replacementAgainst(current[c], c, commitSourceDigest(c)) \in
            {"allow", "invalid-old", "source-mismatch", "wrong-file", "stale-sequence"}
      BY <1>2, CommittedDigest, Decision
    <3>2. NoDocument("absent") \in Destination
      BY DEF NoDocument, Destination, Kinds
    <3>3. current' \in [Calls -> Destination]
      BY <1>2, <2>5, <3>2 DEF decide
    <3>4. stage' \in [Calls -> Stages] /\ answer' \in [Calls -> Answers]
      <4>1. CASE Go(c, "deciding", "renaming") /\ UNCHANGED answer
        BY <1>2, <4>1
      <4>2. ASSUME NEW why \in {replacementAgainst(current[c], c, commitSourceDigest(c)),
                                 "source-mismatch"},
                   why # "allow", Throw(c, "deciding", why)
            PROVE  stage' \in [Calls -> Stages] /\ answer' \in [Calls -> Answers]
        BY <1>2, <3>1, <4>2
      <4> QED
        BY <2>5, <4>1, <4>2 DEF decide, unreadable
    <3> QED
      BY <1>2, <2>5, <3>3, <3>4 DEF decide
  <2>6. CASE rename(c)
    <3>1. Document(Sequence[c], digest[c]) \in Destination
      BY <1>2 DEF Document, Destination, Kinds
    <3> QED
      BY <1>2, <2>6, <3>1 DEF rename
  <2> QED
    BY <1>5, <2>1, <2>2, <2>3, <2>4, <2>5, <2>6, <2>7, <2>8 DEF Step
<1>6. CASE edit
  BY <1>2, <1>6 DEF edit, files
<1>7. ASSUME NEW p \in Processes, crash(p)
      PROVE  Types'
  BY <1>2, <1>7 DEF crash, files, Stages
<1> QED
  BY <1>4, <1>5, <1>6, <1>7 DEF Next
(***************************************************************************)
(* One call at a time.  Each step of a call that holds the lock keeps it;   *)
(* no other call can take it or remove it.                                  *)
(***************************************************************************)
LEMMA LockStep ==
    ASSUME TypeOK, LockIsExclusive, Next
    PROVE  LockIsExclusive'
<1> USE CallsAssumption DEF LockIsExclusive, Holding, Go, Throw, files
<1>1. stage \in [Calls -> Stages]
  BY DEF TypeOK
<1>2. ASSUME NEW c \in Calls, writeTypedSidecarAtomic(c)
      PROVE  LockIsExclusive'
  BY <1>1, <1>2 DEF writeTypedSidecarAtomic
<1>3. ASSUME NEW c \in Calls, Step(c) \/ throws(c)
      PROVE  LockIsExclusive'
  <2>1. CASE serializeDestination(c)
    BY <1>1, <2>1 DEF serializeDestination
  <2>2. CASE acquireDestinationLock(c)
    BY <1>1, <2>2 DEF acquireDestinationLock
  <2>3. CASE statLock(c) \/ readInitial(c) \/ writeTemporary(c) \/ readCurrent(c)
    BY <1>1, <2>3 DEF statLock, readInitial, writeTemporary, readCurrent
  <2>4. CASE decide(c) \/ rename(c) \/ throws(c)
    BY <1>1, <2>4 DEF decide, rename, throws
  <2>5. CASE finally(c)
    BY <1>1, <2>5 DEF finally, safeUnlinkOwned
  <2> QED
    BY <1>3, <2>1, <2>2, <2>3, <2>4, <2>5 DEF Step
<1>4. CASE edit
  BY <1>4 DEF edit
<1>5. ASSUME NEW p \in Processes, crash(p)
      PROVE  LockIsExclusive'
  BY <1>1, <1>5 DEF crash
<1> QED
  BY <1>2, <1>3, <1>4, <1>5 DEF Next

(***************************************************************************)
(* No answer before the end.                                                *)
(***************************************************************************)
LEMMA NoAnswerStep ==
    ASSUME TypeOK, NoAnswerYet, Next
    PROVE  NoAnswerYet'
<1> USE DEF NoAnswerYet, Before, Holding, Go, Throw, Stages
<1>1. stage \in [Calls -> Stages] /\ answer \in [Calls -> Answers]
  BY DEF TypeOK
<1>2. ASSUME NEW c \in Calls, writeTypedSidecarAtomic(c) \/ serializeDestination(c)
      PROVE  NoAnswerYet'
  BY <1>1, <1>2 DEF writeTypedSidecarAtomic, serializeDestination
<1>3. ASSUME NEW c \in Calls, acquireDestinationLock(c)
      PROVE  NoAnswerYet'
  BY <1>1, <1>3 DEF acquireDestinationLock
<1>4. ASSUME NEW c \in Calls,
             statLock(c) \/ readInitial(c) \/ writeTemporary(c) \/ readCurrent(c)
      PROVE  NoAnswerYet'
  BY <1>1, <1>4 DEF statLock, readInitial, writeTemporary, readCurrent
<1>5. ASSUME NEW c \in Calls, decide(c) \/ rename(c) \/ throws(c) \/ finally(c)
      PROVE  NoAnswerYet'
  BY <1>1, <1>5 DEF decide, rename, throws, finally
<1>6. CASE edit
  BY <1>6 DEF edit
<1>7. ASSUME NEW p \in Processes, crash(p)
      PROVE  NoAnswerYet'
  BY <1>1, <1>7 DEF crash
<1> QED
  BY <1>2, <1>3, <1>4, <1>5, <1>6, <1>7 DEF Next, Step
(***************************************************************************)
(* Only the call that holds the lock changes the destination.               *)
(***************************************************************************)
LEMMA FoundStep ==
    ASSUME TypeOK, LockIsExclusive, Found, Next
    PROVE  Found'
<1> USE CallsAssumption DEF Go, Throw, Stages, files
<1>1. stage \in [Calls -> Stages] /\ current \in [Calls -> Destination]
        /\ destination \in Destination
  BY DEF TypeOK
<1>2. ASSUME NEW c \in Calls,
             \/ writeTypedSidecarAtomic(c) \/ serializeDestination(c)
             \/ statLock(c) \/ writeTemporary(c)
      PROVE  Found'
  BY <1>1, <1>2 DEF Found, writeTypedSidecarAtomic, serializeDestination, statLock,
     writeTemporary
<1>3. ASSUME NEW c \in Calls, acquireDestinationLock(c)
      PROVE  Found'
  BY <1>1, <1>3 DEF Found, acquireDestinationLock
<1>4. ASSUME NEW c \in Calls, readInitial(c)
      PROVE  Found'
  BY <1>1, <1>4 DEF Found, readInitial
<1>5. ASSUME NEW c \in Calls, readCurrent(c)
      PROVE  Found'
  BY <1>1, <1>5 DEF Found, readCurrent
<1>6. ASSUME NEW c \in Calls, decide(c)
      PROVE  Found'
  <2>1. /\ UNCHANGED destination
        /\ \A d \in Calls \ {c} : stage'[d] = stage[d] /\ current'[d] = current[d]
        /\ stage'[c] \in {"finally", "renaming"}
    BY <1>1, <1>6 DEF decide
  <2>2. ASSUME stage'[c] = "renaming"
        PROVE  \/ destination.kind = "absent"
               \/ destination.kind = "document" /\ destination.sequence < Sequence[c]
    <3>1. /\ replacementAgainst(current[c], c, commitSourceDigest(c)) = "allow"
          /\ stage[c] = "deciding"
      BY <1>1, <1>6, <2>2 DEF decide
    <3>2. current[c] = destination /\ destination.kind # "unsafe"
      BY <3>1 DEF Found
    <3> QED
      BY <1>1, <3>1, <3>2, CommittedDigest, Decision
  <2> QED
    BY <2>1, <2>2 DEF Found
<1>7. ASSUME NEW c \in Calls, rename(c)
      PROVE  Found'
  <2>1. \A d \in Calls \ {c} : stage'[d] = stage[d] /\ stage[d] \notin Holding
    BY <1>1, <1>7 DEF rename, LockIsExclusive, Holding
  <2>2. stage'[c] = "finally"
    BY <1>1, <1>7 DEF rename
  <2> QED
    BY <2>1, <2>2 DEF Found, Holding
<1>8. ASSUME NEW c \in Calls, throws(c) \/ finally(c)
      PROVE  Found'
  BY <1>1, <1>8 DEF Found, throws, finally
<1>9. CASE edit
  BY <1>9 DEF Found, edit
<1>10. ASSUME NEW p \in Processes, crash(p)
       PROVE  Found'
  BY <1>1, <1>10 DEF Found, crash
<1> QED
  BY <1>2, <1>3, <1>4, <1>5, <1>6, <1>7, <1>8, <1>9, <1>10 DEF Next, Step

\* A digest is not older than the source was at the lock.
LEMMA FreshStep ==
    ASSUME TypeOK, Fresh, Next
    PROVE  Fresh'
<1> USE DEF Go, Throw, Stages, files
<1>1. /\ stage \in [Calls -> Stages] /\ source \in Nat
      /\ digest \in [Calls -> Nat] /\ lockedAt \in [Calls -> Nat]
  BY DEF TypeOK
<1>2. ASSUME NEW c \in Calls, writeTypedSidecarAtomic(c)
      PROVE  Fresh'
  BY <1>1, <1>2 DEF Fresh, writeTypedSidecarAtomic
<1>3. ASSUME NEW c \in Calls, acquireDestinationLock(c)
      PROVE  Fresh'
  BY <1>1, <1>3 DEF Fresh, acquireDestinationLock
<1>4. ASSUME NEW c \in Calls,
             \/ serializeDestination(c) \/ statLock(c) \/ readInitial(c)
             \/ writeTemporary(c) \/ readCurrent(c) \/ rename(c) \/ throws(c)
      PROVE  Fresh'
  BY <1>1, <1>4 DEF Fresh, serializeDestination, statLock, readInitial, writeTemporary,
     readCurrent, rename, throws
<1>5. ASSUME NEW c \in Calls, decide(c)
      PROVE  Fresh'
  <2>1. /\ UNCHANGED <<source, digest, lockedAt>>
        /\ \A d \in Calls \ {c} : stage'[d] = stage[d]
    BY <1>1, <1>5 DEF decide
  <2>2. ASSUME stage'[c] = "renaming", c \in Refreshing
        PROVE  digest[c] = source
    <3>1. commitSourceDigest(c) = source
      BY <2>2 DEF commitSourceDigest
    <3>2. replacementAgainst(current[c], c, source) = "allow" /\ current[c] \in Destination
      BY <1>1, <1>5, <2>2, <3>1 DEF decide, TypeOK
    <3> QED
      BY <1>1, <3>2, Decision
  <2> QED
    BY <2>1, <2>2 DEF Fresh
<1>6. ASSUME NEW c \in Calls, finally(c)
      PROVE  Fresh'
  BY <1>1, <1>6 DEF Fresh, finally
<1>7. CASE edit
  BY <1>1, <1>7 DEF Fresh, edit
<1>8. ASSUME NEW p \in Processes, crash(p)
      PROVE  Fresh'
  BY <1>1, <1>8 DEF Fresh, crash
<1> QED
  BY <1>2, <1>3, <1>4, <1>5, <1>6, <1>7, <1>8 DEF Next, Step

(***************************************************************************)
(* The answers.                                                             *)
(***************************************************************************)
LEMMA AnswersStep ==
    ASSUME TypeOK, Found, AnswersHold, Next
    PROVE  AnswersHold'
<1> USE CallsAssumption DEF Go, Throw, files
<1>1. /\ stage \in [Calls -> Stages] /\ answer \in [Calls -> Answers]
      /\ destination \in Destination /\ digest \in [Calls -> Nat]
      /\ current \in [Calls -> Destination]
      /\ destination.sequence \in Nat
  BY DEF TypeOK, Destination
<1>2. ASSUME UNCHANGED <<destination, answer>>
      PROVE  AnswersHold'
  BY <1>2 DEF AnswersHold
<1>3. ASSUME NEW c \in Calls, UNCHANGED destination, NEW why \in Answers \ {"ok", "stale-sequence"},
             answer' = [answer EXCEPT ![c] = why]
      PROVE  AnswersHold'
  BY <1>1, <1>3 DEF AnswersHold
<1>4. ASSUME NEW c \in Calls, readInitial(c) \/ decide(c), ~UNCHANGED answer
      PROVE  AnswersHold'
  <2>1. UNCHANGED destination
    BY <1>4 DEF readInitial, decide
  <2>2. PICK why : answer' = [answer EXCEPT ![c] = why]
          /\ why \in {"TS006", "source-mismatch",
                      replacementAgainst(destination, c, digest[c]),
                      replacementAgainst(destination, c, commitSourceDigest(c))}
          /\ why # "allow"
    <3>1. CASE readInitial(c)
      BY <1>4, <3>1 DEF readInitial
    <3>2. CASE decide(c)
      <4>1. current[c] = destination
        BY <3>2 DEF decide, Found
      <4> QED
        BY <1>4, <3>2, <4>1 DEF decide, unreadable
    <3> QED
      BY <1>4, <3>1, <3>2
  <2>3. why \in Answers \ {"ok"}
    BY <1>1, <2>2, CommittedDigest, Decision DEF Answers
  <2>4. CASE why = "stale-sequence"
    <3>1. destination.kind = "document" /\ Sequence[c] <= destination.sequence
      BY <1>1, <2>2, <2>4, CommittedDigest, Decision
    <3> QED
      BY <1>1, <2>1, <2>2, <3>1 DEF AnswersHold
  <2> QED
    BY <1>3, <2>1, <2>2, <2>3, <2>4
<1>5. ASSUME NEW c \in Calls, rename(c)
      PROVE  AnswersHold'
  <2>1. /\ destination' = Document(Sequence[c], digest[c])
        /\ answer' = [answer EXCEPT ![c] = "ok"]
        /\ destination.kind = "document" => destination.sequence < Sequence[c]
    BY <1>5 DEF rename, Found
  <2>2. destination'.kind = "document" /\ destination'.sequence = Sequence[c]
    BY <2>1 DEF Document
  <2>3. Sequence[c] \in Nat /\ \A d \in Calls : Sequence[d] \in Nat
    OBVIOUS
  <2> QED
    BY <1>1, <2>1, <2>2, <2>3 DEF AnswersHold
<1>6. ASSUME NEW c \in Calls, throws(c)
      PROVE  AnswersHold'
  BY <1>3, <1>6 DEF throws, Answers
<1>7. ASSUME NEW c \in Calls, acquireDestinationLock(c)
      PROVE  AnswersHold'
  BY <1>2, <1>3, <1>7 DEF acquireDestinationLock, Answers
<1> QED
  BY <1>2, <1>4, <1>5, <1>6, <1>7 DEF Next, Step, writeTypedSidecarAtomic,
     serializeDestination, statLock, writeTemporary, readCurrent, readInitial, decide,
     finally, edit, crash
(***************************************************************************)
(* The invariant of the specification.                                      *)
(***************************************************************************)
LEMMA Stutter ==
    ASSUME IInv, UNCHANGED vars
    PROVE  IInv'
  BY DEF IInv, TypeOK, LockIsExclusive, NoAnswerYet, Found, Fresh, AnswersHold, vars, files

\* The inductive invariant holds: what a call that works on the destination
\* knows of it stays true, because no other call has the lock.
THEOREM IInvHolds == Spec => []IInv
<1>1. Init => IInv
  BY InitIInv
<1>2. IInv /\ [Next]_vars => IInv'
  <2>1. ASSUME IInv, Next
        PROVE  IInv'
    BY <2>1, TypeStep, LockStep, NoAnswerStep, FoundStep, FreshStep, AnswersStep DEF IInv
  <2> QED
    BY <2>1, Stutter
<1> QED
  BY <1>1, <1>2, PTL DEF Spec

\* The variables keep their types, and a process has one call under way.
THEOREM TypeCorrect == Spec => []TypeOK
<1>1. IInv => TypeOK
  BY DEF IInv
<1> QED
  BY <1>1, IInvHolds, PTL

\* One call at a time works on the destination, whatever times out, is
\* cancelled, fails or dies.
THEOREM OneWriterAtATime == Spec => []LockIsExclusive
<1>1. IInv => LockIsExclusive
  BY DEF IInv
<1> QED
  BY <1>1, IInvHolds, PTL

\* A call that was told that its document is there, or came too late, finds
\* its generation or a later one there for ever.
THEOREM AnswersStayTrue == Spec => []AnswersHold
<1>1. IInv => AnswersHold
  BY DEF IInv
<1> QED
  BY <1>1, IInvHolds, PTL

(***************************************************************************)
(* Only a rename answers "ok".                                              *)
(***************************************************************************)
LEMMA OkIsRename ==
    ASSUME IInv, Next, NEW c \in Calls, answer'[c] = "ok", answer[c] # "ok"
    PROVE  rename(c)
<1> USE DEF Go, Throw
<1>1. answer \in [Calls -> Answers] /\ destination \in Destination
        /\ current \in [Calls -> Destination] /\ source \in Nat /\ digest \in [Calls -> Nat]
  BY DEF IInv, TypeOK
<1>2. ASSUME NEW d \in Calls, readInitial(d)
      PROVE  FALSE
  <2>1. replacementAgainst(destination, d, digest[d]) # "ok"
    BY <1>1, Decision DEF IInv
  <2> QED
    BY <1>1, <1>2, <2>1 DEF readInitial
<1>3. ASSUME NEW d \in Calls, decide(d)
      PROVE  FALSE
  <2>1. replacementAgainst(current[d], d, commitSourceDigest(d)) # "ok"
    BY <1>1, CommittedDigest, Decision DEF IInv
  <2> QED
    BY <1>1, <1>3, <2>1 DEF decide, unreadable
<1>4. ASSUME NEW d \in Calls, throws(d) \/ acquireDestinationLock(d)
      PROVE  FALSE
  BY <1>1, <1>4 DEF throws, acquireDestinationLock
<1>5. ASSUME UNCHANGED answer
      PROVE  FALSE
  BY <1>5
<1>6. ASSUME NEW d \in Calls, rename(d)
      PROVE  rename(c)
  BY <1>1, <1>6 DEF rename
<1> QED
  BY <1>2, <1>3, <1>4, <1>5, <1>6 DEF Next, Step, writeTypedSidecarAtomic,
     serializeDestination, statLock, writeTemporary, readCurrent, finally, edit, crash

\* No call that refreshes its digest from the source stores a document about a
\* source that was edited before the call got the lock.
THEOREM StoredIsFresh == Spec => FreshWhenLocked
<1>1. ASSUME IInv, [Next]_vars
      PROVE  [\A c \in Refreshing : answer'[c] = "ok" /\ answer[c] # "ok" =>
                                        destination'.source >= lockedAt[c]]_vars
  <2>1. ASSUME Next, NEW c \in Refreshing, answer'[c] = "ok", answer[c] # "ok"
        PROVE  destination'.source >= lockedAt[c]
    <3>0. c \in Calls
      BY CallsAssumption
    <3>1. rename(c)
      BY <1>1, <3>0, <2>1, OkIsRename
    <3>2. destination'.source = digest[c] /\ stage[c] = "renaming"
      BY <3>1 DEF rename, Document, Throw, Go
    <3>3. lockedAt[c] <= digest[c] /\ lockedAt[c] \in Nat /\ digest[c] \in Nat
      BY <1>1, <3>0, <3>2 DEF IInv, Fresh, TypeOK
    <3> QED
      BY <3>2, <3>3
  <2> QED
    BY <1>1, <2>1
<1> QED
  BY <1>1, IInvHolds, PTL DEF Spec, FreshWhenLocked

(***************************************************************************)
(* The refinement.  The instant of a call is its rename, or the step that    *)
(* decides that it comes too late or fails.                                 *)
(***************************************************************************)
Outcomes == [c \in Calls |-> Outcome(c)]

OutcomeOf(why) ==
    CASE why = "none" -> "open"
      [] why = "ok" -> "ok"
      [] why = "stale-sequence" -> "stale"
      [] OTHER -> "failed"

\* An answer of one call is the outcome of that call only.
LEMMA OutcomeStep ==
    ASSUME answer \in [Calls -> Answers], NEW c \in Calls, NEW why,
           answer' = [answer EXCEPT ![c] = why]
    PROVE  Outcomes' = [Outcomes EXCEPT ![c] = OutcomeOf(why)]
<1>1. \A d \in Calls : Outcome(d)' = IF d = c THEN OutcomeOf(why) ELSE Outcome(d)
  BY DEF Outcome, OutcomeOf
<1> QED
  BY <1>1 DEF Outcomes

\* A call that gives up changes nothing the contract sees but its outcome.
LEMMA CallGivesUp ==
    ASSUME IInv, NEW c \in Calls, answer[c] = "none", UNCHANGED destination,
           NEW why \in Answers \ {"none", "ok", "stale-sequence"},
           answer' = [answer EXCEPT ![c] = why]
    PROVE  Contract!Next
<1>1. Outcomes' = [Outcomes EXCEPT ![c] = "failed"]
  BY OutcomeStep DEF IInv, TypeOK, OutcomeOf
<1>2. Outcomes[c] = "open"
  BY DEF Outcomes, Outcome
<1> QED
  BY <1>1, <1>2 DEF Outcomes, Contract!Next, Contract!GiveUp

\* A call that comes too late is refused by what is there.
LEMMA CallIsRefused ==
    ASSUME IInv, NEW c \in Calls, answer[c] = "none", UNCHANGED destination,
           destination.kind = "document", Sequence[c] <= destination.sequence,
           answer' = [answer EXCEPT ![c] = "stale-sequence"]
    PROVE  Contract!Next
<1>1. Outcomes' = [Outcomes EXCEPT ![c] = "stale"]
  BY OutcomeStep DEF IInv, TypeOK, OutcomeOf
<1>2. Outcomes[c] = "open"
  BY DEF Outcomes, Outcome
<1>3. destination.sequence \in Nat /\ Sequence[c] \in Nat
  BY CallsAssumption DEF IInv, TypeOK, Destination
<1> QED
  BY <1>1, <1>2, <1>3 DEF Outcomes, Contract!Next, Contract!Refuse

\* The rename is the commit of the contract.
LEMMA CallCommits ==
    ASSUME IInv, NEW c \in Calls, rename(c)
    PROVE  Contract!Next
<1>1. /\ answer' = [answer EXCEPT ![c] = "ok"] /\ answer[c] = "none"
      /\ destination' = Document(Sequence[c], digest[c])
      /\ \/ destination.kind = "absent"
         \/ destination.kind = "document" /\ destination.sequence < Sequence[c]
  BY DEF rename, Throw, Go, IInv, NoAnswerYet, Found, Before, Holding
<1>2. Outcomes' = [Outcomes EXCEPT ![c] = "ok"]
  BY <1>1, OutcomeStep DEF IInv, TypeOK, OutcomeOf
<1>3. Outcomes[c] = "open"
  BY <1>1 DEF Outcomes, Outcome
<1> QED
  BY <1>1, <1>2, <1>3 DEF Outcomes, Document, Contract!Next, Contract!Commit

\* Every step is one of the contract or changes nothing it sees.
LEMMA ContractStep ==
    ASSUME IInv, Next
    PROVE  Contract!Next \/ UNCHANGED Contract!vars
<1> USE DEF Go, Throw
<1>1. /\ stage \in [Calls -> Stages] /\ destination \in Destination
      /\ current \in [Calls -> Destination] /\ source \in Nat /\ digest \in [Calls -> Nat]
  BY DEF IInv, TypeOK
<1>2. ASSUME UNCHANGED <<destination, answer>>
      PROVE  UNCHANGED Contract!vars
  BY <1>2 DEF Contract!vars, Outcome
<1>3. ASSUME NEW c \in Calls, readInitial(c) \/ decide(c), ~UNCHANGED answer
      PROVE  Contract!Next
  <2>1. UNCHANGED destination /\ answer[c] = "none"
    BY <1>3 DEF files, readInitial, decide, IInv, NoAnswerYet, Before, Holding
  <2>2. PICK why : answer' = [answer EXCEPT ![c] = why]
          /\ why \in {"TS006", "source-mismatch",
                      replacementAgainst(destination, c, digest[c]),
                      replacementAgainst(destination, c, commitSourceDigest(c))}
          /\ why # "allow"
    <3>1. CASE readInitial(c)
      BY <1>3, <3>1 DEF readInitial
    <3>2. CASE decide(c)
      <4>1. current[c] = destination
        BY <3>2 DEF decide, IInv, Found
      <4> QED
        BY <1>3, <3>2, <4>1 DEF decide, unreadable
    <3> QED
      BY <1>3, <3>1, <3>2
  <2>3. why \in Answers \ {"none", "ok"}
    BY <1>1, <2>2, CommittedDigest, Decision DEF Answers, IInv
  <2>4. CASE why = "stale-sequence"
    <3>1. destination.kind = "document" /\ Sequence[c] <= destination.sequence
      BY <1>1, <2>2, <2>4, CommittedDigest, Decision DEF IInv
    <3> QED
      BY <2>1, <2>2, <2>4, <3>1, CallIsRefused
  <2>5. CASE why # "stale-sequence"
    BY <2>1, <2>2, <2>3, <2>5, CallGivesUp
  <2> QED
    BY <2>4, <2>5
<1>4. ASSUME NEW c \in Calls, throws(c)
      PROVE  Contract!Next
  <2>1. /\ UNCHANGED destination /\ answer' = [answer EXCEPT ![c] = "TS006"]
        /\ answer[c] = "none"
    BY <1>4 DEF throws, files, IInv, NoAnswerYet, Before, Holding
  <2> QED
    BY <2>1, CallGivesUp DEF Answers
<1>5. ASSUME NEW c \in Calls, acquireDestinationLock(c), ~UNCHANGED answer
      PROVE  Contract!Next
  <2>1. /\ UNCHANGED destination /\ answer' = [answer EXCEPT ![c] = "TS006"]
        /\ answer[c] = "none"
    BY <1>5 DEF acquireDestinationLock, IInv, NoAnswerYet, Before, Holding
  <2> QED
    BY <2>1, CallGivesUp DEF Answers
<1> QED
  BY <1>2, <1>3, <1>4, <1>5, CallCommits DEF Next, Step, files, writeTypedSidecarAtomic,
     serializeDestination, statLock, writeTemporary, readCurrent, readInitial, decide,
     acquireDestinationLock, finally, edit, crash

\* The writers implement the contract: an atomic register whose generation
\* only grows, whose calls take effect at one instant or not at all.
THEOREM ContractHolds == Spec => ImplementsContract
<1>1. Init => Contract!Init
  BY DEF Init, Contract!Init, Outcome, Document, NoDocument
<1>2. IInv /\ [Next]_vars => [Contract!Next]_Contract!vars
  <2>1. ASSUME UNCHANGED vars
        PROVE  UNCHANGED Contract!vars
    BY <2>1 DEF vars, files, Contract!vars, Outcome
  <2> QED
    BY <2>1, ContractStep
<1> QED
  BY <1>1, <1>2, IInvHolds, PTL DEF Spec, ImplementsContract, Contract!Spec
=============================================================================
