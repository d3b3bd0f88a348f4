-------------------- MODULE OrchestratorRefinementProofs --------------------
(***************************************************************************)
(* To an owner who never has two clicks on one request in progress, the    *)
(* orchestrator implements Lifecycle, for any number of requests and       *)
(* threads, with every fault and restart. On the way: how revisions are    *)
(* numbered, that a link takes effect once, that a revision builds on the  *)
(* one before it, and that every document was offered.                     *)
(***************************************************************************)
EXTENDS OrchestratorSerialProofs, OrchestratorDrivenProofs, Integers

\* A thread has added a revision to r and not yet saved its number.
AtGenerated(r) == \E t \in Threads : th[t].pc = "generated" /\ On(t) = r

\* The record's number is that of the last revision, but for such a thread.
Count(r) ==
    \/ /\ ~AtGenerated(r)
       /\ Len(revisions[r]) = requests[r].current_revision
    \/ /\ AtGenerated(r)
       /\ Len(revisions[r]) = requests[r].current_revision + 1

\* A request that ingest works on has no intent and no document.
Blank(r) ==
    requests[r].state \in IngestStates \cup {"absent"} =>
        requests[r].intent = "none" /\ requests[r].current_revision = 0

FilesOf(r, no, i, at) ==
    [request_id |-> r, revision_no |-> no, intent |-> i, at |-> at]

Versioned(r) ==
    \A i \in DOMAIN revisions[r] :
        /\ revisions[r][i].revision_no = i
        /\ FilesOf(r, i, revisions[r][i].intent, revisions[r][i].at)
              \in artifacts

\* The files of the document that a thread is about to add are its own.
FilesReady(t) ==
    th[t].pc = "add" => Files(t) \in artifacts

LEMMA FilesOfThread ==
    ASSUME NEW t \in Threads
    PROVE  Files(t) = FilesOf(On(t), NextRevision(t), th[t].rec.intent, th[t].at)
BY DEF Files, FilesOf

RInv ==
    /\ SInv
    /\ \A r \in Requests : Count(r) /\ Blank(r) /\ Versioned(r)
    /\ \A t \in Threads : FilesReady(t)

-----------------------------------------------------------------------------
(* The abstract request. *)

HandedCount(r) ==
    IF requests[r].state = "rendering"
    THEN requests[r].current_revision - 1
    ELSE requests[r].current_revision

\* A step of Lifecycle on r, or none, in the terms of the orchestrator.
PromisedStep(r) ==
    \/ /\ PhaseOf(r)' = PhaseOf(r)
       /\ requests'[r].intent = requests[r].intent
       /\ Handed(r)' = Handed(r)
    \/ /\ \/ PhaseOf(r) = "unknown" /\ PhaseOf(r)' = "reading"
          \/ PhaseOf(r) = "reading" /\ PhaseOf(r)' = "over"
          \/ PhaseOf(r) \in {"question", "review"} /\ PhaseOf(r)' = "writing"
          \/ PhaseOf(r) \in {"question", "review", "writing"} /\ PhaseOf(r)' = "over"
       /\ requests'[r].intent = requests[r].intent
       /\ Handed(r)' = Handed(r)
    \/ /\ PhaseOf(r) \in {"reading", "question"} /\ PhaseOf(r)' = "question"
       /\ requests'[r].intent \in Actionable
       /\ Handed(r)' = Handed(r)
    \/ /\ PhaseOf(r) = "writing" /\ PhaseOf(r)' = "review"
       /\ requests'[r].intent = requests[r].intent
       /\ Handed(r)' = Append(Handed(r), requests[r].intent)

\* A step that touches one request maps to a step of Lifecycle or a stutter.
LEMMA StepIsPromised ==
    ASSUME NEW r \in Requests, PromisedStep(r),
           \A q \in Requests : q # r => /\ requests'[q] = requests[q]
                                        /\ revisions'[q] = revisions[q]
    PROVE  [Promise!Next]_(Promise!vars)
<1> DEFINE P == [q \in Requests |-> PhaseOf(q)]
           I == [q \in Requests |-> requests[q].intent]
           D == [q \in Requests |-> Handed(q)]
<1>1. \A q \in Requests : q # r => /\ PhaseOf(q)' = PhaseOf(q)
                                   /\ Handed(q)' = Handed(q)
  BY DEF PhaseOf, Handed
<1>2. /\ P' = [P EXCEPT ![r] = PhaseOf(r)']
      /\ I' = [I EXCEPT ![r] = requests'[r].intent]
      /\ D' = [D EXCEPT ![r] = Handed(r)']
  BY <1>1
<1>3. P[r] = PhaseOf(r) /\ I[r] = requests[r].intent /\ D[r] = Handed(r)
  OBVIOUS
<1>4. /\ PhaseOf(r)' = PhaseOf(r) => P' = P
      /\ requests'[r].intent = requests[r].intent => I' = I
      /\ Handed(r)' = Handed(r) => D' = D
  BY <1>1
<1> HIDE DEF P, I, D
<1>5. CASE /\ PhaseOf(r)' = PhaseOf(r)
           /\ requests'[r].intent = requests[r].intent
           /\ Handed(r)' = Handed(r)
  BY <1>4, <1>5 DEF P, I, D, Promise!vars
<1>6. CASE /\ \/ PhaseOf(r) = "unknown" /\ PhaseOf(r)' = "reading"
              \/ PhaseOf(r) = "reading" /\ PhaseOf(r)' = "over"
              \/ PhaseOf(r) \in {"question", "review"} /\ PhaseOf(r)' = "writing"
              \/ /\ PhaseOf(r) \in {"question", "review", "writing"}
                 /\ PhaseOf(r)' = "over"
           /\ requests'[r].intent = requests[r].intent
           /\ Handed(r)' = Handed(r)
  <2>1. P' = [P EXCEPT ![r] = PhaseOf(r)'] /\ I' = I /\ D' = D
    BY <1>2, <1>4, <1>6
  <2>2. Promise!Start(r) \/ Promise!Dismiss(r) \/ Promise!Commission(r)
        \/ Promise!End(r)
    BY <1>3, <1>6, <2>1
       DEF P, I, D, Promise!Start, Promise!Dismiss, Promise!Commission,
           Promise!End, Promise!Move
  <2> QED
    BY <2>2 DEF Promise!Next
<1>7. CASE /\ PhaseOf(r) \in {"reading", "question"} /\ PhaseOf(r)' = "question"
           /\ requests'[r].intent \in Actionable
           /\ Handed(r)' = Handed(r)
  <2>1. I' = [I EXCEPT ![r] = requests'[r].intent] /\ D' = D
    BY <1>2, <1>4, <1>7
  <2> DEFINE i == requests'[r].intent
  <2>4. i \in Promise!Actionable
    BY <1>7 DEF Promise!Actionable, Promise!Intent, Actionable, Intent
  <2>2. CASE PhaseOf(r) = "reading"
    <3>1. P[r] = "reading" /\ P' = [P EXCEPT ![r] = "question"]
      BY <1>2, <1>3, <1>7, <2>2
    <3>2. Promise!Ask(r)
      BY <2>1, <2>4, <3>1 DEF P, I, D, Promise!Ask, Promise!Move
    <3> QED
      BY <3>2 DEF Promise!Next
  <2>3. CASE PhaseOf(r) = "question"
    <3>1. P[r] = "question" /\ P' = P
      BY <1>3, <1>4, <1>7, <2>3
    <3>2. Promise!Correct(r)
      BY <2>1, <2>4, <3>1 DEF P, I, D, Promise!Correct
    <3> QED
      BY <3>2 DEF Promise!Next
  <2> QED
    BY <1>7, <2>2, <2>3
<1>8. CASE /\ PhaseOf(r) = "writing" /\ PhaseOf(r)' = "review"
           /\ requests'[r].intent = requests[r].intent
           /\ Handed(r)' = Append(Handed(r), requests[r].intent)
  <2>1. Promise!Deliver(r)
    BY <1>2, <1>3, <1>4, <1>8 DEF P, I, D, Promise!Deliver, Promise!Move
  <2> QED
    BY <2>1 DEF Promise!Next
<1> QED
  BY <1>5, <1>6, <1>7, <1>8 DEF PromisedStep

LEMMA HandedKept ==
    ASSUME NEW r \in Requests, HandedCount(r)' = HandedCount(r),
           \A i \in 1 .. HandedCount(r) : revisions'[r][i] = revisions[r][i]
    PROVE  Handed(r)' = Handed(r)
BY DEF Handed, HandedCount

LEMMA HandedGrows ==
    ASSUME TypeOK, NEW r \in Requests, revisions'[r] = revisions[r],
           HandedCount(r)' = HandedCount(r) + 1,
           HandedCount(r) + 1 = Len(revisions[r]), HandedCount(r) \in Nat
    PROVE  Handed(r)' =
               Append(Handed(r), revisions[r][Len(revisions[r])].intent)
<1> DEFINE n == HandedCount(r)
           s == [i \in 1 .. n |-> revisions[r][i].intent]
<1>1. revisions[r] \in Seq(Revision) /\ n \in Nat
  BY DEF TypeOK
<1>2. /\ Handed(r) = s
      /\ Handed(r)' = [i \in 1 .. n + 1 |-> revisions[r][i].intent]
  BY DEF Handed, HandedCount
<1> HIDE DEF n
<1>3. \A i \in 1 .. n : revisions[r][i].intent \in Intent
  <2>1. Len(revisions[r]) = n + 1
    BY <1>1 DEF n
  <2>2. \A i \in 1 .. n : revisions[r][i] \in Revision
    BY <1>1, <2>1
  <2> QED
    BY <2>2 DEF Revision
<1>4. s \in Seq(Intent) /\ Len(s) = n
  BY <1>1, <1>3
<1>5. Append(s, revisions[r][n + 1].intent)
        = [i \in 1 .. n + 1 |-> revisions[r][i].intent]
  BY <1>1, <1>4
<1>6. n + 1 = Len(revisions[r])
  BY DEF n
<1> QED
  BY <1>2, <1>5, <1>6

-----------------------------------------------------------------------------
(* The steps of a thread. *)

\* What a step of t shows about the requests and the other threads.
LEMMA OthersRest ==
    ASSUME SInv, NEW t \in Threads, ThreadStep(t), NEW r, r = On(t)
    PROVE  /\ AtGenerated(r) <=> th[t].pc = "generated"
           /\ AtGenerated(r)' <=> th'[t].pc = "generated"
           /\ \A q \in Requests : q # r =>
                 /\ AtGenerated(q)' <=> AtGenerated(q)
                 /\ requests'[q] = requests[q]
           /\ \A u \in Threads : u # t => th'[u] = th[u]
           /\ \A u \in Threads : u # t /\ th[u].pc # "idle" => On(u) # r
<1>1. th[t].pc # "idle" /\ MovesAlongEdge(t)
  BY StepFacts, SerialThreadStep DEF SInv
<1>2. \A u \in Threads : u # t /\ th[u].pc # "idle" => On(u) # r
  BY <1>1 DEF SInv, OneClickAtATime
<1>3. /\ \A u \in Threads : u # t => th'[u] = th[u] /\ On(u)' = On(u)
      /\ th'[t].pc # "idle" => On(t)' = r
      /\ \A q \in Requests : q # r => requests'[q] = requests[q]
  BY <1>1 DEF MovesAlongEdge, On
<1>4. AtGenerated(r) <=> th[t].pc = "generated"
  BY <1>2 DEF AtGenerated
<1>5. AtGenerated(r)' <=> th'[t].pc = "generated"
  BY <1>2, <1>3 DEF AtGenerated
<1>6. ASSUME NEW q \in Requests, q # r
      PROVE  AtGenerated(q)' <=> AtGenerated(q)
  BY <1>3, <1>6 DEF AtGenerated
<1> QED
  BY <1>2, <1>3, <1>4, <1>5, <1>6

\* What is to be shown of a step of t.
LEMMA ThreadRefines ==
    ASSUME RInv, SInv', NEW t \in Threads, ThreadStep(t), NEW r, r = On(t),
           \A q \in Requests : q # r => revisions'[q] = revisions[q],
           \/ /\ th'[t].pc = "generated"
              /\ Len(revisions'[r]) = requests'[r].current_revision + 1
           \/ /\ th'[t].pc # "generated"
              /\ Len(revisions'[r]) = requests'[r].current_revision,
           Blank(r)', \A q \in Requests : Versioned(q)',
           \A u \in Threads : FilesReady(u)',
           PromisedStep(r)
    PROVE  RInv' /\ [Promise!Next]_(Promise!vars)
<1>1. /\ AtGenerated(r)' <=> th'[t].pc = "generated"
      /\ \A q \in Requests : q # r =>
            (AtGenerated(q)' <=> AtGenerated(q)) /\ requests'[q] = requests[q]
      /\ r \in Requests
  BY OthersRest, StepFacts DEF RInv, SInv
<1>2. \A q \in Requests : Count(q)' /\ Blank(q)'
  BY <1>1 DEF RInv, Count, Blank
<1>3. [Promise!Next]_(Promise!vars)
  BY <1>1, StepIsPromised
<1> QED
  BY <1>2, <1>3 DEF RInv

\* The thread that steps: its copy is the record, and the revisions are counted.
LEMMA ThreadCounts ==
    ASSUME RInv, NEW t \in Threads, ThreadStep(t), NEW r, r = On(t)
    PROVE  /\ r \in Requests /\ th[t].rec = requests[r] /\ TypeOK
           /\ requests[r] \in Record /\ requests[r].current_revision \in Nat
           /\ revisions[r] \in Seq(Revision)
           /\ Versioned(r) /\ ThreadSound(t) /\ th[t] \in Handler
           /\ requests[r].state \notin IngestStates \cup {"absent"}
                \/ Blank(r)
           /\ Len(revisions[r]) =
                 IF th[t].pc = "generated" THEN requests[r].current_revision + 1
                                           ELSE requests[r].current_revision
<1>1. /\ r \in Requests /\ th[t].rec = requests[r] /\ TypeOK
      /\ ThreadSound(t) /\ th[t] \in Handler /\ th[t].pc # "idle"
  BY StepFacts DEF RInv, SInv, CopyIsFresh
<1>2. /\ requests[r] \in Record /\ requests[r].current_revision \in Nat
      /\ revisions[r] \in Seq(Revision)
  BY <1>1 DEF TypeOK, Record
<1>3. AtGenerated(r) <=> th[t].pc = "generated"
  BY OthersRest DEF RInv
<1>4. Count(r) /\ Versioned(r) /\ Blank(r)
  BY <1>1 DEF RInv
<1> QED
  BY <1>1, <1>2, <1>3, <1>4 DEF Count

\* No thread but t can be about to add, and the files of the others stay.
LEMMA FilesReadyKept ==
    ASSUME RInv, NEW t \in Threads, ThreadStep(t), artifacts' = artifacts,
           th'[t].pc # "add"
    PROVE  \A u \in Threads : FilesReady(u)'
<1>1. \A u \in Threads : u # t => th'[u] = th[u]
  BY OthersRest DEF RInv
<1> QED
  BY <1>1 DEF RInv, FilesReady, Files, NextRevision, On

LEMMA QuietRefines ==
    ASSUME RInv, SInv', NEW t \in Threads, ThreadStep(t),
           \/ CheckInteraction(t) \/ RecordInteraction(t) \/ RefuseDecision(t)
           \/ Generate(t) \/ Renotify(t) \/ Deliver(t)
    PROVE  RInv' /\ [Promise!Next]_(Promise!vars)
<1>0. PICK r \in Requests : r = On(t)
  BY ThreadCounts
<1>1. UNCHANGED <<requests, revisions, artifacts>> /\ th[t].pc # "generated"
  BY DEF CheckInteraction, RecordInteraction, RefuseDecision, Generate,
         Renotify, Deliver
<1>2. th'[t].pc \notin {"generated", "add"}
  BY ThreadCounts
     DEF CheckInteraction, RecordInteraction, RefuseDecision, Generate,
         Renotify, Deliver, Goto, Return, TypeOK, Handler, Idle,
         GenerateOutcome
<1>3. PromisedStep(r)
  BY <1>0, <1>1 DEF PromisedStep, PhaseOf, Handed
<1>4. Blank(r)' /\ \A q \in Requests : Versioned(q)'
  BY <1>0, <1>1, ThreadCounts DEF RInv, Blank, Versioned, FilesOf
<1>5. Len(revisions'[r]) = requests'[r].current_revision
  BY <1>0, <1>1, ThreadCounts
<1>6. \A u \in Threads : FilesReady(u)'
  BY <1>0, <1>1, <1>2, FilesReadyKept
<1> QED
  BY <1>0, <1>1, <1>2, <1>3, <1>4, <1>5, <1>6, ThreadRefines

\* Storing files, successfully or not, touches no revision that exists and no
\* document of another thread.
LEMMA StoreRefines ==
    ASSUME RInv, SInv', NEW t \in Threads, ThreadStep(t),
           StoreArtifacts(t) \/ StoreRaises(t)
    PROVE  RInv' /\ [Promise!Next]_(Promise!vars)
<1>0. PICK r \in Requests : r = On(t)
  BY ThreadCounts
<1>1. UNCHANGED <<requests, revisions>> /\ th[t].pc = "put"
  BY DEF StoreArtifacts, StoreRaises
<1>2. /\ OtherFiles(t) \subseteq artifacts'
      /\ Goto(t, "add") => Files(t) \in artifacts'
      /\ Goto(t, "add") \/ Return(t)
  <2>1. CASE StoreArtifacts(t)
    BY <2>1 DEF StoreArtifacts
  <2>2. CASE StoreRaises(t)
    <3>1. OtherFiles(t) \subseteq artifacts' /\ Return(t)
      BY <2>2 DEF StoreRaises, OtherFiles
    <3>2. ~Goto(t, "add")
      BY <3>1, ThreadCounts DEF Goto, Return, Idle, TypeOK, Handler
    <3> QED
      BY <3>1, <3>2
  <2> QED
    BY <2>1, <2>2
<1>3. /\ th'[t].pc \in {"add", "idle"}
      /\ th'[t].pc = "add" => /\ Goto(t, "add") /\ On(t)' = On(t)
                              /\ th'[t].rec = th[t].rec /\ th'[t].at = th[t].at
  <2>1. TypeOK /\ t \in Threads /\ th[t] \in Handler
    BY ThreadCounts
  <2>2. CASE Goto(t, "add")
    <3>1. th'[t] = [th[t] EXCEPT !.pc = "add"]
      BY <2>1, <2>2 DEF Goto, TypeOK
    <3>2. /\ th'[t].pc = "add" /\ th'[t].link = th[t].link
          /\ th'[t].rec = th[t].rec /\ th'[t].at = th[t].at
      BY <2>1, <3>1 DEF Handler
    <3> QED
      BY <2>2, <3>2 DEF On
  <2>3. CASE Return(t)
    BY <2>1, <2>3 DEF Return, Idle, TypeOK
  <2> QED
    BY <1>2, <2>2, <2>3
<1>4. \A u \in Threads : u # t =>
         th'[u] = th[u] /\ (th[u].pc # "idle" => On(u) # r)
  BY <1>0, OthersRest DEF RInv
<1>5. \A q \in Requests : \A no, i, at :
         FilesOf(q, no, i, at) \in artifacts /\ (q # r \/ no # NextRevision(t)) =>
             FilesOf(q, no, i, at) \in artifacts'
  BY <1>0, <1>2 DEF FilesOf, OtherFiles, Files
<1>6. ASSUME NEW u \in Threads PROVE FilesReady(u)'
  <2>1. CASE u = t
    BY <1>2, <1>3, <2>1 DEF FilesReady, Files, NextRevision
  <2>2. CASE u # t
    <3> SUFFICES ASSUME th'[u].pc = "add" PROVE FilesReady(u)'
      BY DEF FilesReady
    <3>1. /\ th'[u] = th[u] /\ On(u) # r /\ On(u) \in Requests
          /\ Files(u) \in artifacts
      BY <1>0, <1>4, <2>2, BusyIsHandler
         DEF RInv, SInv, IInv, FilesReady, Handler, Link, On
    <3>2. Files(u) \in artifacts'
      BY <1>5, <3>1, FilesOfThread
    <3> QED
      BY <3>1, <3>2 DEF FilesReady, Files, NextRevision, On
  <2> QED
    BY <2>1, <2>2
<1>7. ASSUME NEW q \in Requests PROVE Versioned(q)'
  <2>1. Versioned(q) /\ revisions'[q] = revisions[q]
    BY <1>1 DEF RInv
  <2>2. \A i \in DOMAIN revisions[q] : q # r \/ i # NextRevision(t)
    BY <1>0, <1>1, ThreadCounts DEF NextRevision
  <2> QED
    BY <1>5, <2>1, <2>2 DEF Versioned, FilesOf
<1>8. PromisedStep(r)
  BY <1>1 DEF PromisedStep, PhaseOf, Handed
<1>9. Blank(r)'
  BY <1>0, <1>1, ThreadCounts DEF RInv, Blank
<1>10. Len(revisions'[r]) = requests'[r].current_revision
  BY <1>0, <1>1, ThreadCounts
<1> QED
  BY <1>0, <1>1, <1>3, <1>6, <1>7, <1>8, <1>9, <1>10, ThreadRefines

LEMMA AddRefines ==
    ASSUME RInv, SInv', NEW t \in Threads, ThreadStep(t), AddRevision(t)
    PROVE  RInv' /\ [Promise!Next]_(Promise!vars)
<1>0. PICK r \in Requests : r = On(t)
  BY ThreadCounts
<1> DEFINE rv == [revision_no |-> NextRevision(t), at |-> th[t].at,
                  intent |-> th[t].rec.intent, basis |-> th[t].basis]
<1>1. /\ UNCHANGED <<requests, artifacts>> /\ th[t].pc = "add"
      /\ revisions' = [revisions EXCEPT ![r] = Append(revisions[r], rv)]
      /\ Goto(t, "generated")
  BY <1>0 DEF AddRevision
<1>2. /\ r \in Requests /\ th[t].rec = requests[r] /\ TypeOK
      /\ revisions[r] \in Seq(Revision) /\ requests[r].current_revision \in Nat
      /\ Len(revisions[r]) = requests[r].current_revision
      /\ th[t] \in Handler /\ Blank(r) /\ Versioned(r)
      /\ ThreadSound(t)
  BY <1>0, <1>1, ThreadCounts DEF RInv
<1>3. th'[t].pc = "generated"
  BY <1>0, <1>1, <1>2 DEF Goto, TypeOK, Handler
<1>4. /\ rv.revision_no = Len(revisions[r]) + 1 /\ rv.at = th[t].at
      /\ FilesOf(r, rv.revision_no, rv.intent, rv.at) \in artifacts
  BY <1>0, <1>1, <1>2, FilesOfThread DEF RInv, FilesReady, NextRevision
<1>5. rv \in Revision
  BY <1>0, <1>2 DEF NextRevision, Record, Handler, Revision
<1> HIDE DEF rv
<1>6. /\ revisions'[r] = Append(revisions[r], rv)
      /\ \A q \in Requests : q # r => revisions'[q] = revisions[q]
  BY <1>0, <1>1, <1>2 DEF TypeOK
<1>7. /\ Len(revisions'[r]) = Len(revisions[r]) + 1
      /\ DOMAIN revisions'[r] = 1 .. Len(revisions[r]) + 1
      /\ revisions'[r][Len(revisions[r]) + 1] = rv
      /\ \A i \in 1 .. Len(revisions[r]) : revisions'[r][i] = revisions[r][i]
  BY <1>0, <1>2, <1>5, <1>6
<1>8. ASSUME NEW q \in Requests PROVE Versioned(q)'
  <2>1. CASE q # r
    BY <1>0, <1>1, <1>6, <2>1 DEF RInv, Versioned, FilesOf
  <2>2. CASE q = r
    <3> SUFFICES ASSUME NEW i \in DOMAIN revisions'[r]
                 PROVE  /\ revisions'[r][i].revision_no = i
                        /\ FilesOf(r, i, revisions'[r][i].intent,
                                   revisions'[r][i].at) \in artifacts
      BY <1>0, <1>1, <2>2 DEF Versioned, FilesOf
    <3>1. CASE i = Len(revisions[r]) + 1
      BY <1>0, <1>4, <1>7, <3>1
    <3>2. CASE i \in 1 .. Len(revisions[r])
      BY <1>0, <1>2, <1>7, <3>2 DEF Versioned
    <3> QED
      BY <1>0, <1>2, <1>7, <3>1, <3>2
  <2> QED
    BY <2>1, <2>2
<1>9. PromisedStep(r)
  <2>1. requests[r].state = "generating"
    BY <1>0, <1>1, <1>2 DEF ThreadSound
  <2>2. HandedCount(r)' = HandedCount(r) /\ HandedCount(r) = Len(revisions[r])
    BY <1>0, <1>1, <1>2, <2>1 DEF HandedCount
  <2>3. Handed(r)' = Handed(r)
    BY <1>0, <1>2, <1>7, <2>2, HandedKept
  <2> QED
    BY <1>0, <1>1, <2>3 DEF PromisedStep, PhaseOf
<1>10. Blank(r)'
  BY <1>0, <1>1, <1>2 DEF Blank
<1>11. \A u \in Threads : FilesReady(u)'
  BY <1>0, <1>1, <1>3, FilesReadyKept
<1> QED
  BY <1>0, <1>1, <1>2, <1>3, <1>6, <1>7, <1>8, <1>9, <1>10, <1>11, ThreadRefines

\* A step of t that saves its record.
LEMMA SaveRefines ==
    ASSUME RInv, SInv', NEW t \in Threads, ThreadStep(t),
           NEW r \in Requests, r = On(t), UNCHANGED <<revisions, artifacts>>,
           th'[t].pc \notin {"generated", "add"},
           Len(revisions[r]) = requests'[r].current_revision,
           requests'[r].state \notin IngestStates \cup {"absent"},
           PromisedStep(r)
    PROVE  RInv' /\ [Promise!Next]_(Promise!vars)
<1>1. /\ Blank(r)'
      /\ \A q \in Requests : Versioned(q)'
  BY DEF RInv, Blank, Versioned, FilesOf
<1>2. \A u \in Threads : FilesReady(u)'
  BY FilesReadyKept
<1> QED
  BY <1>1, <1>2, ThreadRefines

LEMMA ApplyRefines ==
    ASSUME RInv, SInv', NEW t \in Threads, ThreadStep(t), ApplyDecision(t)
    PROVE  RInv' /\ [Promise!Next]_(Promise!vars)
<1>0. PICK r \in Requests : r = On(t)
  BY ThreadCounts
<1> DEFINE d == th[t].link.decision
<1>1. /\ th[t].rec = requests[r] /\ requests[r] \in Record /\ TypeOK
      /\ th[t] \in Handler /\ d \in OwnerDecision /\ th[t].pc = "apply"
      /\ Len(revisions[r]) = requests[r].current_revision
  BY <1>0, ThreadCounts DEF ApplyDecision, Handler, Link
<1>2. PICK n \in RequestState :
         /\ <<requests[r].state, trigger_for[d], n>> \in TRANSITIONS
         /\ Save(r, [requests[r] EXCEPT !.state = n])
         /\ IF Continuation[d] = "return"
            THEN Return(t)
            ELSE th' = [th EXCEPT ![t].rec.state = n, ![t].pc = Continuation[d]]
  BY <1>0, <1>1 DEF ApplyDecision
<1>3. UNCHANGED <<revisions, artifacts>>
  BY DEF ApplyDecision
<1>4. /\ requests'[r].state = n
      /\ requests'[r].intent = requests[r].intent
      /\ requests'[r].current_revision = requests[r].current_revision
  BY <1>1, <1>2 DEF Save, TypeOK, Record
<1>5. th'[t].pc \in {"idle", "generate", "correct"}
  <2>1. CASE Continuation[d] = "return"
    BY <1>1, <1>2, <2>1 DEF Return, TypeOK, Idle
  <2>2. CASE Continuation[d] # "return"
    <3>1. th'[t].pc = Continuation[d]
      BY <1>1, <1>2, <2>2 DEF TypeOK, Handler
    <3>2. Continuation[d] \in {"generate", "correct"}
      BY <1>1, <2>2 DEF Continuation, OwnerDecision
    <3> QED
      BY <3>1, <3>2
  <2> QED
    BY <2>1, <2>2
<1>6. \/ requests[r].state = "awaiting_classification" /\ n = "generating"
      \/ /\ requests[r].state = "awaiting_classification"
         /\ n = "awaiting_classification"
      \/ requests[r].state = "awaiting_classification" /\ n = "discarded"
      \/ requests[r].state = "awaiting_approval" /\ n = "completed"
      \/ requests[r].state = "awaiting_approval" /\ n = "generating"
  <2> HIDE DEF d
  <2> QED
    BY <1>1, <1>2, DecisionEdges
<1>7. Handed(r)' = Handed(r)
  <2>1. HandedCount(r)' = HandedCount(r)
    BY <1>4, <1>6 DEF HandedCount
  <2> QED
    BY <1>3, <2>1, HandedKept
<1>8. PromisedStep(r)
  BY <1>4, <1>6, <1>7
     DEF PromisedStep, PhaseOf, IngestStates, TERMINAL_STATES
<1>9. requests'[r].state \notin IngestStates \cup {"absent"}
  BY <1>4, <1>6 DEF IngestStates
<1> QED
  BY <1>0, <1>1, <1>3, <1>4, <1>5, <1>8, <1>9, SaveRefines

LEMMA CorrectRefines ==
    ASSUME RInv, SInv', NEW t \in Threads, ThreadStep(t), CorrectIntent(t)
    PROVE  RInv' /\ [Promise!Next]_(Promise!vars)
<1>0. PICK r \in Requests : r = On(t)
  BY ThreadCounts
<1> DEFINE rec == [requests[r] EXCEPT !.intent = th[t].link.intent]
<1>1. /\ th[t].rec = requests[r] /\ requests[r] \in Record /\ TypeOK
      /\ th[t] \in Handler /\ th[t].pc = "correct" /\ ThreadSound(t)
      /\ Len(revisions[r]) = requests[r].current_revision
  BY <1>0, ThreadCounts DEF CorrectIntent
<1>2. /\ Save(r, rec) /\ UNCHANGED <<revisions, artifacts>>
      /\ th' = [th EXCEPT ![t].rec = rec, ![t].pc = "renotify"]
  BY <1>0, <1>1 DEF CorrectIntent
<1>3. /\ requests'[r].state = requests[r].state
      /\ requests'[r].intent = th[t].link.intent
      /\ requests'[r].current_revision = requests[r].current_revision
  BY <1>1, <1>2 DEF Save, TypeOK, Record
<1> HIDE DEF rec
<1>4. th'[t].pc = "renotify"
  BY <1>1, <1>2 DEF TypeOK, Handler
<1>5. /\ requests[r].state = "awaiting_classification"
      /\ th[t].link.intent \in Actionable
  BY <1>1 DEF ThreadSound, LinkSound
<1>6. Handed(r)' = Handed(r)
  <2>1. HandedCount(r)' = HandedCount(r)
    BY <1>3 DEF HandedCount
  <2> QED
    BY <1>2, <2>1, HandedKept
<1>7. PromisedStep(r)
  BY <1>3, <1>5, <1>6 DEF PromisedStep, PhaseOf, IngestStates, TERMINAL_STATES
<1>8. requests'[r].state \notin IngestStates \cup {"absent"}
  BY <1>3, <1>5 DEF IngestStates
<1> QED
  BY <1>0, <1>1, <1>2, <1>3, <1>4, <1>7, <1>8, SaveRefines

LEMMA FailRefines ==
    ASSUME RInv, SInv', NEW t \in Threads, ThreadStep(t), Fail(t)
    PROVE  RInv' /\ [Promise!Next]_(Promise!vars)
<1>0. PICK r \in Requests : r = On(t)
  BY ThreadCounts
<1>1. /\ th[t].rec = requests[r] /\ requests[r] \in Record /\ TypeOK
      /\ th[t].pc = "fail" /\ ThreadSound(t)
      /\ Len(revisions[r]) = requests[r].current_revision
  BY <1>0, ThreadCounts DEF Fail
<1>2. /\ Save(r, [requests[r] EXCEPT !.state = "failed"])
      /\ UNCHANGED <<revisions, artifacts>> /\ Return(t)
  BY <1>0, <1>1 DEF Fail
<1>3. /\ requests'[r].state = "failed"
      /\ requests'[r].intent = requests[r].intent
      /\ requests'[r].current_revision = requests[r].current_revision
  BY <1>1, <1>2 DEF Save, TypeOK, Record
<1>4. th'[t].pc = "idle"
  BY <1>1, <1>2 DEF Return, TypeOK, Idle
<1>5. requests[r].state = "generating"
  BY <1>1 DEF ThreadSound
<1>6. Handed(r)' = Handed(r)
  <2>1. HandedCount(r)' = HandedCount(r)
    BY <1>3, <1>5 DEF HandedCount
  <2> QED
    BY <1>2, <2>1, HandedKept
<1>7. PromisedStep(r)
  BY <1>3, <1>5, <1>6 DEF PromisedStep, PhaseOf, IngestStates, TERMINAL_STATES
<1>8. requests'[r].state \notin IngestStates \cup {"absent"}
  BY <1>3 DEF IngestStates
<1> QED
  BY <1>0, <1>1, <1>2, <1>3, <1>4, <1>7, <1>8, SaveRefines

LEMMA GeneratedRefines ==
    ASSUME RInv, SInv', NEW t \in Threads, ThreadStep(t), Generated(t)
    PROVE  RInv' /\ [Promise!Next]_(Promise!vars)
<1>0. PICK r \in Requests : r = On(t)
  BY ThreadCounts
<1> DEFINE old == [requests[r] EXCEPT !.current_revision = @ + 1]
<1>1. /\ th[t].rec = requests[r] /\ requests[r] \in Record /\ TypeOK
      /\ th[t] \in Handler /\ th[t].pc = "generated" /\ ThreadSound(t)
      /\ requests[r].current_revision \in Nat
      /\ Len(revisions[r]) = requests[r].current_revision + 1
  BY <1>0, ThreadCounts DEF Generated
<1>2. /\ old \in Record /\ old.state = requests[r].state
      /\ old.intent = requests[r].intent
      /\ old.current_revision = requests[r].current_revision + 1
  BY <1>1 DEF Record
<1>3. /\ ThreadTransition(t, old, "generated", "rendered")
      /\ UNCHANGED <<revisions, artifacts>>
  BY <1>1, <1>0 DEF Generated
<1> HIDE DEF old
<1>4. PICK n \in RequestState :
         /\ <<old.state, "generated", n>> \in TRANSITIONS
         /\ Save(r, [old EXCEPT !.state = n])
         /\ th' = [th EXCEPT ![t].rec = [old EXCEPT !.state = n],
                             ![t].pc = "rendered"]
  BY <1>0, <1>3 DEF ThreadTransition
<1>5. requests[r].state = "generating" /\ n = "rendering"
  BY <1>2, <1>4, ServiceEdges
<1>6. /\ requests'[r].state = "rendering"
      /\ requests'[r].intent = requests[r].intent
      /\ requests'[r].current_revision = requests[r].current_revision + 1
  BY <1>1, <1>2, <1>4, <1>5 DEF Save, TypeOK, Record
<1>7. th'[t].pc = "rendered"
  BY <1>1, <1>4 DEF TypeOK, Handler
<1>8. Handed(r)' = Handed(r)
  <2>1. HandedCount(r)' = HandedCount(r)
    BY <1>1, <1>5, <1>6 DEF HandedCount
  <2> QED
    BY <1>3, <2>1, HandedKept
<1>9. PromisedStep(r)
  BY <1>5, <1>6, <1>8 DEF PromisedStep, PhaseOf, IngestStates, TERMINAL_STATES
<1>10. requests'[r].state \notin IngestStates \cup {"absent"}
  BY <1>6 DEF IngestStates
<1> QED
  BY <1>0, <1>1, <1>3, <1>6, <1>7, <1>9, <1>10, SaveRefines

LEMMA RenderedRefines ==
    ASSUME RInv, SInv', NEW t \in Threads, ThreadStep(t), Rendered(t)
    PROVE  RInv' /\ [Promise!Next]_(Promise!vars)
<1>0. PICK r \in Requests : r = On(t)
  BY ThreadCounts
<1>1. /\ th[t].rec = requests[r] /\ requests[r] \in Record /\ TypeOK
      /\ th[t] \in Handler /\ th[t].pc = "rendered" /\ ThreadSound(t)
      /\ requests[r].current_revision \in Nat /\ Versioned(r)
      /\ Len(revisions[r]) = requests[r].current_revision
      /\ revisions[r] \in Seq(Revision)
  BY <1>0, ThreadCounts DEF Rendered
<1>2. /\ ThreadTransition(t, requests[r], "rendered", "deliver")
      /\ UNCHANGED <<revisions, artifacts>>
  BY <1>1, <1>0 DEF Rendered
<1>3. PICK n \in RequestState :
         /\ <<requests[r].state, "rendered", n>> \in TRANSITIONS
         /\ Save(r, [requests[r] EXCEPT !.state = n])
         /\ th' = [th EXCEPT ![t].rec = [requests[r] EXCEPT !.state = n],
                             ![t].pc = "deliver"]
  BY <1>0, <1>2 DEF ThreadTransition
<1>4. requests[r].state = "rendering" /\ n = "awaiting_approval"
  BY <1>3, ServiceEdges
<1>5. /\ requests'[r].state = "awaiting_approval"
      /\ requests'[r].intent = requests[r].intent
      /\ requests'[r].current_revision = requests[r].current_revision
  BY <1>1, <1>3, <1>4 DEF Save, TypeOK, Record
<1>6. th'[t].pc = "deliver"
  BY <1>1, <1>3 DEF TypeOK, Handler
<1>7. PICK i \in DOMAIN revisions[r] :
         /\ revisions[r][i].revision_no = requests[r].current_revision
         /\ revisions[r][i].intent = requests[r].intent
  BY <1>0, <1>1, <1>4 DEF ThreadSound, Backed, ReviewStates, HasDocument
<1>8. i = Len(revisions[r]) /\ Len(revisions[r]) \in Nat \ {0}
  BY <1>1, <1>7 DEF Versioned
<1>9. /\ HandedCount(r) \in Nat /\ HandedCount(r) + 1 = Len(revisions[r])
      /\ HandedCount(r)' = HandedCount(r) + 1
  BY <1>1, <1>4, <1>5, <1>8 DEF HandedCount
<1>10. Handed(r)' = Append(Handed(r), requests[r].intent)
  BY <1>1, <1>2, <1>7, <1>8, <1>9, HandedGrows
<1>11. PromisedStep(r)
  BY <1>4, <1>5, <1>10 DEF PromisedStep, PhaseOf, IngestStates, TERMINAL_STATES
<1>12. requests'[r].state \notin IngestStates \cup {"absent"}
  BY <1>5 DEF IngestStates
<1> QED
  BY <1>0, <1>1, <1>2, <1>5, <1>6, <1>11, <1>12, SaveRefines

LEMMA ThreadStepRefines ==
    ASSUME RInv, SInv', NEW t \in Threads, ThreadStep(t)
    PROVE  RInv' /\ [Promise!Next]_(Promise!vars)
BY QuietRefines, StoreRefines, AddRefines, ApplyRefines, CorrectRefines,
   FailRefines, GeneratedRefines, RenderedRefines DEF ThreadStep

-----------------------------------------------------------------------------
(* The other steps. *)

\* A step of the ingest of r, which no thread works on.
LEMMA IngestRefines ==
    ASSUME RInv, SInv', NEW r \in Requests, Receive(r) \/ IngestStep(r)
    PROVE  RInv' /\ [Promise!Next]_(Promise!vars)
<1>1. TypeOK /\ UNCHANGED <<revisions, artifacts, th>>
  BY DEF RInv, SInv, IInv, Receive, IngestStep, Advance, Classify,
         ClassifyRaises, Notify
<1>2. \A q \in Requests : q # r => requests'[q] = requests[q]
  BY <1>1 DEF Receive, IngestStep, Advance, Classify, ClassifyRaises, Notify,
              IngestTransition, Save, TypeOK
<1>3. \A q \in Requests : /\ AtGenerated(q)' <=> AtGenerated(q)
                          /\ Versioned(q)'
  BY <1>1 DEF RInv, AtGenerated, On, Versioned, FilesOf
<1>4. \A t \in Threads : FilesReady(t)'
  BY <1>1 DEF RInv, FilesReady, Files, NextRevision, On
<1>5. /\ requests'[r].current_revision = requests[r].current_revision
      /\ Blank(r)' /\ PromisedStep(r)
  <2>0. /\ requests[r] \in Record /\ Blank(r) /\ Count(r)
        /\ ingests[r].pc = "new" => requests[r].state = "absent"
    BY <1>1 DEF RInv, SInv, NewIsAbsent, TypeOK
  <2>1. CASE Receive(r)
    <3>1. /\ requests'[r].state = "received" /\ requests'[r].intent = "none"
          /\ requests'[r].current_revision = 0
      BY <1>1, <2>1 DEF Receive, Save, TypeOK
    <3>2. /\ requests[r].state = "absent" /\ requests[r].intent = "none"
          /\ requests[r].current_revision = 0
      BY <2>0, <2>1 DEF Receive, Blank
    <3>3. HandedCount(r)' = HandedCount(r)
      BY <3>1, <3>2 DEF HandedCount
    <3>4. Handed(r)' = Handed(r)
      BY <1>1, <3>3, HandedKept
    <3> QED
      BY <3>1, <3>2, <3>4
         DEF Blank, PromisedStep, PhaseOf, IngestStates, TERMINAL_STATES
  <2>2. CASE ClassifyRaises(r) \/ Notify(r)
    <3>1. requests' = requests
      BY <2>2 DEF ClassifyRaises, Notify
    <3> QED
      BY <1>1, <2>0, <3>1 DEF Blank, PromisedStep, PhaseOf, Handed
  <2>3. CASE Advance(r) \/ Classify(r)
    <3>1. PICK i \in Intent, g \in Trigger, pc \in IngestPC :
             /\ IngestTransition(r, i, g, pc)
             /\ \/ g \in {"start_aggregation", "window_closed",
                          "media_processed", "classified_none"} /\ i = "none"
                \/ g = "classified_actionable" /\ i \in Actionable
      BY <2>3 DEF Advance, Classify, Intent, Actionable, Trigger, IngestPC
    <3>2. PICK n \in RequestState :
             /\ <<requests[r].state, g, n>> \in TRANSITIONS
             /\ Save(r, [requests[r] EXCEPT !.state = n, !.intent = i])
      BY <3>1 DEF IngestTransition
    <3>3. /\ requests'[r].state = n /\ requests'[r].intent = i
          /\ requests'[r].current_revision = requests[r].current_revision
      BY <1>1, <2>0, <3>2 DEF Save, TypeOK, Record
    <3>4. \/ /\ requests[r].state \in IngestStates /\ n \in IngestStates
             /\ i = "none"
          \/ /\ requests[r].state = "classifying"
             /\ n = "awaiting_classification" /\ i \in Actionable
          \/ requests[r].state = "classifying" /\ n = "discarded" /\ i = "none"
      BY <3>1, <3>2, ServiceEdges DEF IngestStates
    <3>5. requests[r].intent = "none" /\ requests[r].current_revision = 0
      BY <2>0, <3>4 DEF Blank, IngestStates
    <3>6. Handed(r)' = Handed(r)
      <4>1. HandedCount(r)' = HandedCount(r)
        BY <3>3, <3>4 DEF HandedCount, IngestStates
      <4> QED
        BY <1>1, <4>1, HandedKept
    <3>7. PromisedStep(r)
      BY <3>3, <3>4, <3>5, <3>6
         DEF PromisedStep, PhaseOf, IngestStates, TERMINAL_STATES
    <3> QED
      BY <3>3, <3>4, <3>5, <3>7 DEF Blank, IngestStates
  <2> QED
    BY <2>1, <2>2, <2>3 DEF IngestStep
<1>6. \A q \in Requests : Count(q)' /\ Blank(q)'
  BY <1>1, <1>2, <1>3, <1>5 DEF RInv, Count, Blank
<1>7. [Promise!Next]_(Promise!vars)
  BY <1>1, <1>2, <1>5, StepIsPromised
<1> QED
  BY <1>3, <1>4, <1>6, <1>7 DEF RInv

\* A step that leaves the repository alone, and no thread more or less at a
\* place that the invariant speaks of.
LEMMA IdleRefines ==
    ASSUME RInv, SInv', UNCHANGED <<requests, revisions, artifacts>>,
           \A t \in Threads :
              th'[t] = th[t] \/ (/\ th[t].pc \notin {"generated", "add"}
                                 /\ th'[t].pc \notin {"generated", "add"})
    PROVE  RInv' /\ [Promise!Next]_(Promise!vars)
<1>1. \A q \in Requests : /\ AtGenerated(q)' <=> AtGenerated(q)
                          /\ Versioned(q)' /\ Blank(q)'
  BY DEF RInv, AtGenerated, On, Versioned, Blank, FilesOf
<1>2. \A t \in Threads : FilesReady(t)'
  BY DEF RInv, FilesReady, Files, NextRevision, On
<1>3. UNCHANGED Promise!vars
  BY DEF Promise!vars, PhaseOf, Handed
<1> QED
  BY <1>1, <1>2, <1>3 DEF RInv, Count

LEMMA ClickRefines ==
    ASSUME RInv, SInv', NEW t \in Threads, NEW l \in links, NEW f \in BOOLEAN,
           Click(t, l, f)
    PROVE  RInv' /\ [Promise!Next]_(Promise!vars)
<1> DEFINE h == [pc |-> "check", link |-> l,
                 feedback |-> f /\ l.decision = "revise",
                 rec |-> requests[l.request_id], at |-> clock + 1,
                 basis |-> 0]
<1>1. /\ th[t].pc = "idle" /\ th' = [th EXCEPT ![t] = h]
      /\ UNCHANGED <<requests, revisions, artifacts>> /\ TypeOK
  BY DEF Click, RInv, SInv, IInv
<1>2. h.pc = "check"
  OBVIOUS
<1> HIDE DEF h
<1>3. th'[t].pc = "check" /\ \A u \in Threads : u # t => th'[u] = th[u]
  BY <1>1, <1>2 DEF TypeOK
<1> QED
  BY <1>1, <1>3, IdleRefines

\* No record is there, and the promise is at its beginning.
Forgotten == \A r \in Requests : requests[r] = Absent

LEMMA ForgottenIsInit == Forgotten => Promise!Init
<1> SUFFICES ASSUME Forgotten PROVE Promise!Init
  OBVIOUS
<1>1. \A r \in Requests : /\ PhaseOf(r) = "unknown" /\ requests[r].intent = "none"
                          /\ HandedCount(r) = 0
  BY DEF Forgotten, PhaseOf, Absent, HandedCount, IngestStates, TERMINAL_STATES
<1>2. \A r \in Requests : Handed(r) = << >>
  <2> SUFFICES ASSUME NEW r \in Requests PROVE Handed(r) = << >>
    OBVIOUS
  <2>1. Handed(r) = [i \in 1 .. HandedCount(r) |-> revisions[r][i].intent]
    BY DEF Handed, HandedCount
  <2> QED
    BY <1>1, <2>1
<1> QED
  BY <1>1, <1>2 DEF Promise!Init

LEMMA RestartRefines ==
    ASSUME RInv, SInv', Restart
    PROVE  RInv' /\ [Promise!Next]_(Promise!vars)
<1>1. /\ \A r \in Requests : requests'[r] = Absent /\ revisions'[r] = << >>
      /\ \A t \in Threads : th'[t].pc = "idle"
  BY DEF Restart, Idle
<1>2. \A r \in Requests : Count(r)' /\ Blank(r)' /\ Versioned(r)'
  BY <1>1 DEF Count, Blank, Versioned, AtGenerated, Absent
<1>3. \A t \in Threads : FilesReady(t)'
  BY <1>1 DEF FilesReady
<1>4. Forgotten'
  BY <1>1 DEF Forgotten
<1>5. Promise!Init'
  BY <1>4, ForgottenIsInit, PTL
<1> QED
  BY <1>2, <1>3, <1>5 DEF RInv, Promise!Next, Promise!Forget

LEMMA RefinesNext ==
    RInv /\ [Next /\ OneClickAtATime']_vars =>
        RInv' /\ [Promise!Next]_(Promise!vars)
<1> SUFFICES ASSUME RInv, [Next /\ OneClickAtATime']_vars
             PROVE  RInv' /\ [Promise!Next]_(Promise!vars)
  OBVIOUS
<1>1. SInv'
  BY SerialNext DEF RInv
<1>2. CASE UNCHANGED vars \/ Expire
  <2>1. UNCHANGED <<requests, revisions, artifacts, th>>
    BY <1>2 DEF vars, Expire
  <2> QED
    BY <1>1, <2>1, IdleRefines
<1>3. CASE Next
  BY <1>1, <1>2, <1>3, IngestRefines, ThreadStepRefines, ClickRefines,
     RestartRefines DEF Next
<1> QED
  BY <1>2, <1>3

LEMMA RefinesInit == Init => RInv /\ Promise!Init
<1> SUFFICES ASSUME Init PROVE RInv /\ Promise!Init
  OBVIOUS
<1>1. SInv
  <2>1. IInv
    BY SoundInit
  <2> QED
    BY <2>1 DEF Init, SInv, OneClickAtATime, CopyIsFresh, NewIsAbsent, Idle, Absent
<1>2. /\ \A r \in Requests : requests[r] = Absent /\ revisions[r] = << >>
      /\ \A t \in Threads : th[t].pc = "idle"
  BY DEF Init, Idle
<1>3. \A r \in Requests : Count(r) /\ Blank(r) /\ Versioned(r)
  BY <1>2 DEF Count, Blank, Versioned, AtGenerated, Absent
<1>4. \A t \in Threads : FilesReady(t)
  BY <1>2 DEF FilesReady
<1> QED
  BY <1>1, <1>2, <1>3, <1>4, ForgottenIsInit DEF RInv, Forgotten

\* The orchestrator keeps the promise of the two gates: every save of a record
\* by ingest or by a click is a step of Lifecycle or none, for any number of
\* requests and threads, whichever calls raise and whenever the process stops.
THEOREM PromiseIsKept == SerialSpec => KeepsPromise
BY RefinesInit, RefinesNext, PTL DEF SerialSpec, KeepsPromise, Promise!Spec

\* What the promise implies holds of the orchestrator: on functions from
\* requests to phases, intents and sequences of kinds ...
Fit(P, I, D, q) ==
    D[q] # << >> =>
        /\ P[q] \in {"writing", "review", "over"}
        /\ \A n \in DOMAIN D[q] : D[q][n] = I[q]

LEMMA FitMoves ==
    ASSUME NEW P, NEW I, NEW D, NEW P2, NEW r \in Requests, NEW q \in Requests,
           NEW to, DOMAIN P = Requests, P2 = [P EXCEPT ![r] = to],
           D[r] # << >> => to \in {"writing", "review", "over"},
           Fit(P, I, D, q)
    PROVE  Fit(P2, I, D, q)
BY DEF Fit

LEMMA FitProposal ==
    ASSUME NEW P, NEW I, NEW D, NEW P2, NEW I2, NEW r \in Requests,
           NEW q \in Requests, NEW to, NEW i,
           DOMAIN P = Requests, DOMAIN I = Requests,
           P2 = [P EXCEPT ![r] = to], I2 = [I EXCEPT ![r] = i],
           P[r] \in {"reading", "question"},
           Fit(P, I, D, r), Fit(P, I, D, q)
    PROVE  Fit(P2, I2, D, q)
BY DEF Fit

LEMMA FitDelivery ==
    ASSUME NEW P, NEW I, NEW D, NEW P2, NEW D2, NEW r \in Requests,
           NEW q \in Requests,
           DOMAIN P = Requests, DOMAIN D = Requests,
           P2 = [P EXCEPT ![r] = "review"],
           NEW S, D[r] \in Seq(S), I[r] \in S,
           D2 = [D EXCEPT ![r] = Append(D[r], I[r])],
           Fit(P, I, D, r), Fit(P, I, D, q)
    PROVE  Fit(P2, I, D2, q)
<1>1. CASE q # r
  BY <1>1 DEF Fit
<1>2. CASE q = r
  <2>1. D2[q] = Append(D[r], I[r]) /\ P2[q] = "review"
    BY <1>2
  <2>2. \A n \in DOMAIN Append(D[r], I[r]) : Append(D[r], I[r])[n] = I[r]
    BY DEF Fit
  <2> QED
    BY <1>2, <2>1, <2>2 DEF Fit
<1> QED
  BY <1>1, <1>2

\* ... and step by step. Handed documents are of intents.
HandedTyped == \A r \in Requests : Handed(r) \in Seq(Intent)

LEMMA OneKindStep ==
    ASSUME Promise!OneKind, [Promise!Next]_(Promise!vars), HandedTyped,
           \A r \in Requests : requests[r].intent \in Intent
    PROVE  Promise!OneKind'
<1> DEFINE P == [q \in Requests |-> PhaseOf(q)]
           I == [q \in Requests |-> requests[q].intent]
           D == [q \in Requests |-> Handed(q)]
<1>1. /\ DOMAIN P = Requests /\ DOMAIN I = Requests /\ DOMAIN D = Requests
      /\ \A q \in Requests : D[q] \in Seq(Intent) /\ I[q] \in Intent
  BY DEF HandedTyped
<1>2. \A q \in Requests : Fit(P, I, D, q)
  BY DEF Promise!OneKind, Fit
<1>3. ASSUME \A q \in Requests : Fit(P', I', D', q) PROVE Promise!OneKind'
  BY <1>3 DEF Promise!OneKind, Fit
<1>4. \/ P' = P /\ I' = I /\ D' = D
      \/ \A q \in Requests : D'[q] = << >>
      \/ \E r \in Requests, to \in {"reading", "writing", "over"} :
            /\ P' = [P EXCEPT ![r] = to] /\ I' = I /\ D' = D
            /\ to = "reading" => P[r] = "unknown"
      \/ \E r \in Requests, i \in Promise!Actionable :
            /\ P' = [P EXCEPT ![r] = "question"] /\ I' = [I EXCEPT ![r] = i]
            /\ D' = D /\ P[r] \in {"reading", "question"}
      \/ \E r \in Requests :
            /\ P' = [P EXCEPT ![r] = "review"] /\ I' = I
            /\ D' = [D EXCEPT ![r] = Append(@, I[r])]
  <2>1. CASE UNCHANGED Promise!vars
    BY <2>1 DEF Promise!vars
  <2>2. CASE Promise!Forget
    BY <2>2 DEF Promise!Forget, Promise!Init
  <2>3. ASSUME NEW r \in Requests, Promise!Start(r) \/ Promise!Dismiss(r) \/
                      Promise!Commission(r) \/ Promise!End(r)
        PROVE  \E to \in {"reading", "writing", "over"} :
                  /\ P' = [P EXCEPT ![r] = to] /\ I' = I /\ D' = D
                  /\ to = "reading" => P[r] = "unknown"
    BY <2>3 DEF Promise!Start, Promise!Dismiss, Promise!Commission,
                Promise!End, Promise!Move
  <2>4. ASSUME NEW r \in Requests, Promise!Ask(r) \/ Promise!Correct(r)
        PROVE  \E i \in Promise!Actionable :
                  /\ P' = [P EXCEPT ![r] = "question"]
                  /\ I' = [I EXCEPT ![r] = i]
                  /\ D' = D /\ P[r] \in {"reading", "question"}
    <3>1. CASE Promise!Ask(r)
      BY <3>1 DEF Promise!Ask, Promise!Move
    <3>2. CASE Promise!Correct(r)
      <4>1. P' = P /\ P[r] = "question"
        BY <3>2 DEF Promise!Correct
      <4>2. P' = [P EXCEPT ![r] = "question"]
        BY <4>1
      <4> QED
        BY <3>2, <4>1, <4>2 DEF Promise!Correct
    <3> QED
      BY <2>4, <3>1, <3>2
  <2>5. ASSUME NEW r \in Requests, Promise!Deliver(r)
        PROVE  /\ P' = [P EXCEPT ![r] = "review"] /\ I' = I
               /\ D' = [D EXCEPT ![r] = Append(@, I[r])]
    BY <2>5 DEF Promise!Deliver, Promise!Move
  <2> HIDE DEF P, I, D
  <2> QED
    BY <2>1, <2>2, <2>3, <2>4, <2>5 DEF Promise!Next, P, I, D, Promise!vars
<1> HIDE DEF P, I, D
<1>5. CASE P' = P /\ I' = I /\ D' = D
  BY <1>2, <1>3, <1>5
<1>6. CASE \A q \in Requests : D'[q] = << >>
  BY <1>3, <1>6 DEF Fit
<1>7. CASE \E r \in Requests, to \in {"reading", "writing", "over"} :
              /\ P' = [P EXCEPT ![r] = to] /\ I' = I /\ D' = D
              /\ to = "reading" => P[r] = "unknown"
  <2>1. PICK r \in Requests, to \in {"reading", "writing", "over"} :
              /\ P' = [P EXCEPT ![r] = to] /\ I' = I /\ D' = D
              /\ to = "reading" => P[r] = "unknown"
    BY <1>7
  <2>2. D[r] # << >> => to \in {"writing", "review", "over"}
    BY <1>2, <2>1 DEF Fit
  <2>3. \A q \in Requests : Fit(P', I, D, q)
    BY <1>1, <1>2, <2>1, <2>2, FitMoves
  <2> QED
    BY <1>3, <2>1, <2>3
<1>8. CASE \E r \in Requests, i \in Promise!Actionable :
              /\ P' = [P EXCEPT ![r] = "question"] /\ I' = [I EXCEPT ![r] = i]
              /\ D' = D /\ P[r] \in {"reading", "question"}
  <2>1. PICK r \in Requests, i \in Promise!Actionable :
              /\ P' = [P EXCEPT ![r] = "question"] /\ I' = [I EXCEPT ![r] = i]
              /\ D' = D /\ P[r] \in {"reading", "question"}
    BY <1>8
  <2>2. ASSUME NEW q \in Requests PROVE Fit(P', I', D, q)
    <3>1. Fit(P, I, D, r) /\ Fit(P, I, D, q)
      BY <1>2
    <3> QED
      BY <1>1, <2>1, <3>1, FitProposal
  <2> QED
    BY <1>3, <2>1, <2>2
<1>9. CASE \E r \in Requests :
              /\ P' = [P EXCEPT ![r] = "review"] /\ I' = I
              /\ D' = [D EXCEPT ![r] = Append(@, I[r])]
  <2>1. \A q \in Requests : Fit(P', I, D', q)
    BY <1>1, <1>2, <1>9, FitDelivery
  <2> QED
    BY <1>3, <1>9, <2>1
<1> QED
  BY <1>4, <1>5, <1>6, <1>7, <1>8, <1>9

LEMMA HandedIsTyped == RInv => HandedTyped
<1> SUFFICES ASSUME RInv, NEW r \in Requests PROVE Handed(r) \in Seq(Intent)
  BY DEF HandedTyped
<1>1. /\ revisions[r] \in Seq(Revision)
      /\ requests[r].current_revision \in Nat
      /\ requests[r].current_revision <= Len(revisions[r])
  BY DEF RInv, Count, SInv, IInv, TypeOK, Record
<1>2. PICK n \in Int : /\ n <= Len(revisions[r])
                       /\ Handed(r) = [i \in 1 .. n |-> revisions[r][i].intent]
  BY <1>1 DEF Handed
<1>3. PICK m \in Nat : 1 .. m = 1 .. n
  <2>1. CASE n \in Nat
    BY <2>1
  <2>2. CASE n < 0
    <3>1. 1 .. n = 1 .. 0
      BY <2>2
    <3> QED
      BY <3>1
  <2> QED
    BY <2>1, <2>2
<1>4. \A i \in 1 .. n : revisions[r][i].intent \in Intent
  <2> SUFFICES ASSUME NEW i \in 1 .. n PROVE revisions[r][i].intent \in Intent
    OBVIOUS
  <2>1. Len(revisions[r]) \in Nat
    BY <1>1
  <2>2. i \in 1 .. Len(revisions[r])
    BY <1>2, <2>1
  <2>3. revisions[r][i] \in Revision
    BY <1>1, <2>2
  <2> QED
    BY <2>3 DEF Revision
<1> QED
  BY <1>2, <1>3, <1>4

\* FR-GEN-01: all documents the owner was handed are of the intent on record,
\* which nothing changes any more.
THEOREM DocumentsFitAlways == SerialSpec => []DocumentsFitTheIntent
<1>1. RInv /\ Promise!OneKind /\ [Promise!Next]_(Promise!vars) => Promise!OneKind'
  <2>1. RInv => \A r \in Requests : requests[r].intent \in Intent
    BY DEF RInv, SInv, IInv, TypeOK, Record
  <2> QED
    BY <2>1, HandedIsTyped, OneKindStep
<1>2. Promise!Init => Promise!OneKind
  BY DEF Promise!Init, Promise!OneKind
<1>3. SerialSpec => []RInv
  BY RefinesInit, RefinesNext, PTL DEF SerialSpec
<1>4. Promise!OneKind => DocumentsFitTheIntent
  BY DEF DocumentsFitTheIntent
<1> QED
  BY <1>1, <1>2, <1>3, <1>4, PromiseIsKept, PTL DEF KeepsPromise, Promise!Spec

\* FR-DLV-04: revisions are numbered from 1 without gap or repetition, and each
\* has the files that were made for it under its number.
THEOREM RevisionsVersionedAlways == SerialSpec => []RevisionsAreVersioned
<1>1. RInv => RevisionsAreVersioned
  BY DEF RInv, Versioned, FilesOf, RevisionsAreVersioned
<1> QED
  BY <1>1, RefinesInit, RefinesNext, PTL DEF SerialSpec

-----------------------------------------------------------------------------
(* A link takes effect once. *)

\* A link that took effect is on record as used, or its request is gone, and no
\* thread is about to apply it again.
OnceInv ==
    /\ SInv
    /\ \A e \in effects :
          /\ ingests[e.link.request_id].pc \in {"sent", "done"}
          /\ e.link \in interactions \/ requests[e.link.request_id].state = "absent"
    /\ \A t \in Threads : th[t].pc \in {"record", "apply"} =>
          \A e \in effects : e.link # th[t].link
    /\ AppliedOnce

\* Steps that apply nothing, and forget no used link.
LEMMA OnceQuiet ==
    ASSUME OnceInv, SInv', UNCHANGED effects, interactions \subseteq interactions',
           \A r \in Requests : ingests[r].pc \in {"sent", "done"} =>
               /\ ingests'[r].pc \in {"sent", "done"}
               /\ requests[r].state = "absent" => requests'[r].state = "absent",
           \A t \in Threads : th'[t].pc \in {"record", "apply"} =>
               \A e \in effects : e.link # th'[t].link
    PROVE  OnceInv'
<1>1. \A e \in effects : e.link.request_id \in Requests
  BY DEF OnceInv, SInv, IInv, TypeOK, Link
<1> QED
  BY <1>1 DEF OnceInv, AppliedOnce

LEMMA OnceIngest ==
    ASSUME OnceInv, SInv', NEW r \in Requests, Receive(r) \/ IngestStep(r)
    PROVE  OnceInv'
<1>1. /\ TypeOK /\ ingests[r].pc \notin {"sent", "done"}
      /\ UNCHANGED <<effects, interactions, th>>
  BY DEF OnceInv, SInv, IInv, Receive, IngestStep, Advance, Classify,
         ClassifyRaises, Notify
<1>2. \A q \in Requests : q # r => requests'[q] = requests[q]
                                   /\ ingests'[q] = ingests[q]
  BY <1>1 DEF Receive, IngestStep, Advance, Classify, ClassifyRaises, Notify,
              IngestTransition, Save, TypeOK
<1> QED
  BY <1>1, <1>2, OnceQuiet DEF OnceInv

LEMMA OnceThread ==
    ASSUME OnceInv, SInv', NEW t \in Threads, ThreadStep(t)
    PROVE  OnceInv'
<1>0. PICK r \in Requests : r = On(t)
  BY StepFacts DEF OnceInv, SInv
<1>1. /\ th[t].rec = requests[r] /\ requests[r].state # "absent"
      /\ TypeOK /\ ThreadSound(t) /\ th[t] \in Handler /\ UNCHANGED ingests
      /\ th[t].pc # "idle"
  BY <1>0, StepFacts DEF OnceInv, SInv, CopyIsFresh, ThreadSound, Backed
<1>2. /\ \A u \in Threads : u # t => th'[u] = th[u]
      /\ \A u \in Threads : u # t /\ th[u].pc # "idle" => On(u) # r
      /\ \A q \in Requests : q # r => requests'[q] = requests[q]
  BY <1>0, OthersRest DEF OnceInv
<1>3. interactions \subseteq interactions'
  BY DEF ThreadStep, CheckInteraction, RecordInteraction, ApplyDecision,
         RefuseDecision, CorrectIntent, Renotify, Generate, Fail,
         StoreArtifacts, StoreRaises, AddRevision, Generated, Rendered, Deliver
<1>4. CASE ApplyDecision(t)
  <2> DEFINE new == [link |-> th[t].link, at |-> th[t].at,
                     feedback |-> th[t].feedback]
  <2>1. /\ effects' = effects \cup {new} /\ new.link = th[t].link
        /\ th[t].pc = "apply"
    BY <1>4 DEF ApplyDecision
  <2> HIDE DEF new
  <2>2. th'[t].pc \notin {"record", "apply"}
    <3> DEFINE d == th[t].link.decision
    <3>1. d \in OwnerDecision
      BY <1>1 DEF Handler, Link
    <3>2. CASE Continuation[d] = "return"
      BY <1>1, <1>4, <3>2 DEF ApplyDecision, Return, TypeOK, Idle
    <3>3. CASE Continuation[d] # "return"
      <4>1. th'[t].pc = Continuation[d]
        BY <1>1, <1>4, <3>3 DEF ApplyDecision, TypeOK, Handler
      <4>2. Continuation[d] \in {"generate", "correct"}
        BY <3>1, <3>3 DEF Continuation, OwnerDecision
      <4> QED
        BY <4>1, <4>2
    <3> QED
      BY <3>2, <3>3
  <2>3. /\ \A e \in effects : e.link # th[t].link
        /\ th[t].link \in interactions
    BY <1>1, <2>1 DEF OnceInv, ThreadSound
  <2>4. AppliedOnce'
    BY <2>1, <2>3 DEF OnceInv, AppliedOnce
  <2>5. ingests[r].pc \in {"sent", "done"} /\ th[t].link.request_id = r
    BY <1>0, <1>1 DEF OnceInv, SInv, IInv, AfterIngest, On
  <2>6. ASSUME NEW e \in effects'
        PROVE  /\ ingests'[e.link.request_id].pc \in {"sent", "done"}
               /\ \/ e.link \in interactions'
                  \/ requests'[e.link.request_id].state = "absent"
    <3>1. CASE e = new
      BY <1>1, <1>3, <2>1, <2>3, <2>5, <3>1
    <3>2. CASE e \in effects
      <4>1. e.link.request_id \in Requests
        BY <1>1, <3>2 DEF TypeOK, Link
      <4> QED
        BY <1>1, <1>2, <1>3, <3>2, <4>1 DEF OnceInv
    <3> QED
      BY <2>1, <3>1, <3>2
  <2>7. ASSUME NEW u \in Threads, th'[u].pc \in {"record", "apply"},
               NEW e \in effects'
        PROVE  e.link # th'[u].link
    <3>1. u # t /\ th'[u] = th[u] /\ On(u) # r
      BY <1>2, <2>2, <2>7
    <3>2. CASE e = new
      BY <2>1, <2>5, <3>1, <3>2 DEF On
    <3>3. CASE e \in effects
      BY <2>7, <3>1, <3>3 DEF OnceInv
    <3> QED
      BY <2>1, <3>2, <3>3
  <2> QED
    BY <2>4, <2>6, <2>7 DEF OnceInv
<1>5. CASE ~ApplyDecision(t)
  <2>1. UNCHANGED effects
    BY <1>5 DEF ThreadStep, CheckInteraction, RecordInteraction,
                RefuseDecision, CorrectIntent, Renotify, Generate, Fail,
                StoreArtifacts, StoreRaises, AddRevision, Generated, Rendered,
                Deliver
  <2>2. ASSUME th'[t].pc \in {"record", "apply"}, NEW e \in effects
        PROVE  e.link # th'[t].link
    <3>1. CASE CheckInteraction(t)
      <4>1. th[t].link \notin interactions /\ th'[t].link = th[t].link
        BY <1>1, <2>2, <3>1
           DEF CheckInteraction, Goto, Return, TypeOK, Handler, Idle
      <4>2. th[t].link.request_id = r
        BY <1>0 DEF On
      <4> QED
        BY <1>1, <4>1, <4>2 DEF OnceInv
    <3>2. CASE RecordInteraction(t)
      <4>1. th[t].pc = "record" /\ th'[t].link = th[t].link
        BY <1>1, <3>2 DEF RecordInteraction, Goto, TypeOK, Handler
      <4> QED
        BY <4>1 DEF OnceInv
    <3>3. CASE ~CheckInteraction(t) /\ ~RecordInteraction(t)
      <4>1. PICK pc \in ThreadPC \ {"record", "apply"} : th'[t].pc = pc
        <5>1. CASE \/ RefuseDecision(t) \/ Generate(t) \/ StoreRaises(t)
                   \/ Renotify(t) \/ Deliver(t) \/ Fail(t) \/ AddRevision(t)
                   \/ StoreArtifacts(t)
          BY <1>1, <5>1
             DEF RefuseDecision, Generate, StoreRaises, Renotify, Deliver,
                 Fail, AddRevision, StoreArtifacts, Goto, Return, TypeOK,
                 Handler, Idle, GenerateOutcome, ThreadPC
        <5>2. CASE CorrectIntent(t) \/ Generated(t) \/ Rendered(t)
          <6>1. ASSUME NEW rec, NEW pc,
                       th' = [th EXCEPT ![t].rec = rec, ![t].pc = pc]
                PROVE  th'[t].pc = pc
            BY <1>1, <6>1 DEF TypeOK, Handler
          <6>2. CASE CorrectIntent(t)
            BY <6>1, <6>2 DEF CorrectIntent, ThreadPC
          <6>3. CASE Generated(t)
            BY <6>1, <6>3 DEF Generated, ThreadTransition, ThreadPC
          <6>4. CASE Rendered(t)
            BY <6>1, <6>4 DEF Rendered, ThreadTransition, ThreadPC
          <6> QED
            BY <5>2, <6>2, <6>3, <6>4
        <5> QED
          BY <1>5, <3>3, <5>1, <5>2 DEF ThreadStep
      <4> QED
        BY <2>2, <4>1
    <3> QED
      BY <3>1, <3>2, <3>3
  <2>3. ASSUME NEW u \in Threads, th'[u].pc \in {"record", "apply"},
               NEW e \in effects
        PROVE  e.link # th'[u].link
    BY <1>2, <2>2, <2>3 DEF OnceInv
  <2>4. \A q \in Requests : ingests[q].pc \in {"sent", "done"} =>
           /\ ingests'[q].pc \in {"sent", "done"}
           /\ requests[q].state = "absent" => requests'[q].state = "absent"
    BY <1>1, <1>2
  <2> QED
    BY <1>3, <2>1, <2>3, <2>4, OnceQuiet
<1> QED
  BY <1>4, <1>5

LEMMA OnceClick ==
    ASSUME OnceInv, SInv', NEW t \in Threads, NEW l \in links, NEW f \in BOOLEAN,
           Click(t, l, f)
    PROVE  OnceInv'
<1> DEFINE h == [pc |-> "check", link |-> l,
                 feedback |-> f /\ l.decision = "revise",
                 rec |-> requests[l.request_id], at |-> clock + 1,
                 basis |-> 0]
<1>1. /\ th' = [th EXCEPT ![t] = h] /\ TypeOK
      /\ UNCHANGED <<requests, interactions, effects, ingests>>
  BY DEF Click, OnceInv, SInv, IInv
<1>2. h.pc = "check"
  OBVIOUS
<1> HIDE DEF h
<1>3. th'[t].pc = "check" /\ \A u \in Threads : u # t => th'[u] = th[u]
  BY <1>1, <1>2 DEF TypeOK
<1>4. \A u \in Threads : th'[u].pc \in {"record", "apply"} =>
         \A e \in effects : e.link # th'[u].link
  BY <1>3 DEF OnceInv
<1> QED
  BY <1>1, <1>4, OnceQuiet

LEMMA OnceRestart ==
    ASSUME OnceInv, SInv', Restart
    PROVE  OnceInv'
<1>1. /\ UNCHANGED effects /\ TypeOK
      /\ \A r \in Requests : requests'[r].state = "absent"
      /\ \A t \in Threads : th'[t].pc = "idle"
  BY DEF Restart, Absent, Idle, OnceInv, SInv, IInv
<1>2. \A r \in Requests : ingests[r].pc \in {"sent", "done"} =>
                          ingests'[r].pc \in {"sent", "done"}
  BY <1>1 DEF Restart, TypeOK, Ingest
<1>3. \A e \in effects : e.link.request_id \in Requests
  BY <1>1 DEF TypeOK, Link
<1> QED
  BY <1>1, <1>2, <1>3 DEF OnceInv, AppliedOnce

LEMMA OnceNext ==
    OnceInv /\ [Next /\ OneClickAtATime']_vars => OnceInv'
<1> SUFFICES ASSUME OnceInv, [Next /\ OneClickAtATime']_vars PROVE OnceInv'
  OBVIOUS
<1>1. SInv'
  BY SerialNext DEF OnceInv
<1>2. CASE UNCHANGED vars \/ Expire
  <2>1. UNCHANGED <<requests, interactions, effects, ingests, th>>
    BY <1>2 DEF vars, Expire
  <2> QED
    BY <1>1, <2>1, OnceQuiet DEF OnceInv
<1>3. CASE Next
  BY <1>1, <1>2, <1>3, OnceIngest, OnceThread, OnceClick, OnceRestart DEF Next
<1> QED
  BY <1>2, <1>3

\* "Owner actions are idempotent via the repository's interaction record": with
\* one click on a request at a time a link takes effect once, also across
\* restarts, which forget the interactions.
THEOREM AppliedOnceAlways == SerialSpec => []AppliedOnce
<1>1. Init => OnceInv
  BY RefinesInit DEF Init, RInv, OnceInv, AppliedOnce, Idle
<1>2. OnceInv => AppliedOnce
  BY DEF OnceInv
<1> QED
  BY <1>1, <1>2, OnceNext, PTL DEF SerialSpec

-----------------------------------------------------------------------------
(* Documents are of an intent that was offered. *)

\* The owner was sent a link to confirm intent i for r.
Offered(r, i) ==
    \E l \in links : l.request_id = r /\ l.decision = "confirm" /\ l.shown = i

\* A handler has saved an intent of r and not yet shown it to the owner.
Unshown(r) ==
    \/ ingests[r].pc = "notify"
    \/ \E t \in Threads : th[t].pc = "renotify" /\ On(t) = r

IntentOffered(r) ==
    requests[r].intent \in Actionable /\ ~Unshown(r) =>
        Offered(r, requests[r].intent)

OfferedInv ==
    /\ SInv
    /\ \A r \in Requests : IntentOffered(r)
    /\ DocumentsWereOffered

\* The mailbox keeps what was offered.
LEMMA OffersStay ==
    ASSUME links \subseteq links', NEW r, NEW i, Offered(r, i)
    PROVE  Offered(r, i)'
BY DEF Offered

\* What a step of t does to the documents and to what the prompt is based on.
LEMMA ThreadDocuments ==
    ASSUME IInv, NEW t \in Threads, ThreadStep(t)
    PROVE  /\ \A q \in Requests : q # On(t) => revisions'[q] = revisions[q]
           /\ th[t].pc # "add" => revisions' = revisions
           /\ th[t].pc = "add" =>
                 revisions'[On(t)] =
                     Append(revisions[On(t)],
                            [revision_no |-> NextRevision(t), at |-> th[t].at,
                             intent |-> th[t].rec.intent,
                             basis |-> th[t].basis])
<1>1. TypeOK /\ On(t) \in Requests
  BY StepFacts
<1>2. CASE AddRevision(t)
  BY <1>1, <1>2 DEF AddRevision, TypeOK
<1>3. CASE ~AddRevision(t)
  BY <1>3 DEF ThreadStep, CheckInteraction, RecordInteraction, ApplyDecision,
     RefuseDecision, CorrectIntent, Renotify, Generate, Fail, StoreArtifacts,
     StoreRaises, Generated, Rendered, Deliver
<1> QED
  BY <1>2, <1>3

\* A property of the stored revisions holds after t has added its document when
\* it held before and holds of that document.
LEMMA DocumentAdded ==
    ASSUME IInv, NEW t \in Threads, ThreadStep(t), th[t].pc = "add",
           NEW i \in DOMAIN revisions'[On(t)]
    PROVE  \/ /\ i \in DOMAIN revisions[On(t)]
              /\ revisions'[On(t)][i] = revisions[On(t)][i]
           \/ /\ i = Len(revisions[On(t)]) + 1
              /\ revisions'[On(t)][i].at = th[t].at
              /\ revisions'[On(t)][i].intent = th[t].rec.intent
              /\ revisions'[On(t)][i].basis = th[t].basis
<1> DEFINE rv == [revision_no |-> NextRevision(t), at |-> th[t].at,
                  intent |-> th[t].rec.intent, basis |-> th[t].basis]
           old == revisions[On(t)]
<1>1. revisions'[On(t)] = Append(old, rv)
  BY ThreadDocuments
<1>2. old \in Seq(Revision)
  BY StepFacts DEF TypeOK
<1>3. /\ rv.at = th[t].at /\ rv.intent = th[t].rec.intent
      /\ rv.basis = th[t].basis
  OBVIOUS
<1> HIDE DEF rv, old
<1>4. \/ i \in DOMAIN old /\ Append(old, rv)[i] = old[i]
      \/ i = Len(old) + 1 /\ Append(old, rv)[i] = rv
  BY <1>1, <1>2
<1> QED
  BY <1>1, <1>3, <1>4 DEF old

LEMMA OfferedThread ==
    ASSUME OfferedInv, "notify" \notin Faults, NEW t \in Threads, ThreadStep(t)
    PROVE  (\A r \in Requests : IntentOffered(r)') /\ DocumentsWereOffered'
<1>0. PICK r \in Requests : r = On(t)
  BY StepFacts DEF OfferedInv, SInv
<1>1. /\ IInv /\ SInv /\ Moves(t) /\ th[t].pc # "idle" /\ UNCHANGED ingests
      /\ ingests[r].pc \in {"sent", "done"} /\ ThreadSound(t)
      /\ th[t].rec = requests[r]
  BY <1>0, StepFacts, ThreadMoves
     DEF OfferedInv, SInv, IInv, AfterIngest, CopyIsFresh
<1>2. links \subseteq links'
  BY <1>1, ThreadMail
<1>3. /\ \A u \in Threads : u # t => th'[u] = th[u] /\ On(u)' = On(u)
      /\ \A u \in Threads : u # t /\ th[u].pc # "idle" => On(u) # r
      /\ th'[t].pc # "idle" => On(t)' = r
  BY <1>0, <1>1, OthersRest DEF Moves, On
<1>4. ASSUME NEW q \in Requests, q # r PROVE IntentOffered(q)'
  <2>1. requests'[q] = requests[q] /\ (Unshown(q) => Unshown(q)')
    BY <1>0, <1>1, <1>3, <1>4 DEF Moves, Unshown
  <2> QED
    BY <1>2, <2>1, OffersStay DEF OfferedInv, IntentOffered
<1>5. IntentOffered(r)'
  <2>1. CASE th[t].pc = "correct"
    <3>1. th'[t].pc = "renotify"
      BY <1>1, <2>1 DEF Moves, Quiet, Saving, QuietMoves, SavingMoves
    <3> QED
      BY <1>3, <3>1 DEF IntentOffered, Unshown
  <2>2. CASE th[t].pc # "correct"
    <3>1. requests'[r].intent = requests[r].intent
      BY <1>0, <1>1, <2>2 DEF Moves, Quiet, Saving
    <3>2. CASE th[t].pc = "renotify"
      <4>1. Renotify(t)
        BY <3>2 DEF ThreadStep, CheckInteraction, RecordInteraction,
           ApplyDecision, RefuseDecision, CorrectIntent, Generate, Fail,
           StoreArtifacts, StoreRaises, AddRevision, Generated, Rendered,
           Deliver
      <4>2. links' = links \cup classification_links(r, requests[r].intent,
                                                     th[t].at)
        BY <1>0, <1>1, <4>1 DEF Renotify, notify_classification, Send, SendRaises
      <4>3. \E l \in links' : /\ l.request_id = r /\ l.decision = "confirm"
                              /\ l.shown = requests[r].intent
        <5>1. issue(r, "confirm", "none", requests[r].intent, th[t].at, 0)
                 \in links'
          BY <4>2 DEF classification_links
        <5> QED
          BY <5>1 DEF issue
      <4> QED
        BY <3>1, <4>3 DEF IntentOffered, Offered
    <3>3. CASE th[t].pc # "renotify"
      <4>1. ~Unshown(r)
        BY <1>0, <1>1, <1>3, <3>3 DEF Unshown
      <4> QED
        BY <1>2, <3>1, <4>1 DEF OfferedInv, IntentOffered, Offered
    <3> QED
      BY <3>2, <3>3
  <2> QED
    BY <2>1, <2>2
<1>6. DocumentsWereOffered'
  <2> SUFFICES ASSUME NEW q \in Requests, NEW i \in DOMAIN revisions'[q]
               PROVE  \E l \in links' : /\ l.request_id = q
                                        /\ l.decision = "confirm"
                                        /\ l.shown = revisions'[q][i].intent
    BY DEF DocumentsWereOffered
  <2>1. CASE i \in DOMAIN revisions[q] /\ revisions'[q][i] = revisions[q][i]
    BY <1>2, <2>1 DEF OfferedInv, DocumentsWereOffered
  <2>2. CASE ~(i \in DOMAIN revisions[q] /\ revisions'[q][i] = revisions[q][i])
    <3>1. q = r /\ th[t].pc = "add"
      BY <1>0, <1>1, <2>2, ThreadDocuments
    <3>2. revisions'[r][i].intent = requests[r].intent
      BY <1>0, <1>1, <2>2, <3>1, DocumentAdded
    <3>3. requests[r].intent \in Actionable /\ ~Unshown(r)
      BY <1>0, <1>1, <1>3, <3>1 DEF ThreadSound, Backed, Unshown
    <3> QED
      BY <1>2, <3>1, <3>2, <3>3 DEF OfferedInv, IntentOffered, Offered
  <2> QED
    BY <2>1, <2>2
<1> QED
  BY <1>4, <1>5, <1>6

LEMMA OfferedIngest ==
    ASSUME OfferedInv, "notify" \notin Faults,
           NEW r \in Requests, Receive(r) \/ IngestStep(r)
    PROVE  (\A q \in Requests : IntentOffered(q)') /\ DocumentsWereOffered'
<1>1. TypeOK
  BY DEF OfferedInv, SInv, IInv
<1>2. /\ UNCHANGED <<th, revisions>>
      /\ \A q \in Requests : q # r => requests'[q] = requests[q]
                                     /\ ingests'[q] = ingests[q]
  BY <1>1 DEF Receive, IngestStep, Advance, Classify, ClassifyRaises, Notify,
              IngestTransition, Save, TypeOK
<1>3. links \subseteq links'
  <2>1. CASE Notify(r)
    BY <2>1, SentAreKept DEF Notify, notify_classification
  <2>2. CASE ~Notify(r)
    BY <2>2 DEF Receive, IngestStep, Advance, Classify, ClassifyRaises
  <2> QED
    BY <2>1, <2>2
<1>4. DocumentsWereOffered'
  BY <1>2, <1>3 DEF OfferedInv, DocumentsWereOffered
<1>5. \A q \in Requests : q # r => IntentOffered(q)'
  <2>1. \A q \in Requests : q # r => (Unshown(q) <=> Unshown(q)')
    BY <1>2 DEF Unshown, On
  <2> QED
    BY <1>2, <1>3, <2>1 DEF OfferedInv, IntentOffered, Offered
<1>6. IntentOffered(r)'
  <2>1. CASE Receive(r)
    <3>1. requests'[r].intent = "none"
      BY <1>1, <2>1 DEF Receive, Save, TypeOK
    <3> QED
      BY <3>1 DEF IntentOffered, Actionable
  <2>2. CASE Advance(r)
    <3>1. requests'[r].intent = "none"
      BY <1>1, <2>2, IngestTransitionSaves DEF Advance
    <3> QED
      BY <3>1 DEF IntentOffered, Actionable
  <2>3. CASE Classify(r)
    <3>1. CASE \E i \in Actionable :
                  IngestTransition(r, i, "classified_actionable", "notify")
      <4>1. ingests'[r].pc = "notify"
        BY <1>1, <3>1 DEF IngestTransition, TypeOK, Ingest
      <4> QED
        BY <4>1 DEF IntentOffered, Unshown
    <3>2. CASE \E pc \in {"notify", "done"} :
                  IngestTransition(r, "none", "classified_none", pc)
      <4>1. requests'[r].intent = "none"
        BY <1>1, <3>2, IngestTransitionSaves
      <4> QED
        BY <4>1 DEF IntentOffered, Actionable
    <3> QED
      BY <2>3, <3>1, <3>2 DEF Classify
  <2>4. CASE ClassifyRaises(r)
    <3>1. /\ requests' = requests /\ links' = links
          /\ ingests[r].pc = "classify"
      BY <2>4 DEF ClassifyRaises
    <3>2. Unshown(r) => Unshown(r)'
      BY <1>2, <3>1 DEF Unshown, On
    <3> QED
      BY <3>1, <3>2 DEF OfferedInv, IntentOffered, Offered
  <2>5. CASE Notify(r)
    <3>1. /\ requests' = requests
          /\ links' = links \cup classification_links(r, requests[r].intent,
                                                      ingests[r].at)
      BY <2>5 DEF Notify, notify_classification, Send, SendRaises
    <3>2. issue(r, "confirm", "none", requests[r].intent, ingests[r].at, 0)
             \in links'
      BY <3>1 DEF classification_links
    <3>3. Offered(r, requests[r].intent)'
      BY <3>1, <3>2 DEF issue, Offered
    <3> QED
      BY <3>3 DEF IntentOffered
  <2> QED
    BY <2>1, <2>2, <2>3, <2>4, <2>5 DEF IngestStep
<1> QED
  BY <1>4, <1>5, <1>6

LEMMA OfferedRest ==
    ASSUME OfferedInv,
           \/ \E t \in Threads, l \in links, f \in BOOLEAN : Click(t, l, f)
           \/ Expire \/ Restart \/ UNCHANGED vars
    PROVE  (\A r \in Requests : IntentOffered(r)') /\ DocumentsWereOffered'
<1>1. TypeOK
  BY DEF OfferedInv, SInv, IInv
<1>2. CASE Restart
  <2>1. \A r \in Requests : requests'[r].intent = "none" /\ revisions'[r] = << >>
    BY <1>2 DEF Restart, Absent
  <2> QED
    BY <2>1 DEF IntentOffered, Actionable, DocumentsWereOffered
<1>3. CASE ~Restart
  <2>1. /\ UNCHANGED <<requests, revisions, links, ingests>>
        /\ \A t \in Threads : th[t].pc = "renotify" => th'[t] = th[t]
    <3>1. CASE Expire \/ UNCHANGED vars
      BY <3>1 DEF Expire, vars
    <3>2. ASSUME NEW t \in Threads, NEW l \in links, NEW f \in BOOLEAN,
                 Click(t, l, f)
          PROVE  /\ UNCHANGED <<requests, revisions, links, ingests>>
                 /\ \A u \in Threads : th[u].pc = "renotify" => th'[u] = th[u]
      BY <1>1, <3>2 DEF Click, TypeOK
    <3> QED
      BY <1>3, <3>1, <3>2
  <2>2. \A r \in Requests : Unshown(r) => Unshown(r)'
    BY <2>1 DEF Unshown, On
  <2> QED
    BY <2>1, <2>2 DEF OfferedInv, IntentOffered, Offered, DocumentsWereOffered
<1> QED
  BY <1>2, <1>3

LEMMA OfferedNext ==
    ASSUME "notify" \notin Faults
    PROVE  OfferedInv /\ [Next /\ OneClickAtATime']_vars => OfferedInv'
<1> SUFFICES ASSUME OfferedInv, [Next /\ OneClickAtATime']_vars
             PROVE  OfferedInv'
  OBVIOUS
<1>1. SInv'
  BY SerialNext DEF OfferedInv
<1>2. (\A r \in Requests : IntentOffered(r)') /\ DocumentsWereOffered'
  BY OfferedThread, OfferedIngest, OfferedRest DEF Next
<1> QED
  BY <1>1, <1>2 DEF OfferedInv

\* FR-CNF-01 and FR-GEN-01: while notifications go out, every document is of an
\* intent that the owner was shown next to a link to confirm it.
THEOREM DocumentsWereOfferedAlways ==
    ASSUME "notify" \notin Faults
    PROVE  SerialSpec => []DocumentsWereOffered
<1>1. Init => OfferedInv
  BY RefinesInit
     DEF Init, RInv, OfferedInv, IntentOffered, DocumentsWereOffered, Absent,
         Actionable
<1>2. OfferedInv => DocumentsWereOffered
  BY DEF OfferedInv
<1> QED
  BY <1>1, <1>2, OfferedNext, PTL DEF SerialSpec

-----------------------------------------------------------------------------
(* A revision with feedback builds on the revision right before it. *)

\* The stamp of a handler tells its effect and its document from all others,
\* and while a thread makes a document nobody adds another to its request: the
\* number of revisions in its prompt stays the number that there are.
Building(t) ==
    /\ th[t].feedback => th[t].link.decision = "revise"
    /\ th[t].pc \in {"check", "record", "apply"} =>
          \A e \in effects : e.at # th[t].at
    /\ \A e \in effects : e.at = th[t].at => e.feedback = th[t].feedback
    /\ th[t].pc \notin {"generated", "rendered", "deliver"} =>
          \A r \in Requests : \A i \in DOMAIN revisions[r] :
              revisions[r][i].at # th[t].at
    /\ th[t].feedback /\ th[t].pc \in {"generate", "put", "add"} =>
          Len(revisions[On(t)]) > 0
    /\ th[t].feedback /\ th[t].pc \in {"put", "add"} =>
          th[t].basis = Len(revisions[On(t)])

BuildInv ==
    /\ SInv
    /\ Stamped
    /\ \A e \in effects : e.at <= clock
    /\ \A r \in Requests : \A i \in DOMAIN revisions[r] :
          revisions[r][i].at <= clock
    /\ \A t \in Threads : th[t].pc # "idle" => Building(t)
    /\ RevisionsBuildOnTheLast

\* What a step of t adds to the history, and the basis of its document.
LEMMA ThreadHistory ==
    ASSUME IInv, NEW t \in Threads, ThreadStep(t)
    PROVE  /\ effects \subseteq effects'
           /\ th[t].pc # "apply" => effects' = effects
           /\ \A e \in effects' \ effects :
                 e.at = th[t].at /\ e.feedback = th[t].feedback
           /\ th[t].pc = "generate" => th'[t].basis = PromptBasis(t)
           /\ th[t].pc = "put" /\ th'[t].pc = "add" =>
                 th'[t].basis = th[t].basis
<1>1. TypeOK /\ th[t] \in Handler
  BY StepFacts
<1>2. CASE ApplyDecision(t)
  BY <1>2 DEF ApplyDecision
<1>3. CASE Generate(t)
  <2>1. PICK pc \in {"put", "fail"} :
           th' = [th EXCEPT ![t].basis = PromptBasis(t), ![t].pc = pc]
    BY <1>3 DEF Generate, GenerateOutcome
  <2>2. th'[t] = [th[t] EXCEPT !.basis = PromptBasis(t), !.pc = pc]
    BY <1>1, <2>1 DEF TypeOK
  <2>3. th'[t].basis = PromptBasis(t)
    BY <1>1, <2>2 DEF Handler
  <2> QED
    BY <1>3, <2>3 DEF Generate
<1>4. CASE StoreArtifacts(t)
  <2>1. th'[t] = [th[t] EXCEPT !.pc = "add"]
    BY <1>1, <1>4 DEF StoreArtifacts, Goto, TypeOK
  <2>2. th'[t].basis = th[t].basis
    BY <1>1, <2>1 DEF Handler
  <2> QED
    BY <1>4, <2>2 DEF StoreArtifacts
<1>5. CASE StoreRaises(t)
  BY <1>1, <1>5, ReturnMoves DEF StoreRaises
<1>6. CASE ~(\/ ApplyDecision(t) \/ Generate(t) \/ StoreArtifacts(t)
             \/ StoreRaises(t))
  BY <1>6 DEF ThreadStep, CheckInteraction, RecordInteraction, RefuseDecision,
     CorrectIntent, Renotify, Fail, AddRevision, Generated, Rendered, Deliver
<1> QED
  BY <1>2, <1>3, <1>4, <1>5, <1>6

\* A decision to revise is taken of a document that exists.
LEMMA RevisedExists ==
    ASSUME IInv, NEW t \in Threads, ThreadStep(t), Moves(t),
           th[t].link.decision = "revise", th[t].pc = "apply",
           th'[t].pc = "generate"
    PROVE  Len(revisions[On(t)]) > 0
<1>1. th[t].rec.state = "awaiting_approval"
  BY DEF Moves, Quiet, QuietMoves, Saving, DecisionMoves, SavingMoves
<1>2. HasDocument(th[t].rec, revisions[On(t)])
  BY <1>1, StepFacts DEF ThreadSound, Backed, ReviewStates
<1>3. PICK i \in DOMAIN revisions[On(t)] : TRUE
  BY <1>2 DEF HasDocument
<1>4. revisions[On(t)] \in Seq(Revision)
  BY StepFacts DEF TypeOK
<1> QED
  BY <1>3, <1>4

LEMMA BuildThread ==
    ASSUME BuildInv, NEW t \in Threads, ThreadStep(t), SInv', Stamped'
    PROVE  BuildInv'
<1>0. PICK r \in Requests : r = On(t)
  BY StepFacts DEF BuildInv, SInv
<1>1. /\ IInv /\ SInv /\ Moves(t) /\ th[t].pc # "idle" /\ StampOfThread(t)
      /\ Building(t) /\ clock' = clock /\ TypeOK /\ revisions[r] \in Seq(Revision)
  BY <1>0, StepFacts, ThreadMoves DEF BuildInv, SInv, Stamped, Moves, TypeOK
<1>2. /\ \A u \in Threads : u # t => th'[u] = th[u] /\ On(u)' = On(u)
      /\ \A u \in Threads : u # t /\ th[u].pc # "idle" => On(u) # r
      /\ th'[t].pc # "idle" => On(t)' = r
      /\ \A u \in Threads : th[u].pc # "idle" => On(u) \in Requests
  BY <1>0, <1>1, OthersRest, BusyIsHandler DEF Moves, On, Handler, Link
<1>3. \A e \in effects' : \/ e \in effects
                          \/ /\ th[t].pc = "apply" /\ e.at = th[t].at
                             /\ e.feedback = th[t].feedback
  BY <1>1, ThreadHistory
<1>4. ASSUME NEW q \in Requests, NEW i \in DOMAIN revisions'[q]
      PROVE  \/ /\ i \in DOMAIN revisions[q]
                /\ revisions'[q][i] = revisions[q][i]
             \/ /\ th[t].pc = "add" /\ q = r /\ i = Len(revisions[r]) + 1
                /\ revisions'[q][i].at = th[t].at
                /\ revisions'[q][i].basis = th[t].basis
  <2>1. CASE q = r /\ th[t].pc = "add"
    <3>1. i \in DOMAIN revisions'[On(t)]
      BY <1>0, <1>4, <2>1
    <3>2. \/ /\ i \in DOMAIN revisions[On(t)]
             /\ revisions'[On(t)][i] = revisions[On(t)][i]
          \/ /\ i = Len(revisions[On(t)]) + 1
             /\ revisions'[On(t)][i].at = th[t].at
             /\ revisions'[On(t)][i].basis = th[t].basis
      BY <1>1, <2>1, <3>1, DocumentAdded
    <3> QED
      BY <1>0, <2>1, <3>2
  <2>2. CASE ~(q = r /\ th[t].pc = "add")
    <3>1. revisions'[q] = revisions[q]
      BY <1>0, <1>1, <2>2, ThreadDocuments
    <3> QED
      BY <1>4, <3>1
  <2> QED
    BY <2>1, <2>2
<1>5. \A e \in effects' : e.at <= clock'
  BY <1>1, <1>3 DEF BuildInv, StampOfThread
<1>6. \A q \in Requests : \A i \in DOMAIN revisions'[q] :
         revisions'[q][i].at <= clock'
  BY <1>1, <1>4 DEF BuildInv, StampOfThread
<1>7. ASSUME NEW u \in Threads, u # t, th'[u].pc # "idle"
      PROVE  Building(u)'
  <2>1. /\ th[u].pc # "idle" /\ th'[u] = th[u] /\ Building(u)
        /\ On(u)' = On(u) /\ On(u) # r /\ On(u) \in Requests
        /\ th[u].at # th[t].at
    BY <1>1, <1>2, <1>7 DEF BuildInv, StampOfThread
  <2>2. revisions'[On(u)] = revisions[On(u)]
    BY <1>0, <1>1, <2>1, ThreadDocuments
  <2>3. \A e \in effects' : e \in effects \/ e.at # th[u].at
    BY <1>3, <2>1
  <2>4. th[u].pc \notin {"generated", "rendered", "deliver"} =>
           \A q \in Requests : \A i \in DOMAIN revisions'[q] :
               revisions'[q][i].at # th[u].at
    BY <1>4, <2>1 DEF Building
  <2> QED
    BY <2>1, <2>2, <2>3, <2>4 DEF Building
<1>8. ASSUME th'[t].pc # "idle" PROVE Building(t)'
  <2>1. /\ th'[t].link = th[t].link /\ th'[t].at = th[t].at
        /\ th'[t].feedback = th[t].feedback /\ On(t)' = r
    BY <1>1, <1>2, <1>8 DEF Moves
  <2>2. \A e \in effects' : e.at = th[t].at => e.feedback = th[t].feedback
    BY <1>1, <1>3 DEF Building
  <2>3. th'[t].pc \in {"check", "record", "apply"} =>
           \A e \in effects' : e.at # th[t].at
    <3>1. th'[t].pc \in {"check", "record", "apply"} =>
             th[t].pc \in {"check", "record"}
      BY <1>1 DEF Moves, Quiet, QuietMoves, Saving, DecisionMoves, SavingMoves
    <3> QED
      BY <1>1, <1>3, <3>1 DEF Building
  <2>4. th'[t].pc \notin {"generated", "rendered", "deliver"} =>
           \A q \in Requests : \A i \in DOMAIN revisions'[q] :
               revisions'[q][i].at # th[t].at
    <3>1. th'[t].pc \notin {"generated", "rendered", "deliver"} =>
             th[t].pc \notin {"add", "generated", "rendered", "deliver"}
      BY <1>1, <1>8
         DEF Moves, Quiet, QuietMoves, Saving, DecisionMoves, SavingMoves
    <3> QED
      BY <1>1, <1>4, <3>1 DEF Building
  <2>5. th[t].feedback /\ th'[t].pc \in {"generate", "put", "add"} =>
           /\ revisions'[r] = revisions[r] /\ Len(revisions[r]) > 0
           /\ th'[t].pc \in {"put", "add"} => th'[t].basis = Len(revisions[r])
    <3> SUFFICES ASSUME th[t].feedback,
                        th'[t].pc \in {"generate", "put", "add"}
                 PROVE  /\ revisions'[r] = revisions[r] /\ Len(revisions[r]) > 0
                        /\ th'[t].pc \in {"put", "add"} =>
                              th'[t].basis = Len(revisions[r])
      OBVIOUS
    <3>1. \/ th[t].pc = "apply" /\ th'[t].pc = "generate"
          \/ th[t].pc = "generate" /\ th'[t].pc = "put"
          \/ th[t].pc = "put" /\ th'[t].pc = "add"
      BY <1>1 DEF Moves, Quiet, QuietMoves, Saving, DecisionMoves, SavingMoves
    <3>2. th[t].link.decision = "revise"
      BY <1>1 DEF Building
    <3>3. revisions' = revisions
      BY <1>1, <3>1, ThreadDocuments
    <3>4. Len(revisions[r]) > 0
      BY <1>0, <1>1, <3>1, <3>2, RevisedExists DEF Building
    <3>5. th'[t].pc \in {"put", "add"} => th'[t].basis = Len(revisions[r])
      BY <1>0, <1>1, <3>1, <3>2, ThreadHistory DEF Building, PromptBasis
    <3> QED
      BY <3>3, <3>4, <3>5
  <2>6. th'[t].feedback => th'[t].link.decision = "revise"
    BY <1>1, <2>1 DEF Building
  <2> QED
    BY <2>1, <2>2, <2>3, <2>4, <2>5, <2>6 DEF Building
<1>9. RevisionsBuildOnTheLast'
  <2> SUFFICES ASSUME NEW q \in Requests, NEW i \in DOMAIN revisions'[q],
                      NEW e \in effects', e.at = revisions'[q][i].at, e.feedback
               PROVE  i > 1 /\ revisions'[q][i].basis = i - 1
    BY DEF RevisionsBuildOnTheLast
  <2>1. CASE i \in DOMAIN revisions[q] /\ revisions'[q][i] = revisions[q][i]
    <3>1. e \in effects
      BY <1>1, <1>3, <2>1 DEF Building
    <3> QED
      BY <2>1, <3>1 DEF BuildInv, RevisionsBuildOnTheLast
  <2>2. CASE /\ th[t].pc = "add" /\ q = r /\ i = Len(revisions[r]) + 1
             /\ revisions'[q][i].at = th[t].at
             /\ revisions'[q][i].basis = th[t].basis
    <3>1. th[t].feedback
      BY <1>1, <1>3, <2>2 DEF Building
    <3>2. Len(revisions[r]) > 0 /\ th[t].basis = Len(revisions[r])
      BY <1>0, <1>1, <2>2, <3>1 DEF Building
    <3>3. Len(revisions[r]) \in Nat
      BY <1>1
    <3> QED
      BY <2>2, <3>2, <3>3
  <2> QED
    BY <1>4, <2>1, <2>2
<1> QED
  BY <1>5, <1>6, <1>7, <1>8, <1>9 DEF BuildInv

LEMMA BuildClick ==
    ASSUME BuildInv, NEW t \in Threads, NEW l \in links, NEW f \in BOOLEAN,
           Click(t, l, f), SInv', Stamped'
    PROVE  BuildInv'
<1>1. /\ TypeOK /\ clock \in Nat
      /\ \A e \in effects : e.at \in Nat /\ e.at <= clock
      /\ \A r \in Requests : \A i \in DOMAIN revisions[r] :
            revisions[r][i].at \in Nat /\ revisions[r][i].at <= clock
  <2>1. TypeOK
    BY DEF BuildInv, SInv, IInv
  <2>2. \A r \in Requests : \A i \in DOMAIN revisions[r] :
            revisions[r][i] \in Revision
    BY <2>1 DEF TypeOK
  <2> QED
    BY <2>1, <2>2 DEF BuildInv, TypeOK, Revision
<1>2. /\ \A u \in Threads : u # t => th'[u] = th[u]
      /\ UNCHANGED <<revisions, effects>> /\ clock' = clock + 1
      /\ th'[t].pc = "check" /\ th'[t].link = l /\ th'[t].at = clock + 1
      /\ th'[t].feedback => l.decision = "revise"
  <2> DEFINE h == [pc |-> "check", link |-> l,
                   feedback |-> f /\ l.decision = "revise",
                   rec |-> requests[l.request_id], at |-> clock + 1,
                   basis |-> 0]
  <2>1. th' = [th EXCEPT ![t] = h]
    BY DEF Click
  <2>2. /\ h.pc = "check" /\ h.link = l /\ h.at = clock + 1
        /\ h.feedback => l.decision = "revise"
    OBVIOUS
  <2> HIDE DEF h
  <2> QED
    BY <1>1, <2>1, <2>2 DEF TypeOK, Click
<1>3. ASSUME NEW u \in Threads, th'[u].pc # "idle" PROVE Building(u)'
  <2>1. CASE u = t
    <3>1. /\ \A e \in effects : e.at # clock + 1
          /\ \A r \in Requests : \A i \in DOMAIN revisions[r] :
                revisions[r][i].at # clock + 1
      BY <1>1
    <3> QED
      BY <1>2, <2>1, <3>1 DEF Building
  <2>2. CASE u # t
    BY <1>2, <1>3, <2>2 DEF BuildInv, Building, On
  <2> QED
    BY <2>1, <2>2
<1>4. /\ \A e \in effects : e.at <= clock + 1
      /\ \A r \in Requests : \A i \in DOMAIN revisions[r] :
            revisions[r][i].at <= clock + 1
  BY <1>1
<1>5. RevisionsBuildOnTheLast'
  BY <1>2 DEF BuildInv, RevisionsBuildOnTheLast
<1> QED
  BY <1>2, <1>3, <1>4, <1>5 DEF BuildInv

LEMMA BuildRest ==
    ASSUME BuildInv, SInv', Stamped',
           \/ \E r \in Requests : Receive(r) \/ IngestStep(r)
           \/ Expire \/ Restart \/ UNCHANGED vars
    PROVE  BuildInv'
<1>1. TypeOK /\ clock \in Nat
  BY DEF BuildInv, SInv, IInv, TypeOK
<1>2. CASE Restart
  <2>1. /\ \A t \in Threads : th'[t].pc = "idle"
        /\ \A r \in Requests : revisions'[r] = << >>
        /\ UNCHANGED <<effects, clock>>
    BY <1>2 DEF Restart, Idle
  <2> QED
    BY <2>1 DEF BuildInv, RevisionsBuildOnTheLast
<1>3. CASE ~Restart
  <2>1. /\ UNCHANGED <<th, revisions, effects>>
        /\ clock' = clock \/ clock' = clock + 1
    BY <1>3 DEF Receive, IngestStep, Advance, Classify, ClassifyRaises, Notify,
                Expire, vars
  <2>2. /\ \A e \in effects : e.at <= clock'
        /\ \A r \in Requests : \A i \in DOMAIN revisions[r] :
              revisions[r][i].at <= clock'
    <3>1. \A e \in effects : e.at \in Nat
      BY <1>1 DEF TypeOK
    <3>2. \A r \in Requests : \A i \in DOMAIN revisions[r] :
              revisions[r][i] \in Revision
      BY <1>1 DEF TypeOK
    <3>3. \A r \in Requests : \A i \in DOMAIN revisions[r] :
              revisions[r][i].at \in Nat
      BY <3>2 DEF Revision
    <3> QED
      BY <1>1, <2>1, <3>1, <3>3 DEF BuildInv
  <2> QED
    BY <2>1, <2>2 DEF BuildInv, Building, RevisionsBuildOnTheLast, On
<1> QED
  BY <1>2, <1>3

LEMMA BuildNext ==
    BuildInv /\ [Next /\ OneClickAtATime']_vars => BuildInv'
<1> SUFFICES ASSUME BuildInv, [Next /\ OneClickAtATime']_vars
             PROVE  BuildInv'
  OBVIOUS
<1>1. SInv' /\ Stamped'
  BY SerialNext, StampedNext DEF BuildInv, SInv
<1> QED
  BY <1>1, BuildThread, BuildClick, BuildRest DEF Next

\* "On a revision, the previous content and the owner's feedback are fed back"
\* (generator.py): the document made for a revision with feedback builds on the
\* revision right before it, whatever raises and whenever the process restarts.
THEOREM RevisionsBuildAlways == SerialSpec => []RevisionsBuildOnTheLast
<1>1. Init => BuildInv
  BY RefinesInit, StampedInit
     DEF Init, RInv, BuildInv, RevisionsBuildOnTheLast, Idle
<1>2. BuildInv => RevisionsBuildOnTheLast
  BY DEF BuildInv
<1> QED
  BY <1>1, <1>2, BuildNext, PTL DEF SerialSpec

=============================================================================
