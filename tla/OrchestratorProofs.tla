------------------------- MODULE OrchestratorProofs -------------------------
(***************************************************************************)
(* Proofs about Orchestrator for any sets of requests and threads.         *)
(***************************************************************************)
EXTENDS Orchestrator, TLAPS

\* A thread that is not idle has a complete set of local variables.
LEMMA BusyIsHandler ==
    ASSUME TypeOK, NEW t \in Threads, th[t].pc # "idle"
    PROVE  th[t] \in Handler
BY DEF TypeOK, Idle

\* An edge of the table leads to a state.
LEMMA EdgesTyped ==
    ASSUME NEW s, NEW g, NEW n, <<s, g, n>> \in TRANSITIONS
    PROVE  n \in RequestState
BY DEF TRANSITIONS, Edges, FailEdges, RequestState, TERMINAL_STATES

\* The links of a notification are well formed.
LEMMA LinksTyped ==
    ASSUME NEW r \in Requests, NEW i \in Intent, NEW at \in Nat, NEW no \in Nat
    PROVE  /\ classification_links(r, i, at) \subseteq Link
           /\ approval_links(r, i, at, no) \subseteq Link
BY DEF classification_links, approval_links, issue, Link, Intent, OwnerDecision

LEMMA SendTyped ==
    ASSUME TypeOK, NEW r \in Requests, NEW new \in SUBSET Link
    PROVE  /\ Send(new) \/ UNCHANGED links => links' \subseteq Link
           /\ EndSend(r) \/ SendRaises(r) \/ UNCHANGED raised =>
                 raised' \subseteq Requests
BY DEF TypeOK, Send, EndSend, SendRaises

LEMMA FilesTyped ==
    ASSUME NEW t \in Threads, th[t] \in Handler, On(t) \in Requests
    PROVE  Files(t) \in Artifact
BY DEF Files, Artifact, NextRevision, Handler, Record

LEMMA TypeInit == ConstantsAssumption /\ Init => TypeOK
BY DEF Init, TypeOK, Record, Absent, Intent, Ingest, IngestPC

LEMMA TypeReceive ==
    ASSUME TypeOK, NEW r \in Requests, Receive(r) PROVE TypeOK'
BY DEF TypeOK, Receive, Save, Record, RequestState, Intent, Ingest, IngestPC

LEMMA IngestTransitionTyped ==
    ASSUME TypeOK, NEW r \in Requests, NEW i \in Intent, NEW g,
           NEW pc \in IngestPC, IngestTransition(r, i, g, pc)
    PROVE  /\ requests' \in [Requests -> Record]
           /\ ingests' \in [Requests -> Ingest]
<1>1. PICK n \in RequestState :
         /\ requests' = [requests EXCEPT ![r] =
                [requests[r] EXCEPT !.state = n, !.intent = i]]
         /\ ingests' = [ingests EXCEPT ![r].pc = pc]
  BY DEF IngestTransition, Save
<1>2. [requests[r] EXCEPT !.state = n, !.intent = i] \in Record
  BY DEF TypeOK, Record
<1>3. requests' \in [Requests -> Record]
  BY <1>1, <1>2 DEF TypeOK
<1>4. ingests' \in [Requests -> Ingest]
  BY <1>1 DEF TypeOK, Ingest
<1> QED
  BY <1>3, <1>4

LEMMA TypeIngestStep ==
    ASSUME TypeOK, NEW r \in Requests, IngestStep(r) PROVE TypeOK'
<1>1. CASE Advance(r)
  <2>1. /\ requests' \in [Requests -> Record]
        /\ ingests' \in [Requests -> Ingest]
    BY <1>1, IngestTransitionTyped DEF Advance, Intent, IngestPC
  <2> QED
    BY <1>1, <2>1 DEF TypeOK, Advance
<1>2. CASE Classify(r)
  <2>1. /\ requests' \in [Requests -> Record]
        /\ ingests' \in [Requests -> Ingest]
    BY <1>2, IngestTransitionTyped DEF Classify, Intent, Actionable, IngestPC
  <2> QED
    BY <1>2, <2>1 DEF TypeOK, Classify
<1>3. CASE ClassifyRaises(r)
  BY <1>3 DEF TypeOK, ClassifyRaises, Ingest, IngestPC
<1>4. CASE Notify(r)
  <2>1. requests[r].intent \in Intent /\ ingests[r].at \in Nat
    BY DEF TypeOK, Record, Ingest
  <2>2. links' \subseteq Link /\ raised' \subseteq Requests
    BY <1>4, <2>1, LinksTyped, SendTyped, 0 \in Nat
       DEF Notify, notify_classification
  <2> QED
    BY <1>4, <2>2 DEF TypeOK, Notify, Ingest, IngestPC
<1> QED
  BY <1>1, <1>2, <1>3, <1>4 DEF IngestStep

LEMMA TypeClick ==
    ASSUME TypeOK, NEW t \in Threads, NEW l \in links, NEW f \in BOOLEAN,
           Click(t, l, f)
    PROVE  TypeOK'
<1>1. l \in Link /\ l.request_id \in Requests
  BY DEF TypeOK, Link
<1>2. (f /\ l.decision = "revise") \in BOOLEAN
  OBVIOUS
<1>3. requests[l.request_id] \in Record /\ clock + 1 \in Nat
  BY <1>1 DEF TypeOK
<1>4. th' \in [Threads -> Handler \cup {Idle}]
  BY <1>1, <1>2, <1>3 DEF TypeOK, Click, Handler, ThreadPC
<1> QED
  BY <1>3, <1>4 DEF TypeOK, Click

LEMMA ThreadTransitionTyped ==
    ASSUME TypeOK, NEW t \in Threads, th[t] \in Handler, NEW rec \in Record,
           NEW g, NEW pc \in ThreadPC, ThreadTransition(t, rec, g, pc)
    PROVE  /\ requests' \in [Requests -> Record]
           /\ th' \in [Threads -> Handler \cup {Idle}]
<1>1. PICK n \in RequestState :
         /\ requests' = [requests EXCEPT ![On(t)] = [rec EXCEPT !.state = n]]
         /\ th' = [th EXCEPT ![t].rec = [rec EXCEPT !.state = n],
                             ![t].pc = pc]
  BY DEF ThreadTransition, Save
<1>2. [rec EXCEPT !.state = n] \in Record
  BY DEF Record
<1>3. requests' \in [Requests -> Record]
  BY <1>1, <1>2 DEF TypeOK
<1>4. th' \in [Threads -> Handler \cup {Idle}]
  BY <1>1, <1>2 DEF TypeOK, Handler
<1> QED
  BY <1>3, <1>4

LEMMA GotoTyped ==
    ASSUME TypeOK, NEW t \in Threads, th[t] \in Handler, NEW pc \in ThreadPC,
           Goto(t, pc)
    PROVE  th' \in [Threads -> Handler \cup {Idle}]
BY DEF TypeOK, Goto, Handler

LEMMA ReturnTyped ==
    ASSUME TypeOK, NEW t \in Threads, Return(t)
    PROVE  th' \in [Threads -> Handler \cup {Idle}]
BY DEF TypeOK, Return

LEMMA TypeThreadStep ==
    ASSUME TypeOK, NEW t \in Threads, ThreadStep(t) PROVE TypeOK'
<1>0. th[t] \in Handler /\ On(t) \in Requests /\ th[t].rec \in Record
      /\ th[t].link \in Link /\ th[t].at \in Nat
  <2>1. th[t].pc # "idle"
    BY DEF ThreadStep, CheckInteraction, RecordInteraction, ApplyDecision,
       RefuseDecision, CorrectIntent, Renotify, Generate, Fail,
       StoreArtifacts, StoreRaises, AddRevision, Generated, Rendered, Deliver
  <2>2. th[t] \in Handler
    BY <2>1, BusyIsHandler
  <2> QED
    BY <2>2 DEF Handler, On, Link
<1>1. CASE CheckInteraction(t)
  BY <1>0, <1>1, GotoTyped, ReturnTyped DEF TypeOK, CheckInteraction, ThreadPC
<1>2. CASE RecordInteraction(t)
  BY <1>0, <1>2, GotoTyped DEF TypeOK, RecordInteraction, ThreadPC
<1>3. CASE ApplyDecision(t)
  <2> DEFINE d == th[t].link.decision
  <2>1. d \in OwnerDecision
    BY <1>0 DEF Link
  <2>2. PICK n \in RequestState :
           /\ Save(On(t), [th[t].rec EXCEPT !.state = n])
           /\ IF Continuation[d] = "return"
              THEN Return(t)
              ELSE th' = [th EXCEPT ![t].rec.state = n,
                                    ![t].pc = Continuation[d]]
    BY <1>3 DEF ApplyDecision
  <2>3. [th[t].rec EXCEPT !.state = n] \in Record
    BY <1>0 DEF Record
  <2>4. requests' \in [Requests -> Record]
    BY <1>0, <2>2, <2>3 DEF TypeOK, Save
  <2>5. Continuation[d] = "return" \/ Continuation[d] \in ThreadPC
    BY <2>1 DEF Continuation, OwnerDecision, ThreadPC
  <2>6. th' \in [Threads -> Handler \cup {Idle}]
    <3>1. CASE Continuation[d] = "return"
      BY <2>2, <3>1, ReturnTyped
    <3>2. CASE Continuation[d] # "return"
      <4> DEFINE h == [th[t] EXCEPT !.rec.state = n, !.pc = Continuation[d]]
      <4>1. th' = [th EXCEPT ![t] = h]
        BY <2>2, <3>2
      <4>2. h \in Handler
        BY <1>0, <2>3, <2>5, <3>2 DEF Handler
      <4> HIDE DEF h
      <4> QED
        BY <4>1, <4>2 DEF TypeOK
    <3> QED
      BY <3>1, <3>2
  <2>7. effects' \subseteq [link : Link, at : Nat, feedback : BOOLEAN]
    <3> DEFINE e == [link |-> th[t].link, at |-> th[t].at,
                     feedback |-> th[t].feedback]
    <3>1. e \in [link : Link, at : Nat, feedback : BOOLEAN]
      <4>1. th[t].link \in Link /\ th[t].at \in Nat
        BY <1>0
      <4>2. th[t].feedback \in BOOLEAN
        BY <1>0 DEF Handler
      <4> QED
        BY <4>1, <4>2
    <3>2. effects' = effects \cup {e}
      BY Zenon, <1>3 DEF ApplyDecision
    <3> QED
      BY <3>1, <3>2 DEF TypeOK
  <2> QED
    BY <1>3, <2>4, <2>6, <2>7 DEF TypeOK, ApplyDecision
<1>4. CASE RefuseDecision(t)
  BY <1>0, <1>4, ReturnTyped DEF TypeOK, RefuseDecision
<1>5. CASE CorrectIntent(t)
  <2> DEFINE rec == [th[t].rec EXCEPT !.intent = th[t].link.intent]
  <2>1. rec \in Record
    BY <1>0 DEF Record, Link
  <2>2. requests' \in [Requests -> Record]
    BY <1>0, <1>5, <2>1 DEF TypeOK, CorrectIntent, Save
  <2>3. th' \in [Threads -> Handler \cup {Idle}]
    <3>1. th' = [th EXCEPT ![t].rec = rec, ![t].pc = "renotify"]
      BY <1>5 DEF CorrectIntent
    <3> HIDE DEF rec
    <3> QED
      BY <1>0, <2>1, <3>1 DEF TypeOK, Handler, ThreadPC
  <2> QED
    BY <1>5, <2>2, <2>3 DEF TypeOK, CorrectIntent
<1>6. CASE Renotify(t)
  <2>1. th[t].rec.intent \in Intent
    BY <1>0 DEF Record
  <2>2. links' \subseteq Link /\ raised' \subseteq Requests
    BY <1>0, <1>6, <2>1, LinksTyped, SendTyped, 0 \in Nat
       DEF Renotify, notify_classification
  <2> QED
    BY <1>6, <2>2, ReturnTyped DEF TypeOK, Renotify
<1>7. CASE Generate(t)
  <2>1. Len(revisions[On(t)]) \in Nat
    BY <1>0 DEF TypeOK
  <2>2. PICK b \in Nat, pc \in {"put", "fail"} :
           th' = [th EXCEPT ![t].basis = b, ![t].pc = pc]
    BY <1>7, <2>1 DEF Generate, PromptBasis, GenerateOutcome
  <2>3. th' \in [Threads -> Handler \cup {Idle}]
    BY <1>0, <2>2 DEF TypeOK, Handler, ThreadPC
  <2> QED
    BY <1>7, <2>3 DEF TypeOK, Generate
<1>8. CASE Fail(t)
  <2>1. [th[t].rec EXCEPT !.state = "failed"] \in Record
    BY <1>0 DEF Record, RequestState
  <2>2. requests' \in [Requests -> Record]
    BY <1>0, <1>8, <2>1 DEF TypeOK, Fail, Save
  <2> QED
    BY <1>0, <1>8, <2>2, ReturnTyped DEF TypeOK, Fail
<1>9. CASE StoreArtifacts(t)
  <2>1. artifacts' \subseteq Artifact
    BY <1>0, <1>9, FilesTyped DEF TypeOK, StoreArtifacts, OtherFiles
  <2> QED
    BY <1>0, <1>9, <2>1, GotoTyped DEF TypeOK, StoreArtifacts, ThreadPC
<1>10. CASE StoreRaises(t)
  <2>1. artifacts' \subseteq Artifact
    BY <1>0, <1>10, FilesTyped DEF TypeOK, StoreRaises, OtherFiles
  <2> QED
    BY <1>0, <1>10, <2>1, ReturnTyped DEF TypeOK, StoreRaises
<1>11. CASE AddRevision(t)
  <2> DEFINE rv == [revision_no |-> NextRevision(t), at |-> th[t].at,
                    intent |-> th[t].rec.intent, basis |-> th[t].basis]
  <2>1. rv \in Revision
    BY <1>0 DEF NextRevision, Record, Handler, Revision
  <2>2. revisions' = [revisions EXCEPT ![On(t)] = Append(revisions[On(t)], rv)]
    BY <1>11 DEF AddRevision
  <2>3. revisions' \in [Requests -> Seq(Revision)]
    <3> HIDE DEF rv
    <3> QED
      BY <1>0, <2>1, <2>2 DEF TypeOK
  <2> QED
    BY <1>0, <1>11, <2>3, GotoTyped DEF TypeOK, AddRevision, ThreadPC
<1>12. CASE Generated(t)
  <2>1. [th[t].rec EXCEPT !.current_revision = @ + 1] \in Record
    BY <1>0 DEF Record
  <2>2. /\ requests' \in [Requests -> Record]
        /\ th' \in [Threads -> Handler \cup {Idle}]
    BY <1>0, <1>12, <2>1, ThreadTransitionTyped DEF Generated, ThreadPC
  <2> QED
    BY <1>12, <2>2 DEF TypeOK, Generated
<1>13. CASE Rendered(t)
  <2>1. /\ requests' \in [Requests -> Record]
        /\ th' \in [Threads -> Handler \cup {Idle}]
    BY <1>0, <1>13, ThreadTransitionTyped DEF Rendered, ThreadPC
  <2> QED
    BY <1>13, <2>1 DEF TypeOK, Rendered
<1>14. CASE Deliver(t)
  <2>1. th[t].rec.intent \in Intent /\ th[t].rec.current_revision \in Nat
    BY <1>0 DEF Record
  <2>2. links' \subseteq Link /\ raised' \subseteq Requests
    BY <1>0, <1>14, <2>1, LinksTyped, SendTyped
       DEF Deliver, deliver_document
  <2> QED
    BY <1>14, <2>2, ReturnTyped DEF TypeOK, Deliver
<1> QED
  BY <1>1, <1>2, <1>3, <1>4, <1>5, <1>6, <1>7, <1>8, <1>9, <1>10, <1>11,
     <1>12, <1>13, <1>14 DEF ThreadStep

LEMMA TypeEnvironment ==
    ASSUME TypeOK, Expire \/ Restart PROVE TypeOK'
<1>1. CASE Expire
  BY <1>1 DEF TypeOK, Expire
<1>2. CASE Restart
  <2>1. Absent \in Record
    BY DEF Absent, Record, Intent
  <2>2. \A r \in Requests : [ingests[r] EXCEPT !.pc = "done"] \in Ingest
    BY DEF TypeOK, Ingest, IngestPC
  <2> QED
    BY <1>2, <2>1, <2>2 DEF TypeOK, Restart
<1> QED
  BY <1>1, <1>2

LEMMA TypeNext == TypeOK /\ [Next]_vars => TypeOK'
<1> SUFFICES ASSUME TypeOK, [Next]_vars PROVE TypeOK'
  OBVIOUS
<1>1. CASE UNCHANGED vars
  BY <1>1 DEF TypeOK, vars
<1>2. CASE Next
  BY <1>2, TypeReceive, TypeIngestStep, TypeThreadStep, TypeClick,
     TypeEnvironment DEF Next
<1> QED
  BY <1>1, <1>2

\* The repository, the mailbox and the handlers keep their types in every
\* behaviour of the code, for any number of requests and threads.
THEOREM TypeCorrect == Spec => []TypeOK
<1>1. Init => TypeOK
  BY TypeInit, ConstantsAssumption
<1> QED
  BY <1>1, TypeNext, PTL DEF Spec

-----------------------------------------------------------------------------
(* The inductive invariant behind the properties that hold in every        *)
(* interleaving, with every fault and restart.                             *)

\* What the record rec of r says is backed by its revisions and by the links
\* used. It holds of the saved record and of every thread's copy: revisions
\* and interactions only grow while the process lives, so a stale copy stays
\* backed.
Backed(r, rec, revs, used) ==
    /\ rec.state # "absent"
    /\ rec.state \in ReviewStates => HasDocument(rec, revs)
    /\ rec.state \in ReviewStates \cup {"generating"} => ConfirmedBy(r, used)
    /\ rec.state \in ReviewStates \cup {"generating", "awaiting_classification"}
          => rec.intent \in Actionable

\* The copy of a thread that is about to number its document.
Numbered(rec) == [rec EXCEPT !.current_revision = @ + 1]

LinkSound(l) == l.decision = "correct" => l.intent \in Actionable

ThreadSound(t) ==
    /\ Backed(On(t), th[t].rec, revisions[On(t)], interactions)
    /\ LinkSound(th[t].link)
    /\ th[t].pc \notin {"check", "record"} => th[t].link \in interactions
    /\ th[t].pc \in {"correct", "renotify"} =>
          /\ th[t].link.decision = "correct"
          /\ th[t].rec.state = "awaiting_classification"
    /\ th[t].pc \in {"generate", "fail", "put", "add", "generated"} =>
          th[t].rec.state = "generating"
    /\ th[t].pc = "generated" =>
          HasDocument(Numbered(th[t].rec), revisions[On(t)])
    /\ th[t].pc = "rendered" => th[t].rec.state = "rendering"

\* A link or a click of r exists only after ingest is through with r.
AfterIngest ==
    \A r \in Requests : ingests[r].pc \notin {"sent", "done"} =>
        /\ \A l \in links : l.request_id # r
        /\ \A t \in Threads : th[t].pc # "idle" => On(t) # r

IInv ==
    /\ TypeOK
    /\ AfterIngest
    /\ DocumentsAreConfirmed
    /\ \A l \in links : LinkSound(l)
    /\ \A r \in Requests : requests[r].state # "absent" =>
          Backed(r, requests[r], revisions[r], interactions)
    /\ \A t \in Threads : th[t].pc # "idle" => ThreadSound(t)

Extends(s, z) == \A i \in DOMAIN s : i \in DOMAIN z /\ z[i] = s[i]

\* Steps of a living process forget neither revisions nor interactions.
Grows ==
    /\ interactions \subseteq interactions'
    /\ \A r \in Requests : Extends(revisions[r], revisions'[r])

LEMMA DocumentStays ==
    ASSUME NEW rec, NEW s, NEW z, Extends(s, z), HasDocument(rec, s)
    PROVE  HasDocument(rec, z)
BY DEF Extends, HasDocument

LEMMA BackedStays ==
    ASSUME NEW r, NEW rec, NEW s, NEW z, NEW used, NEW used2,
           Extends(s, z), used \subseteq used2, Backed(r, rec, s, used)
    PROVE  Backed(r, rec, z, used2)
BY DocumentStays DEF Backed, ConfirmedBy

\* A thread that does not move stays sound.
LEMMA ThreadStays ==
    ASSUME IInv, Grows, NEW u \in Threads, th'[u] = th[u], th[u].pc # "idle"
    PROVE  ThreadSound(u)'
<1>1. ThreadSound(u) /\ On(u) \in Requests
  BY BusyIsHandler DEF IInv, Handler, Link, On
<1>2. On(u)' = On(u)
  BY DEF On
<1>3. Backed(On(u), th[u].rec, revisions'[On(u)], interactions')
  BY <1>1, BackedStays DEF ThreadSound, Grows
<1>4. th[u].pc = "generated" =>
         HasDocument(Numbered(th[u].rec), revisions'[On(u)])
  BY <1>1, DocumentStays DEF ThreadSound, Grows
<1>5. interactions \subseteq interactions'
  BY DEF Grows
<1> QED
  BY <1>1, <1>2, <1>3, <1>4, <1>5 DEF ThreadSound

\* A saved record that is not written stays backed.
LEMMA RecordStays ==
    ASSUME IInv, Grows, NEW r \in Requests, requests'[r] = requests[r],
           requests[r].state # "absent"
    PROVE  Backed(r, requests'[r], revisions'[r], interactions')
BY BackedStays DEF IInv, Grows

\* What a step of thread t has to establish.
LEMMA ThreadStepSound ==
    ASSUME IInv, TypeOK', Grows, DocumentsAreConfirmed', UNCHANGED ingests,
           NEW t \in Threads, th[t].pc # "idle",
           \A u \in Threads : u # t => th'[u] = th[u],
           th'[t].pc # "idle" => ThreadSound(t)' /\ On(t)' = On(t),
           \A r \in Requests : \/ requests'[r] = requests[r]
                               \/ Backed(r, requests'[r], revisions'[r],
                                         interactions'),
           \A l \in links' : l \in links \/ (LinkSound(l) /\ l.request_id = On(t))
    PROVE  IInv'
<1>1. \A u \in Threads : th'[u].pc # "idle" => ThreadSound(u)'
  BY ThreadStays
<1>2. \A r \in Requests : requests'[r].state # "absent" =>
         Backed(r, requests'[r], revisions'[r], interactions')
  BY RecordStays
<1>3. \A l \in links' : LinkSound(l)
  BY DEF IInv
<1>4. AfterIngest'
  BY DEF IInv, AfterIngest, On
<1> QED
  BY <1>1, <1>2, <1>3, <1>4 DEF IInv

\* The edges of the owner's decisions.
LEMMA DecisionEdges ==
    ASSUME NEW d \in OwnerDecision, NEW s, NEW n,
           <<s, trigger_for[d], n>> \in TRANSITIONS
    PROVE  \/ /\ d = "confirm" /\ s = "awaiting_classification"
              /\ n = "generating"
           \/ /\ d = "correct" /\ s = "awaiting_classification"
              /\ n = "awaiting_classification"
           \/ /\ d = "reject" /\ s = "awaiting_classification"
              /\ n = "discarded"
           \/ d = "approve" /\ s = "awaiting_approval" /\ n = "completed"
           \/ d = "revise" /\ s = "awaiting_approval" /\ n = "generating"
BY DEF OwnerDecision, trigger_for, TRANSITIONS, Edges, FailEdges

\* The edges of the service's own triggers.
LEMMA ServiceEdges ==
    ASSUME NEW s, NEW n
    PROVE  /\ <<s, "start_aggregation", n>> \in TRANSITIONS =>
                 s = "received" /\ n = "aggregating"
           /\ <<s, "window_closed", n>> \in TRANSITIONS =>
                 s = "aggregating" /\ n = "processing_media"
           /\ <<s, "media_processed", n>> \in TRANSITIONS =>
                 s = "processing_media" /\ n = "classifying"
           /\ <<s, "classified_actionable", n>> \in TRANSITIONS =>
                 s = "classifying" /\ n = "awaiting_classification"
           /\ <<s, "classified_none", n>> \in TRANSITIONS =>
                 s = "classifying" /\ n = "discarded"
           /\ <<s, "generated", n>> \in TRANSITIONS =>
                 s = "generating" /\ n = "rendering"
           /\ <<s, "rendered", n>> \in TRANSITIONS =>
                 s = "rendering" /\ n = "awaiting_approval"
BY DEF TRANSITIONS, Edges, FailEdges

LEMMA QuietGrows ==
    ASSUME UNCHANGED revisions, interactions \subseteq interactions',
           DocumentsAreConfirmed
    PROVE  Grows /\ DocumentsAreConfirmed'
BY DEF Grows, Extends, DocumentsAreConfirmed, ConfirmedBy

\* A thread that moves with its link and copy unchanged keeps them sound.
LEMMA CopyStays ==
    ASSUME IInv, Grows, NEW t \in Threads, th[t].pc # "idle",
           th'[t].link = th[t].link, th'[t].rec = th[t].rec
    PROVE  /\ On(t)' = On(t)
           /\ Backed(On(t), th[t].rec, revisions[On(t)], interactions)'
           /\ LinkSound(th[t].link)'
<1>1. ThreadSound(t) /\ On(t) \in Requests
  BY BusyIsHandler DEF IInv, Handler, Link, On
<1>2. On(t)' = On(t)
  BY DEF On
<1>3. Backed(On(t), th[t].rec, revisions'[On(t)], interactions')
  BY <1>1, BackedStays DEF ThreadSound, Grows
<1> QED
  BY <1>1, <1>2, <1>3 DEF ThreadSound, LinkSound

LEMMA NotificationLinks ==
    ASSUME NEW r, NEW i, NEW at, NEW no,
           NEW l \in classification_links(r, i, at) \cup approval_links(r, i, at, no)
    PROVE  LinkSound(l) /\ l.request_id = r
BY DEF classification_links, approval_links, issue, LinkSound, Actionable, Intent

LEMMA SentLinks ==
    ASSUME NEW new, Send(new), NEW l \in links'
    PROVE  l \in links \/ l \in new
BY DEF Send

\* Facts about the thread that takes a step.
LEMMA StepFacts ==
    ASSUME IInv, NEW t \in Threads, ThreadStep(t)
    PROVE  /\ th[t].pc # "idle" /\ th[t] \in Handler /\ On(t) \in Requests
           /\ th[t].rec \in Record /\ th[t].link \in Link /\ th[t].at \in Nat
           /\ ThreadSound(t) /\ TypeOK /\ TypeOK' /\ UNCHANGED ingests
<1>1. th[t].pc # "idle" /\ UNCHANGED ingests
  BY DEF ThreadStep, CheckInteraction, RecordInteraction, ApplyDecision,
     RefuseDecision, CorrectIntent, Renotify, Generate, Fail,
     StoreArtifacts, StoreRaises, AddRevision, Generated, Rendered, Deliver
<1>2. th[t] \in Handler
  BY <1>1, BusyIsHandler DEF IInv
<1> QED
  BY <1>1, <1>2, TypeThreadStep DEF Handler, On, Link, IInv

\* The steps that only read, record or return.
LEMMA SoundCheck ==
    ASSUME IInv, NEW t \in Threads, ThreadStep(t),
           \/ CheckInteraction(t) \/ RecordInteraction(t) \/ RefuseDecision(t)
           \/ Generate(t) \/ StoreArtifacts(t) \/ StoreRaises(t)
    PROVE  IInv'
<1>0. /\ th[t].pc # "idle" /\ th[t] \in Handler /\ On(t) \in Requests
      /\ ThreadSound(t) /\ TypeOK /\ TypeOK' /\ UNCHANGED ingests
  BY StepFacts
<1>1. UNCHANGED <<requests, revisions, links>> /\ interactions \subseteq interactions'
  BY DEF CheckInteraction, RecordInteraction, RefuseDecision, Generate,
         StoreArtifacts, StoreRaises
<1>2. Grows /\ DocumentsAreConfirmed'
  BY <1>1, QuietGrows DEF IInv
<1>3. \A u \in Threads : u # t => th'[u] = th[u]
  BY <1>0 DEF CheckInteraction, RecordInteraction, RefuseDecision, Generate,
         StoreArtifacts, StoreRaises, Goto, Return, TypeOK
<1>4. th'[t].pc # "idle" => ThreadSound(t)' /\ On(t)' = On(t)
  <2> SUFFICES ASSUME th'[t].pc # "idle" PROVE ThreadSound(t)' /\ On(t)' = On(t)
    OBVIOUS
  <2>1. th'[t].link = th[t].link /\ th'[t].rec = th[t].rec
    BY <1>0 DEF CheckInteraction, RecordInteraction, RefuseDecision, Generate,
         StoreArtifacts, StoreRaises, Goto, Return, TypeOK, Handler, Idle
  <2>2. /\ On(t)' = On(t)
        /\ Backed(On(t), th[t].rec, revisions[On(t)], interactions)'
        /\ LinkSound(th[t].link)'
    BY <1>0, <1>2, <2>1, CopyStays
  <2>3. \/ th[t].pc = "check" /\ th'[t].pc = "record"
        \/ /\ th[t].pc = "record" /\ th'[t].pc = "apply"
           /\ th[t].link \in interactions'
        \/ th[t].pc = "generate" /\ th'[t].pc \in {"put", "fail"}
        \/ th[t].pc = "put" /\ th'[t].pc = "add"
    BY <1>0 DEF CheckInteraction, RecordInteraction, RefuseDecision, Generate,
         StoreArtifacts, StoreRaises, Goto, Return, TypeOK, Handler, Idle,
         GenerateOutcome
  <2>4. /\ th[t].pc \notin {"check", "record"} => th[t].link \in interactions
        /\ th[t].pc \in {"generate", "put"} => th[t].rec.state = "generating"
    BY <1>0 DEF ThreadSound
  <2> QED
    BY <1>1, <2>1, <2>2, <2>3, <2>4 DEF ThreadSound
<1>5. \A r \in Requests : \/ requests'[r] = requests[r]
                          \/ Backed(r, requests'[r], revisions'[r],
                                    interactions')
  BY <1>1
<1>6. \A l \in links' : l \in links \/ (LinkSound(l) /\ l.request_id = On(t))
  BY <1>1
<1> QED
  BY <1>0, <1>2, <1>3, <1>4, <1>5, <1>6, ThreadStepSound

\* A thread t that is backed saves the record rec and returns or moves to pc
\* with rec as its copy.
LEMMA SoundSave ==
    ASSUME IInv, NEW t \in Threads, ThreadStep(t),
           UNCHANGED <<revisions, interactions, links>>, NEW rec, NEW pc,
           Save(On(t), rec),
           Backed(On(t), rec, revisions[On(t)], interactions),
           \/ Return(t)
           \/ /\ th' = [th EXCEPT ![t] = [th[t] EXCEPT !.rec = rec, !.pc = pc]]
              /\ th[t].link \in interactions
              /\ \/ /\ pc \in {"correct", "renotify"}
                    /\ th[t].link.decision = "correct"
                    /\ rec.state = "awaiting_classification"
                 \/ pc = "generate" /\ rec.state = "generating"
                 \/ pc = "rendered" /\ rec.state = "rendering"
                 \/ pc = "deliver"
    PROVE  IInv'
<1>0. /\ th[t].pc # "idle" /\ th[t] \in Handler /\ On(t) \in Requests
      /\ ThreadSound(t) /\ TypeOK /\ TypeOK' /\ UNCHANGED ingests
  BY StepFacts
<1>2. Grows /\ DocumentsAreConfirmed'
  BY QuietGrows DEF IInv
<1>3. \A u \in Threads : u # t => th'[u] = th[u]
  BY <1>0 DEF Return, TypeOK
<1>4. th'[t].pc # "idle" => ThreadSound(t)' /\ On(t)' = On(t)
  <2> SUFFICES ASSUME th'[t].pc # "idle" PROVE ThreadSound(t)' /\ On(t)' = On(t)
    OBVIOUS
  <2>1. ~Return(t)
    BY <1>0 DEF Return, Idle, TypeOK
  <2>2. th'[t] = [th[t] EXCEPT !.rec = rec, !.pc = pc]
    BY <1>0, <2>1 DEF TypeOK
  <2>3. th'[t].link = th[t].link /\ th'[t].rec = rec /\ th'[t].pc = pc
    BY <1>0, <2>2 DEF Handler
  <2>4. On(t)' = On(t)
    BY <2>3 DEF On
  <2> QED
    BY <1>0, <2>1, <2>3, <2>4 DEF ThreadSound, LinkSound
<1>5. \A r \in Requests : \/ requests'[r] = requests[r]
                          \/ Backed(r, requests'[r], revisions'[r],
                                    interactions')
  BY <1>0 DEF Save, TypeOK
<1>6. \A l \in links' : l \in links \/ (LinkSound(l) /\ l.request_id = On(t))
  OBVIOUS
<1> QED
  BY <1>0, <1>2, <1>3, <1>4, <1>5, <1>6, ThreadStepSound

LEMMA SoundApply ==
    ASSUME IInv, NEW t \in Threads, ThreadStep(t), ApplyDecision(t)
    PROVE  IInv'
<1> DEFINE d == th[t].link.decision
           s == th[t].rec.state
<1>0. /\ th[t] \in Handler /\ th[t].rec \in Record /\ d \in OwnerDecision
      /\ ThreadSound(t) /\ TypeOK
  BY StepFacts DEF Link
<1>1. PICK n \in RequestState :
         /\ <<s, trigger_for[d], n>> \in TRANSITIONS
         /\ Save(On(t), [th[t].rec EXCEPT !.state = n])
         /\ IF Continuation[d] = "return"
            THEN Return(t)
            ELSE th' = [th EXCEPT ![t].rec.state = n, ![t].pc = Continuation[d]]
  BY DEF ApplyDecision
<1> DEFINE rec == [th[t].rec EXCEPT !.state = n]
<1>2. th[t].link \in interactions /\ UNCHANGED <<revisions, interactions, links>>
  BY <1>0 DEF ApplyDecision, ThreadSound
<1>3. /\ rec.state = n /\ rec.intent = th[t].rec.intent
      /\ rec.current_revision = th[t].rec.current_revision
  BY <1>0 DEF Record
<1>4. Backed(On(t), th[t].rec, revisions[On(t)], interactions)
  BY <1>0 DEF ThreadSound
<1>5. Backed(On(t), rec, revisions[On(t)], interactions)
  <2>1. CASE d = "confirm" /\ s = "awaiting_classification" /\ n = "generating"
    <3>1. ConfirmedBy(On(t), interactions)
      BY <1>2, <2>1 DEF ConfirmedBy, On
    <3> QED
      BY <1>3, <1>4, <2>1, <3>1 DEF Backed, ReviewStates
  <2>2. CASE /\ d = "correct" /\ s = "awaiting_classification"
             /\ n = "awaiting_classification"
    BY <1>3, <1>4, <2>2 DEF Backed, ReviewStates
  <2>3. CASE n = "discarded"
    BY <1>3, <1>4, <2>3 DEF Backed, ReviewStates
  <2>4. CASE s = "awaiting_approval" /\ n \in {"completed", "generating"}
    <3>1. HasDocument(th[t].rec, revisions[On(t)]) =>
             HasDocument(rec, revisions[On(t)])
      BY <1>3 DEF HasDocument
    <3> QED
      BY <1>3, <1>4, <2>4, <3>1 DEF Backed, ReviewStates
  <2> QED
    BY <1>0, <1>1, <2>1, <2>2, <2>3, <2>4, DecisionEdges
<1>6. \/ Return(t)
      \/ /\ th' = [th EXCEPT ![t] = [th[t] EXCEPT !.rec = rec,
                                                  !.pc = Continuation[d]]]
         /\ \/ /\ Continuation[d] = "correct"
               /\ d = "correct" /\ n = "awaiting_classification"
            \/ Continuation[d] = "generate" /\ n = "generating"
  <2>1. CASE d \in {"reject", "approve"}
    BY <1>1, <2>1 DEF Continuation
  <2>2. CASE d \notin {"reject", "approve"}
    <3>1. /\ Continuation[d] # "return"
          /\ \/ /\ Continuation[d] = "correct"
                /\ d = "correct" /\ n = "awaiting_classification"
             \/ Continuation[d] = "generate" /\ n = "generating"
      BY <1>0, <1>1, <2>2, DecisionEdges DEF Continuation, OwnerDecision
    <3>2. [th[t] EXCEPT !.rec.state = n, !.pc = Continuation[d]]
             = [th[t] EXCEPT !.rec = rec, !.pc = Continuation[d]]
      BY <1>0 DEF Handler
    <3> QED
      BY <1>0, <1>1, <3>1, <3>2 DEF TypeOK
  <2> QED
    BY <2>1, <2>2
<1> HIDE DEF rec, d
<1>7. Save(On(t), rec)
  BY <1>1 DEF rec
<1> QED
  BY <1>2, <1>3, <1>5, <1>6, <1>7, SoundSave DEF d

LEMMA SoundCorrect ==
    ASSUME IInv, NEW t \in Threads, ThreadStep(t), CorrectIntent(t)
    PROVE  IInv'
<1> DEFINE rec == [th[t].rec EXCEPT !.intent = th[t].link.intent]
<1>0. /\ th[t] \in Handler /\ th[t].rec \in Record /\ ThreadSound(t) /\ TypeOK
      /\ th[t].pc = "correct"
  BY StepFacts DEF CorrectIntent
<1>1. /\ th[t].link \in interactions /\ th[t].link.decision = "correct"
      /\ th[t].rec.state = "awaiting_classification"
      /\ th[t].link.intent \in Actionable
  BY <1>0 DEF ThreadSound, LinkSound
<1>2. rec.state = "awaiting_classification" /\ rec.intent = th[t].link.intent
  BY <1>0, <1>1 DEF Record
<1>3. Backed(On(t), rec, revisions[On(t)], interactions)
  BY <1>1, <1>2 DEF Backed, ReviewStates
<1>4. /\ Save(On(t), rec) /\ UNCHANGED <<revisions, interactions, links>>
      /\ th' = [th EXCEPT ![t] = [th[t] EXCEPT !.rec = rec, !.pc = "renotify"]]
  BY <1>0 DEF CorrectIntent, TypeOK
<1> HIDE DEF rec
<1> QED
  BY <1>1, <1>2, <1>3, <1>4, SoundSave

LEMMA SoundFail ==
    ASSUME IInv, NEW t \in Threads, ThreadStep(t), Fail(t)
    PROVE  IInv'
<1> DEFINE rec == [th[t].rec EXCEPT !.state = "failed"]
<1>1. rec.state = "failed"
  BY StepFacts DEF Record
<1>2. Backed(On(t), rec, revisions[On(t)], interactions)
  BY <1>1 DEF Backed, ReviewStates
<1>3. /\ Save(On(t), rec) /\ Return(t)
      /\ UNCHANGED <<revisions, interactions, links>>
  BY DEF Fail
<1> HIDE DEF rec
<1> QED
  BY <1>2, <1>3, SoundSave

LEMMA SoundGenerated ==
    ASSUME IInv, NEW t \in Threads, ThreadStep(t), Generated(t)
    PROVE  IInv'
<1>0. /\ th[t] \in Handler /\ th[t].rec \in Record /\ ThreadSound(t) /\ TypeOK
      /\ th[t].pc = "generated"
  BY StepFacts DEF Generated
<1>1. /\ th[t].link \in interactions /\ th[t].rec.state = "generating"
      /\ HasDocument(Numbered(th[t].rec), revisions[On(t)])
      /\ Backed(On(t), th[t].rec, revisions[On(t)], interactions)
  BY <1>0 DEF ThreadSound
<1>2. PICK n \in RequestState :
         /\ <<Numbered(th[t].rec).state, "generated", n>> \in TRANSITIONS
         /\ Save(On(t), [Numbered(th[t].rec) EXCEPT !.state = n])
         /\ th' = [th EXCEPT ![t].rec = [Numbered(th[t].rec) EXCEPT !.state = n],
                             ![t].pc = "rendered"]
  BY DEF Generated, ThreadTransition, Numbered
<1>3. n = "rendering"
  BY <1>2, ServiceEdges
<1> DEFINE rec == [Numbered(th[t].rec) EXCEPT !.state = n]
<1>4. /\ rec.state = n /\ rec.intent = th[t].rec.intent
      /\ rec.intent = Numbered(th[t].rec).intent
      /\ rec.current_revision = Numbered(th[t].rec).current_revision
  BY <1>0 DEF Record, Numbered
<1>5. HasDocument(rec, revisions[On(t)])
  BY <1>1, <1>4 DEF HasDocument
<1>6. Backed(On(t), rec, revisions[On(t)], interactions)
  BY <1>1, <1>3, <1>4, <1>5 DEF Backed, ReviewStates
<1>7. /\ Save(On(t), rec) /\ UNCHANGED <<revisions, interactions, links>>
      /\ th' = [th EXCEPT ![t] = [th[t] EXCEPT !.rec = rec, !.pc = "rendered"]]
  BY <1>0, <1>2 DEF Generated, TypeOK
<1> HIDE DEF rec
<1> QED
  BY <1>1, <1>3, <1>4, <1>6, <1>7, SoundSave

LEMMA SoundRendered ==
    ASSUME IInv, NEW t \in Threads, ThreadStep(t), Rendered(t)
    PROVE  IInv'
<1>0. /\ th[t] \in Handler /\ th[t].rec \in Record /\ ThreadSound(t) /\ TypeOK
      /\ th[t].pc = "rendered"
  BY StepFacts DEF Rendered
<1>1. /\ th[t].link \in interactions /\ th[t].rec.state = "rendering"
      /\ Backed(On(t), th[t].rec, revisions[On(t)], interactions)
  BY <1>0 DEF ThreadSound
<1>2. PICK n \in RequestState :
         /\ <<th[t].rec.state, "rendered", n>> \in TRANSITIONS
         /\ Save(On(t), [th[t].rec EXCEPT !.state = n])
         /\ th' = [th EXCEPT ![t].rec = [th[t].rec EXCEPT !.state = n],
                             ![t].pc = "deliver"]
  BY DEF Rendered, ThreadTransition
<1>3. n = "awaiting_approval"
  BY <1>2, ServiceEdges
<1> DEFINE rec == [th[t].rec EXCEPT !.state = n]
<1>4. /\ rec.state = n /\ rec.intent = th[t].rec.intent
      /\ rec.current_revision = th[t].rec.current_revision
  BY <1>0 DEF Record
<1>5. HasDocument(rec, revisions[On(t)])
  BY <1>1, <1>4 DEF HasDocument, Backed, ReviewStates
<1>6. Backed(On(t), rec, revisions[On(t)], interactions)
  BY <1>1, <1>3, <1>4, <1>5 DEF Backed, ReviewStates
<1>7. /\ Save(On(t), rec) /\ UNCHANGED <<revisions, interactions, links>>
      /\ th' = [th EXCEPT ![t] = [th[t] EXCEPT !.rec = rec, !.pc = "deliver"]]
  BY <1>0, <1>2 DEF Rendered, TypeOK
<1> HIDE DEF rec
<1> QED
  BY <1>1, <1>6, <1>7, SoundSave

\* The steps that send links and return.
LEMMA SoundNotification ==
    ASSUME IInv, NEW t \in Threads, ThreadStep(t), Renotify(t) \/ Deliver(t)
    PROVE  IInv'
<1>0. /\ th[t].pc # "idle" /\ TypeOK /\ TypeOK' /\ UNCHANGED ingests
  BY StepFacts
<1>1. /\ Return(t) /\ UNCHANGED <<requests, revisions, interactions>>
  BY DEF Renotify, Deliver
<1>2. Grows /\ DocumentsAreConfirmed'
  BY <1>1, QuietGrows DEF IInv
<1>3. /\ \A u \in Threads : u # t => th'[u] = th[u]
      /\ th'[t].pc = "idle"
  BY <1>0, <1>1 DEF Return, TypeOK, Idle
<1>4. \A l \in links' : l \in links \/ (LinkSound(l) /\ l.request_id = On(t))
  BY SentLinks, NotificationLinks
     DEF Renotify, Deliver, notify_classification, deliver_document
<1>5. \A r \in Requests : \/ requests'[r] = requests[r]
                          \/ Backed(r, requests'[r], revisions'[r],
                                    interactions')
  BY <1>1
<1> QED
  BY <1>0, <1>2, <1>3, <1>4, <1>5, ThreadStepSound

LEMMA SoundAdd ==
    ASSUME IInv, NEW t \in Threads, ThreadStep(t), AddRevision(t)
    PROVE  IInv'
<1> DEFINE rv == [revision_no |-> NextRevision(t), at |-> th[t].at,
                  intent |-> th[t].rec.intent, basis |-> th[t].basis]
           old == revisions[On(t)]
           new == Append(old, rv)
<1>0. /\ th[t].pc = "add" /\ th[t] \in Handler /\ On(t) \in Requests
      /\ th[t].rec \in Record
      /\ ThreadSound(t) /\ TypeOK /\ TypeOK' /\ UNCHANGED ingests
  BY StepFacts DEF AddRevision
<1>1. /\ revisions' = [revisions EXCEPT ![On(t)] = new]
      /\ UNCHANGED <<requests, interactions, links>> /\ Goto(t, "generated")
  BY DEF AddRevision
<1>2. old \in Seq(Revision) /\ rv \in Revision
  <2>1. old \in Seq(Revision)
    BY <1>0 DEF TypeOK
  <2>2. rv \in Revision
    BY <1>0 DEF NextRevision, Record, Handler, Revision
  <2> QED
    BY <2>1, <2>2
<1>3. /\ Extends(old, new) /\ Len(old) + 1 \in DOMAIN new
      /\ new[Len(old) + 1] = rv
  <2> HIDE DEF rv, old
  <2> QED
    BY <1>2 DEF Extends
<1>4. /\ rv.revision_no = Numbered(th[t].rec).current_revision
      /\ rv.intent = Numbered(th[t].rec).intent
  BY <1>0 DEF NextRevision, Numbered, Record
<1>5. HasDocument(Numbered(th[t].rec), new)
  BY <1>3, <1>4 DEF HasDocument
<1> HIDE DEF new, rv
<1>6. /\ revisions'[On(t)] = new
      /\ \A r \in Requests : r # On(t) => revisions'[r] = revisions[r]
  BY <1>0, <1>1 DEF TypeOK
<1>7. Grows
  BY <1>1, <1>3, <1>6 DEF Grows, Extends
<1>8. ConfirmedBy(On(t), interactions) /\ th[t].rec.state = "generating"
  BY <1>0 DEF ThreadSound, Backed
<1>9. DocumentsAreConfirmed'
  BY <1>1, <1>6, <1>8 DEF IInv, DocumentsAreConfirmed
<1>10. /\ \A u \in Threads : u # t => th'[u] = th[u]
       /\ th'[t].pc = "generated" /\ th'[t].link = th[t].link
       /\ th'[t].rec = th[t].rec
  BY <1>0, <1>1 DEF Goto, TypeOK, Handler
<1>11. /\ On(t)' = On(t)
       /\ Backed(On(t), th[t].rec, revisions[On(t)], interactions)'
       /\ LinkSound(th[t].link)'
  BY <1>0, <1>7, <1>10, CopyStays
<1>12. ThreadSound(t)'
  BY <1>0, <1>1, <1>5, <1>6, <1>8, <1>10, <1>11 DEF ThreadSound
<1>13. /\ \A r \in Requests : \/ requests'[r] = requests[r]
                              \/ Backed(r, requests'[r], revisions'[r],
                                        interactions')
       /\ \A l \in links' : l \in links \/ (LinkSound(l) /\ l.request_id = On(t))
  BY <1>1
<1> QED
  BY <1>0, <1>7, <1>9, <1>10, <1>11, <1>12, <1>13, ThreadStepSound

LEMMA SoundThreadStep ==
    ASSUME IInv, NEW t \in Threads, ThreadStep(t)
    PROVE  IInv'
BY SoundCheck, SoundApply, SoundCorrect, SoundFail, SoundGenerated,
   SoundRendered, SoundNotification, SoundAdd DEF ThreadStep

LEMMA IngestTransitionSaves ==
    ASSUME TypeOK, NEW r \in Requests, NEW i, NEW g, NEW pc,
           IngestTransition(r, i, g, pc)
    PROVE  /\ <<requests[r].state, g, requests'[r].state>> \in TRANSITIONS
           /\ requests'[r].intent = i
<1>1. PICK n \in RequestState :
         /\ <<requests[r].state, g, n>> \in TRANSITIONS
         /\ requests' = [requests EXCEPT ![r] =
                [requests[r] EXCEPT !.state = n, !.intent = i]]
  BY DEF IngestTransition, Save
<1>2. requests'[r] = [requests[r] EXCEPT !.state = n, !.intent = i]
  BY <1>1 DEF TypeOK
<1>3. requests'[r].state = n /\ requests'[r].intent = i
  BY <1>2 DEF TypeOK, Record
<1> QED
  BY <1>1, <1>3

\* A step of ingest writes only a record that no link and no thread refers to.
LEMMA IngestStepSound ==
    ASSUME IInv, TypeOK', UNCHANGED <<revisions, interactions, th>>,
           NEW r \in Requests, ingests[r].pc \notin {"sent", "done"},
           \A q \in Requests : q # r =>
              requests'[q] = requests[q] /\ ingests'[q] = ingests[q],
           \/ requests'[r] = requests[r]
           \/ Backed(r, requests'[r], revisions[r], interactions),
           \A l \in links' : l \in links \/ (LinkSound(l) /\ l.request_id = r),
           ingests'[r].pc \in {"sent", "done"} \/ links' = links
    PROVE  IInv'
<1>1. Grows /\ DocumentsAreConfirmed'
  BY QuietGrows DEF IInv
<1>2. \A u \in Threads : th'[u].pc # "idle" => ThreadSound(u)'
  BY <1>1, ThreadStays
<1>3. \A q \in Requests : requests'[q].state # "absent" =>
         Backed(q, requests'[q], revisions'[q], interactions')
  BY <1>1, RecordStays
<1>4. \A l \in links' : LinkSound(l)
  BY DEF IInv
<1>5. AfterIngest'
  BY DEF IInv, AfterIngest, On
<1> QED
  BY <1>1, <1>2, <1>3, <1>4, <1>5 DEF IInv

LEMMA SoundReceive ==
    ASSUME IInv, NEW r \in Requests, Receive(r)
    PROVE  IInv'
<1>1. TypeOK /\ TypeOK'
  BY TypeReceive DEF IInv
<1>2. /\ requests'[r].state = "received" /\ ingests[r].pc = "new"
      /\ \A q \in Requests : q # r => /\ requests'[q] = requests[q]
                                      /\ ingests'[q] = ingests[q]
      /\ UNCHANGED <<revisions, interactions, th, links>>
  BY <1>1 DEF Receive, Save, TypeOK
<1>3. Backed(r, requests'[r], revisions[r], interactions)
  BY <1>2 DEF Backed, ReviewStates
<1> QED
  BY <1>1, <1>2, <1>3, IngestStepSound

LEMMA SoundIngestStep ==
    ASSUME IInv, NEW r \in Requests, IngestStep(r)
    PROVE  IInv'
<1>1. TypeOK /\ TypeOK'
  BY TypeIngestStep DEF IInv
<1>2. /\ ingests[r].pc \notin {"sent", "done"}
      /\ \A q \in Requests : q # r => /\ requests'[q] = requests[q]
                                      /\ ingests'[q] = ingests[q]
      /\ UNCHANGED <<revisions, interactions, th>>
  BY <1>1 DEF IngestStep, Advance, Classify, ClassifyRaises, Notify,
              IngestTransition, Save, TypeOK
<1>3. \/ requests'[r] = requests[r]
      \/ Backed(r, requests'[r], revisions[r], interactions)
  <2>1. CASE Advance(r)
    <3>1. PICK g \in {"start_aggregation", "window_closed", "media_processed"} :
             <<requests[r].state, g, requests'[r].state>> \in TRANSITIONS
      BY <1>1, <2>1, IngestTransitionSaves DEF Advance
    <3>2. requests'[r].state \in {"aggregating", "processing_media", "classifying"}
      BY <3>1, ServiceEdges
    <3> QED
      BY <3>2 DEF Backed, ReviewStates
  <2>2. CASE Classify(r)
    <3> DEFINE s == requests[r].state
               n == requests'[r].state
    <3>1. \/ /\ <<s, "classified_actionable", n>> \in TRANSITIONS
             /\ requests'[r].intent \in Actionable
          \/ <<s, "classified_none", n>> \in TRANSITIONS
      BY <1>1, <2>2, IngestTransitionSaves DEF Classify
    <3>2. \/ n = "awaiting_classification" /\ requests'[r].intent \in Actionable
          \/ n = "discarded"
      BY <3>1, ServiceEdges
    <3> QED
      BY <3>2 DEF Backed, ReviewStates
  <2>3. CASE ClassifyRaises(r) \/ Notify(r)
    BY <2>3 DEF ClassifyRaises, Notify
  <2> QED
    BY <2>1, <2>2, <2>3 DEF IngestStep
<1>4. /\ \A l \in links' : l \in links \/ (LinkSound(l) /\ l.request_id = r)
      /\ ingests'[r].pc \in {"sent", "done"} \/ links' = links
  <2>1. CASE Notify(r)
    <3>1. \A l \in links' : l \in links \/ (LinkSound(l) /\ l.request_id = r)
      BY <2>1, SentLinks, NotificationLinks DEF Notify, notify_classification
    <3>2. ingests'[r].pc \in {"sent", "done"}
      BY <1>1, <2>1 DEF Notify, TypeOK, Ingest
    <3> QED
      BY <3>1, <3>2
  <2>2. CASE ~Notify(r)
    BY <2>2 DEF IngestStep, Advance, Classify, ClassifyRaises
  <2> QED
    BY <2>1, <2>2
<1> QED
  BY <1>1, <1>2, <1>3, <1>4, IngestStepSound

LEMMA SoundClick ==
    ASSUME IInv, NEW t \in Threads, NEW l \in links, NEW f \in BOOLEAN,
           Click(t, l, f)
    PROVE  IInv'
<1>1. TypeOK /\ TypeOK' /\ l \in Link /\ l.request_id \in Requests
  <2>1. TypeOK /\ TypeOK'
    BY TypeClick DEF IInv
  <2>2. l \in Link /\ l.request_id \in Requests
    BY <2>1 DEF TypeOK, Link
  <2> QED
    BY <2>1, <2>2
<1>2. /\ \A u \in Threads : u # t => th'[u] = th[u]
      /\ th'[t].pc = "check" /\ th'[t].link = l
      /\ th'[t].rec = requests[l.request_id]
      /\ UNCHANGED <<requests, revisions, interactions, links, ingests>>
      /\ requests[l.request_id].state # "absent"
  <2> DEFINE h == [pc |-> "check", link |-> l,
                   feedback |-> f /\ l.decision = "revise",
                   rec |-> requests[l.request_id], at |-> clock + 1,
                   basis |-> 0]
  <2>1. th' = [th EXCEPT ![t] = h]
    BY DEF Click
  <2>2. h.pc = "check" /\ h.link = l /\ h.rec = requests[l.request_id]
    OBVIOUS
  <2> HIDE DEF h
  <2>3. th'[t] = h /\ \A u \in Threads : u # t => th'[u] = th[u]
    BY <1>1, <2>1 DEF TypeOK
  <2> QED
    BY <2>2, <2>3 DEF Click
<1>3. Grows /\ DocumentsAreConfirmed'
  BY <1>2, QuietGrows DEF IInv
<1>4. ThreadSound(t)'
  BY <1>1, <1>2 DEF IInv, ThreadSound, On
<1>5. \A u \in Threads : th'[u].pc # "idle" => ThreadSound(u)'
  BY <1>2, <1>3, <1>4, ThreadStays
<1>6. \A r \in Requests : requests'[r].state # "absent" =>
         Backed(r, requests'[r], revisions'[r], interactions')
  BY <1>2, <1>3, RecordStays
<1>7. AfterIngest'
  BY <1>1, <1>2 DEF IInv, AfterIngest, On
<1> QED
  BY <1>1, <1>2, <1>3, <1>5, <1>6, <1>7 DEF IInv

LEMMA SoundExpire == ASSUME IInv, Expire PROVE IInv'
<1>1. TypeOK'
  BY TypeEnvironment DEF IInv
<1>2. UNCHANGED <<requests, revisions, interactions, links, ingests, th>>
  BY DEF Expire
<1> QED
  BY <1>1, <1>2 DEF IInv, AfterIngest, DocumentsAreConfirmed, ThreadSound, On

LEMMA SoundRestart == ASSUME IInv, Restart PROVE IInv'
<1>1. TypeOK /\ TypeOK'
  BY TypeEnvironment DEF IInv
<1>2. /\ \A r \in Requests : requests'[r].state = "absent"
      /\ \A t \in Threads : th'[t].pc = "idle"
      /\ \A r \in Requests : revisions'[r] = << >>
      /\ \A r \in Requests : ingests'[r].pc \notin {"sent", "done"} =>
                              ingests[r].pc \notin {"sent", "done"}
      /\ links' = links
  BY <1>1 DEF Restart, Absent, Idle, TypeOK, Ingest
<1> QED
  BY <1>1, <1>2 DEF IInv, AfterIngest, DocumentsAreConfirmed

LEMMA SoundNext == IInv /\ [Next]_vars => IInv'
<1> SUFFICES ASSUME IInv, [Next]_vars PROVE IInv'
  OBVIOUS
<1>1. CASE UNCHANGED vars
  BY <1>1 DEF vars, IInv, TypeOK, AfterIngest, DocumentsAreConfirmed,
              ThreadSound, On
<1>2. CASE Next
  BY <1>2, SoundReceive, SoundIngestStep, SoundThreadStep, SoundClick,
     SoundExpire, SoundRestart DEF Next
<1> QED
  BY <1>1, <1>2

LEMMA SoundInit == Init => IInv
<1> SUFFICES ASSUME Init PROVE IInv
  OBVIOUS
<1>1. TypeOK
  BY TypeInit, ConstantsAssumption
<1> QED
  BY <1>1 DEF Init, IInv, AfterIngest, DocumentsAreConfirmed, Absent, Idle

LEMMA Soundness == Spec => []IInv
BY SoundInit, SoundNext, PTL DEF Spec

\* A request that is up for approval, or approved, has a stored revision with
\* its number and of its intent, for any number of clicks that race, raise or
\* are cut off by a restart.
THEOREM ApprovalHasDocumentAlways == Spec => []ApprovalHasDocument
<1>1. IInv => ApprovalHasDocument
  BY DEF IInv, ApprovalHasDocument, Backed, ReviewStates
<1> QED
  BY <1>1, Soundness, PTL

\* FR-CNF-01 for any number of clicks that race: every document was asked for
\* with a Confirm link that is on record.
THEOREM DocumentsAreConfirmedAlways == Spec => []DocumentsAreConfirmed
<1>1. IInv => DocumentsAreConfirmed
  BY DEF IInv
<1> QED
  BY <1>1, Soundness, PTL

\* Generator.generate is never called for a request without a document kind,
\* so its uncaught ValueError cannot occur.
THEOREM GeneratesActionableAlways == Spec => []GeneratesActionable
<1>1. IInv => GeneratesActionable
  BY DEF IInv, GeneratesActionable, ThreadSound, Backed
<1> QED
  BY <1>1, Soundness, PTL

\* Ingest and clicks never work on the same request: ingest needs no lock.
THEOREM IngestIsAloneAlways == Spec => []IngestIsAlone
<1>1. IInv => IngestIsAlone
  BY DEF IInv, AfterIngest, IngestIsAlone
<1> QED
  BY <1>1, Soundness, PTL

=============================================================================
