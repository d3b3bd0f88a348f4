---------------------- MODULE OrchestratorSerialProofs ----------------------
(***************************************************************************)
(* What Orchestrator guarantees to an owner who never has two clicks on    *)
(* one request in progress (SerialSpec).                                   *)
(***************************************************************************)
EXTENDS OrchestratorProofs

\* No save came between a thread's read of a request and now.
CopyIsFresh ==
    \A t \in Threads : th[t].pc # "idle" => th[t].rec = requests[On(t)]

\* The id of a batch that has not been ingested is unknown.
NewIsAbsent ==
    \A r \in Requests : ingests[r].pc = "new" => requests[r].state = "absent"

SInv == IInv /\ OneClickAtATime /\ CopyIsFresh /\ NewIsAbsent

\* What a thread whose copy is fresh does to its request: it leaves the state
\* alone or moves it along an edge, and its copy stays fresh.
MovesAlongEdge(t) ==
    /\ \A u \in Threads : u # t => th'[u] = th[u]
    /\ \A r \in Requests : r # On(t) => requests'[r] = requests[r]
    /\ th'[t].pc # "idle" =>
          On(t)' = On(t) /\ th'[t].rec = requests'[On(t)]
    /\ \/ requests'[On(t)].state = requests[On(t)].state
       \/ \E g \in Trigger :
             <<requests[On(t)].state, g, requests'[On(t)].state>> \in TRANSITIONS

LEMMA SerialQuiet ==
    ASSUME SInv, NEW t \in Threads, ThreadStep(t),
           \/ CheckInteraction(t) \/ RecordInteraction(t) \/ RefuseDecision(t)
           \/ Generate(t) \/ StoreArtifacts(t) \/ StoreRaises(t)
           \/ AddRevision(t) \/ Renotify(t) \/ Deliver(t)
    PROVE  MovesAlongEdge(t)
<1>1. /\ th[t].pc # "idle" /\ th[t] \in Handler /\ TypeOK
      /\ th[t].rec = requests[On(t)]
  BY StepFacts DEF SInv, CopyIsFresh
<1>2. requests' = requests
  BY DEF CheckInteraction, RecordInteraction, RefuseDecision, Generate,
         StoreArtifacts, StoreRaises, AddRevision, Renotify, Deliver
<1>3. \A u \in Threads : u # t => th'[u] = th[u]
  BY <1>1 DEF CheckInteraction, RecordInteraction, RefuseDecision, Generate,
         StoreArtifacts, StoreRaises, AddRevision, Renotify, Deliver, Goto,
         Return, TypeOK
<1>4. th'[t].pc # "idle" => th'[t].rec = th[t].rec /\ th'[t].link = th[t].link
  BY <1>1 DEF CheckInteraction, RecordInteraction, RefuseDecision, Generate,
         StoreArtifacts, StoreRaises, AddRevision, Renotify, Deliver, Goto,
         Return, TypeOK, Handler, Idle
<1> QED
  BY <1>1, <1>2, <1>3, <1>4 DEF MovesAlongEdge, On

LEMMA SerialSave ==
    ASSUME SInv, NEW t \in Threads, ThreadStep(t), NEW rec \in Record, NEW pc,
           Save(On(t), rec),
           \/ Return(t)
           \/ th' = [th EXCEPT ![t] = [th[t] EXCEPT !.rec = rec, !.pc = pc]],
           \/ rec.state = th[t].rec.state
           \/ \E g \in Trigger : <<th[t].rec.state, g, rec.state>> \in TRANSITIONS
    PROVE  MovesAlongEdge(t)
<1>1. /\ th[t].pc # "idle" /\ th[t] \in Handler /\ TypeOK /\ On(t) \in Requests
      /\ th[t].rec = requests[On(t)]
  BY StepFacts DEF SInv, CopyIsFresh
<1>2. /\ requests'[On(t)] = rec
      /\ \A r \in Requests : r # On(t) => requests'[r] = requests[r]
  BY <1>1 DEF Save, TypeOK
<1>3. \A u \in Threads : u # t => th'[u] = th[u]
  BY <1>1 DEF TypeOK, Return
<1>4. th'[t].pc # "idle" => th'[t].rec = rec /\ th'[t].link = th[t].link
  <2>1. CASE Return(t)
    BY <1>1, <2>1 DEF TypeOK, Idle, Return
  <2>2. CASE th' = [th EXCEPT ![t] = [th[t] EXCEPT !.rec = rec, !.pc = pc]]
    <3>1. th'[t] = [th[t] EXCEPT !.rec = rec, !.pc = pc]
      BY <1>1, <2>2 DEF TypeOK
    <3> QED
      BY <1>1, <3>1 DEF Handler
  <2> QED
    BY <2>1, <2>2
<1> QED
  BY <1>1, <1>2, <1>3, <1>4 DEF MovesAlongEdge, On

LEMMA SerialApply ==
    ASSUME SInv, NEW t \in Threads, ThreadStep(t), ApplyDecision(t)
    PROVE  MovesAlongEdge(t)
<1> DEFINE d == th[t].link.decision
<1>0. /\ th[t] \in Handler /\ th[t].rec \in Record /\ d \in OwnerDecision
      /\ TypeOK
  BY StepFacts DEF SInv, Link
<1>1. PICK n \in RequestState :
         /\ <<th[t].rec.state, trigger_for[d], n>> \in TRANSITIONS
         /\ Save(On(t), [th[t].rec EXCEPT !.state = n])
         /\ IF Continuation[d] = "return"
            THEN Return(t)
            ELSE th' = [th EXCEPT ![t].rec.state = n, ![t].pc = Continuation[d]]
  BY DEF ApplyDecision
<1> DEFINE rec == [th[t].rec EXCEPT !.state = n]
<1>2. rec \in Record /\ rec.state = n
  BY <1>0 DEF Record
<1>3. trigger_for[d] \in Trigger
  BY <1>0 DEF OwnerDecision, trigger_for, Trigger
<1>4. \/ Return(t)
      \/ th' = [th EXCEPT ![t] = [th[t] EXCEPT !.rec = rec,
                                               !.pc = Continuation[d]]]
  <2>1. [th[t] EXCEPT !.rec.state = n, !.pc = Continuation[d]]
             = [th[t] EXCEPT !.rec = rec, !.pc = Continuation[d]]
    BY <1>0 DEF Handler
  <2> QED
    BY <1>0, <1>1, <2>1 DEF TypeOK
<1> HIDE DEF rec, d
<1>5. Save(On(t), rec)
  BY <1>1 DEF rec
<1> QED
  BY <1>1, <1>2, <1>3, <1>4, <1>5, SerialSave

LEMMA SerialCorrect ==
    ASSUME SInv, NEW t \in Threads, ThreadStep(t), CorrectIntent(t)
    PROVE  MovesAlongEdge(t)
<1> DEFINE rec == [th[t].rec EXCEPT !.intent = th[t].link.intent]
<1>0. th[t] \in Handler /\ th[t].rec \in Record /\ th[t].link \in Link /\ TypeOK
  BY StepFacts DEF SInv
<1>1. rec \in Record /\ rec.state = th[t].rec.state
  BY <1>0 DEF Record, Link
<1>2. /\ Save(On(t), rec)
      /\ th' = [th EXCEPT ![t] = [th[t] EXCEPT !.rec = rec, !.pc = "renotify"]]
  BY <1>0 DEF CorrectIntent, TypeOK
<1> HIDE DEF rec
<1> QED
  BY <1>1, <1>2, SerialSave

LEMMA SerialFail ==
    ASSUME SInv, NEW t \in Threads, ThreadStep(t), Fail(t)
    PROVE  MovesAlongEdge(t)
<1> DEFINE rec == [th[t].rec EXCEPT !.state = "failed"]
<1>1. rec \in Record /\ rec.state = "failed"
  BY StepFacts DEF SInv, Record, RequestState
<1>2. /\ Save(On(t), rec) /\ Return(t)
      /\ <<th[t].rec.state, "fail", rec.state>> \in TRANSITIONS
  BY <1>1 DEF Fail
<1> HIDE DEF rec
<1>3. "fail" \in Trigger
  BY DEF Trigger
<1> QED
  BY <1>1, <1>2, <1>3, SerialSave

LEMMA SerialRender ==
    ASSUME SInv, NEW t \in Threads, ThreadStep(t), Generated(t) \/ Rendered(t)
    PROVE  MovesAlongEdge(t)
<1>0. th[t] \in Handler /\ th[t].rec \in Record /\ TypeOK
  BY StepFacts DEF SInv
<1>1. PICK old \in Record, g \in Trigger, pc \in ThreadPC :
         old.state = th[t].rec.state /\ ThreadTransition(t, old, g, pc)
  <2>1. CASE Generated(t)
    <3> DEFINE old == [th[t].rec EXCEPT !.current_revision = @ + 1]
    <3>1. old \in Record /\ old.state = th[t].rec.state
      BY <1>0 DEF Record
    <3>2. ThreadTransition(t, old, "generated", "rendered")
      BY <2>1 DEF Generated
    <3> HIDE DEF old
    <3> QED
      BY <3>1, <3>2 DEF Trigger, ThreadPC
  <2>2. CASE Rendered(t)
    BY <1>0, <2>2 DEF Rendered, Trigger, ThreadPC
  <2> QED
    BY <2>1, <2>2
<1>2. PICK n \in RequestState :
         /\ <<old.state, g, n>> \in TRANSITIONS
         /\ Save(On(t), [old EXCEPT !.state = n])
         /\ th' = [th EXCEPT ![t].rec = [old EXCEPT !.state = n], ![t].pc = pc]
  BY <1>1 DEF ThreadTransition
<1> DEFINE rec == [old EXCEPT !.state = n]
<1>3. rec \in Record /\ rec.state = n
  BY <1>1 DEF Record
<1>4. /\ Save(On(t), rec)
      /\ th' = [th EXCEPT ![t] = [th[t] EXCEPT !.rec = rec, !.pc = pc]]
  BY <1>0, <1>2 DEF TypeOK
<1> HIDE DEF rec
<1> QED
  BY <1>1, <1>2, <1>3, <1>4, SerialSave

LEMMA SerialThreadStep ==
    ASSUME SInv, NEW t \in Threads, ThreadStep(t)
    PROVE  MovesAlongEdge(t)
BY SerialQuiet, SerialApply, SerialCorrect, SerialFail, SerialRender
   DEF ThreadStep

LEMMA SerialThreads ==
    ASSUME SInv, NEW t \in Threads, ThreadStep(t)
    PROVE  CopyIsFresh' /\ NewIsAbsent' /\ \A r \in Requests : AllowedEdge(r)
<1>1. MovesAlongEdge(t) /\ th[t].pc # "idle" /\ UNCHANGED ingests
  BY SerialThreadStep, StepFacts DEF SInv
<1>2. CopyIsFresh'
  <2> SUFFICES ASSUME NEW u \in Threads, th'[u].pc # "idle"
               PROVE  th'[u].rec = requests'[On(u)']
    BY DEF CopyIsFresh
  <2>1. CASE u = t
    BY <1>1, <2>1 DEF MovesAlongEdge
  <2>2. CASE u # t
    <3>1. th'[u] = th[u] /\ On(u)' = On(u)
      BY <1>1, <2>2 DEF MovesAlongEdge, On
    <3>2. On(u) # On(t) /\ On(u) \in Requests
      BY <1>1, <2>2, <3>1, BusyIsHandler
         DEF SInv, IInv, OneClickAtATime, Handler, Link, On
    <3> QED
      BY <1>1, <3>1, <3>2 DEF SInv, CopyIsFresh, MovesAlongEdge
  <2> QED
    BY <2>1, <2>2
<1>3. NewIsAbsent'
  <2>1. On(t) \in Requests /\ ingests[On(t)].pc \in {"sent", "done"}
    BY <1>1, StepFacts DEF SInv, IInv, AfterIngest
  <2> QED
    BY <1>1, <2>1 DEF SInv, NewIsAbsent, MovesAlongEdge
<1>4. \A r \in Requests : AllowedEdge(r)
  BY <1>1 DEF MovesAlongEdge, AllowedEdge
<1> QED
  BY <1>2, <1>3, <1>4

LEMMA SerialIngest ==
    ASSUME SInv, NEW r \in Requests, Receive(r) \/ IngestStep(r)
    PROVE  CopyIsFresh' /\ NewIsAbsent' /\ \A q \in Requests : AllowedEdge(q)
<1>1. TypeOK
  BY DEF SInv, IInv
<1>2. /\ ingests[r].pc \notin {"sent", "done"} /\ ingests'[r].pc # "new" /\ UNCHANGED th
      /\ \A q \in Requests : q # r => /\ requests'[q] = requests[q]
                                      /\ ingests'[q] = ingests[q]
  <2>1. CASE Receive(r)
    BY <1>1, <2>1 DEF Receive, Save, TypeOK
  <2>2. CASE IngestStep(r)
    <3>1. /\ ingests[r].pc \notin {"sent", "done"} /\ UNCHANGED th
          /\ \A q \in Requests : q # r => /\ requests'[q] = requests[q]
                                          /\ ingests'[q] = ingests[q]
      BY <1>1, <2>2 DEF IngestStep, Advance, Classify, ClassifyRaises, Notify,
                        IngestTransition, Save, TypeOK
    <3>2. \E pc \in IngestPC \ {"new"} : ingests' = [ingests EXCEPT ![r].pc = pc]
      BY <2>2 DEF IngestStep, Advance, Classify, ClassifyRaises, Notify,
                  IngestTransition, IngestPC
    <3>3. ingests'[r].pc # "new"
      BY <1>1, <3>2 DEF TypeOK, Ingest
    <3> QED
      BY <3>1, <3>3
  <2> QED
    BY <2>1, <2>2
<1>3. CopyIsFresh'
  BY <1>2, BusyIsHandler DEF SInv, IInv, CopyIsFresh, AfterIngest, On, Handler, Link
<1>4. NewIsAbsent'
  BY <1>2 DEF SInv, NewIsAbsent
<1>5. AllowedEdge(r)
  <2>1. CASE Receive(r)
    BY <2>1 DEF SInv, NewIsAbsent, Receive, AllowedEdge
  <2>2. CASE ClassifyRaises(r) \/ Notify(r)
    BY <2>2 DEF ClassifyRaises, Notify, AllowedEdge
  <2>3. CASE Advance(r) \/ Classify(r)
    <3>1. \E g \in Trigger :
             <<requests[r].state, g, requests'[r].state>> \in TRANSITIONS
      BY <1>1, <2>3, IngestTransitionSaves DEF Advance, Classify, Trigger
    <3> QED
      BY <3>1 DEF AllowedEdge
  <2> QED
    BY <2>1, <2>2, <2>3 DEF IngestStep
<1>6. \A q \in Requests : AllowedEdge(q)
  BY <1>2, <1>5 DEF AllowedEdge
<1> QED
  BY <1>3, <1>4, <1>6

LEMMA SerialClick ==
    ASSUME SInv, NEW t \in Threads, NEW l \in links, NEW f \in BOOLEAN,
           Click(t, l, f)
    PROVE  CopyIsFresh' /\ NewIsAbsent' /\ \A q \in Requests : AllowedEdge(q)
<1>1. TypeOK
  BY DEF SInv, IInv
<1>2. /\ \A u \in Threads : u # t => th'[u] = th[u]
      /\ UNCHANGED <<requests, ingests>>
  BY <1>1 DEF Click, TypeOK
<1>3. th'[t].rec = requests[l.request_id] /\ th'[t].link = l
  <2> DEFINE h == [pc |-> "check", link |-> l,
                   feedback |-> f /\ l.decision = "revise",
                   rec |-> requests[l.request_id], at |-> clock + 1,
                   basis |-> 0]
  <2>1. th' = [th EXCEPT ![t] = h]
    BY DEF Click
  <2>2. h.link = l /\ h.rec = requests[l.request_id]
    OBVIOUS
  <2> HIDE DEF h
  <2> QED
    BY <1>1, <2>1, <2>2 DEF TypeOK
<1>4. CopyIsFresh'
  BY <1>2, <1>3 DEF SInv, CopyIsFresh, On
<1> QED
  BY <1>2, <1>4 DEF SInv, NewIsAbsent, AllowedEdge

LEMMA SerialEnvironment ==
    ASSUME SInv, Expire \/ Restart
    PROVE  CopyIsFresh' /\ NewIsAbsent' /\ \A q \in Requests : AllowedEdge(q)
<1>1. CASE Expire
  BY <1>1 DEF Expire, SInv, CopyIsFresh, NewIsAbsent, AllowedEdge, On
<1>2. CASE Restart
  <2>1. TypeOK
    BY DEF SInv, IInv
  <2>2. /\ \A r \in Requests : requests'[r].state = "absent"
        /\ \A t \in Threads : th'[t].pc = "idle"
        /\ restarts' # restarts
    BY <1>2, <2>1 DEF Restart, Absent, Idle, TypeOK
  <2> QED
    BY <2>2 DEF CopyIsFresh, NewIsAbsent, AllowedEdge
<1> QED
  BY <1>1, <1>2

LEMMA SerialNext ==
    SInv /\ [Next /\ OneClickAtATime']_vars =>
        SInv' /\ [\A r \in Requests : AllowedEdge(r)]_vars
<1> SUFFICES ASSUME SInv, [Next /\ OneClickAtATime']_vars
             PROVE  SInv' /\ [\A r \in Requests : AllowedEdge(r)]_vars
  OBVIOUS
<1>1. IInv'
  BY SoundNext DEF SInv
<1>2. CASE UNCHANGED vars
  BY <1>1, <1>2 DEF vars, SInv, OneClickAtATime, CopyIsFresh, NewIsAbsent, On
<1>3. CASE Next /\ OneClickAtATime'
  <2>1. CopyIsFresh' /\ NewIsAbsent' /\ \A r \in Requests : AllowedEdge(r)
    BY <1>3, SerialIngest, SerialThreads, SerialClick, SerialEnvironment DEF Next
  <2> QED
    BY <1>1, <1>3, <2>1 DEF SInv
<1> QED
  BY <1>2, <1>3

\* The guarantee of the state machine, for any number of requests and threads,
\* with every fault and restart, provided that no two clicks on one request
\* are in progress together: a saved request only moves along the table.
THEOREM SerialAllowedEdges == SerialSpec => AllowedEdges
<1>1. Init => SInv
  <2> SUFFICES ASSUME Init PROVE SInv
    OBVIOUS
  <2>1. IInv
    BY SoundInit
  <2> QED
    BY <2>1 DEF Init, SInv, OneClickAtATime, CopyIsFresh, NewIsAbsent, Idle, Absent
<1>2. SInv /\ [Next /\ OneClickAtATime']_vars =>
         SInv' /\ [\A r \in Requests : AllowedEdge(r)]_vars
  BY SerialNext
<1> QED
  BY <1>1, <1>2, PTL DEF SerialSpec, AllowedEdges

=============================================================================
