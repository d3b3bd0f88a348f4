---------------------- MODULE OrchestratorDrivenProofs ----------------------
(***************************************************************************)
(* That a request is never left behind: proofs about Orchestrator for any  *)
(* sets of requests and threads, any number of clicks that race, expiring  *)
(* links and restarts.                                                     *)
(*  - While the classifier, the renderer and the object store do not raise,*)
(*    a request in a state that only the service can leave has a handler.  *)
(*  - While notifications go out, a request that waits for the owner has   *)
(*    links the owner can still use.                                       *)
(***************************************************************************)
EXTENDS OrchestratorProofs

-----------------------------------------------------------------------------
(* How a step of a thread moves the thread and the saved record.           *)

\* A thread goes on, or returns, and no record is saved.
QuietMoves ==
    {<<"check", "record">>, <<"check", "idle">>, <<"record", "apply">>,
     <<"apply", "idle">>, <<"renotify", "idle">>, <<"generate", "put">>,
     <<"generate", "fail">>, <<"put", "add">>, <<"put", "idle">>,
     <<"add", "generated">>, <<"deliver", "idle">>}

Quiet(t) ==
    /\ <<th[t].pc, th'[t].pc>> \in QuietMoves
    /\ requests' = requests
    /\ th'[t].pc # "idle" => th'[t].rec = th[t].rec
    /\ th[t].pc = "apply" =>
          ~Legal(th[t].rec.state, trigger_for[th[t].link.decision])
    /\ th[t].pc = "put" /\ th'[t].pc = "idle" => "store" \in Faults

\* A decision, the state it is taken in, where the thread goes on and the
\* state it saves.
DecisionMoves ==
    {<<"confirm", "awaiting_classification", "generate", "generating">>,
     <<"correct", "awaiting_classification", "correct",
       "awaiting_classification">>,
     <<"reject", "awaiting_classification", "idle", "discarded">>,
     <<"approve", "awaiting_approval", "idle", "completed">>,
     <<"revise", "awaiting_approval", "generate", "generating">>}

\* The other steps that save: from where the thread goes on to where, and the
\* state saved.
SavingMoves ==
    {<<"correct", "renotify", "awaiting_classification">>,
     <<"fail", "idle", "failed">>, <<"generated", "rendered", "rendering">>,
     <<"rendered", "deliver", "awaiting_approval">>}

Saving(t) ==
    /\ \/ /\ th[t].pc = "apply"
          /\ <<th[t].link.decision, th[t].rec.state, th'[t].pc,
               requests'[On(t)].state>> \in DecisionMoves
       \/ <<th[t].pc, th'[t].pc, requests'[On(t)].state>> \in SavingMoves
    /\ th'[t].pc # "idle" => th'[t].rec = requests'[On(t)]
    /\ th[t].pc # "correct" => requests'[On(t)].intent = th[t].rec.intent

\* What holds of every step of t.
Moves(t) ==
    /\ \A u \in Threads : u # t => th'[u] = th[u]
    /\ \A q \in Requests : q # On(t) => requests'[q] = requests[q]
    /\ th'[t].pc # "idle" => /\ th'[t].link = th[t].link
                             /\ th'[t].at = th[t].at
                             /\ th'[t].feedback = th[t].feedback
    /\ UNCHANGED <<ingests, clock>>
    /\ Quiet(t) \/ Saving(t)

LEMMA GotoMoves ==
    ASSUME TypeOK, NEW t \in Threads, th[t] \in Handler, NEW pc, Goto(t, pc)
    PROVE  /\ \A u \in Threads : u # t => th'[u] = th[u]
           /\ th'[t].pc = pc /\ th'[t].link = th[t].link
           /\ th'[t].at = th[t].at /\ th'[t].feedback = th[t].feedback
           /\ th'[t].rec = th[t].rec
<1>1. /\ th'[t] = [th[t] EXCEPT !.pc = pc]
      /\ \A u \in Threads : u # t => th'[u] = th[u]
  BY DEF Goto, TypeOK
<1> QED
  BY <1>1 DEF Handler

LEMMA ReturnMoves ==
    ASSUME TypeOK, NEW t \in Threads, Return(t)
    PROVE  /\ \A u \in Threads : u # t => th'[u] = th[u]
           /\ th'[t].pc = "idle"
BY DEF TypeOK, Return, Idle

LEMMA QuietStepMoves ==
    ASSUME IInv, NEW t \in Threads, ThreadStep(t),
           \/ CheckInteraction(t) \/ RecordInteraction(t) \/ RefuseDecision(t)
           \/ Generate(t) \/ StoreArtifacts(t) \/ StoreRaises(t)
           \/ AddRevision(t) \/ Renotify(t) \/ Deliver(t)
    PROVE  Moves(t)
<1>0. th[t] \in Handler /\ TypeOK /\ UNCHANGED ingests
  BY StepFacts
<1>1. CASE CheckInteraction(t)
  <2>1. th[t].pc = "check" /\ UNCHANGED <<requests, clock>>
    BY <1>1 DEF CheckInteraction
  <2>2. Return(t) \/ Goto(t, "record")
    BY <1>1 DEF CheckInteraction
  <2> QED
    BY <1>0, <2>1, <2>2, GotoMoves, ReturnMoves DEF Moves, Quiet, QuietMoves
<1>2. CASE RecordInteraction(t)
  BY <1>0, <1>2, GotoMoves DEF RecordInteraction, Moves, Quiet, QuietMoves
<1>3. CASE RefuseDecision(t)
  BY <1>0, <1>3, ReturnMoves DEF RefuseDecision, Moves, Quiet, QuietMoves
<1>4. CASE Generate(t)
  <2>1. PICK pc \in {"put", "fail"} :
           th' = [th EXCEPT ![t].basis = PromptBasis(t), ![t].pc = pc]
    BY <1>4 DEF Generate, GenerateOutcome
  <2>2. /\ th'[t] = [th[t] EXCEPT !.basis = PromptBasis(t), !.pc = pc]
        /\ \A u \in Threads : u # t => th'[u] = th[u]
    BY <1>0, <2>1 DEF TypeOK
  <2>3. /\ th'[t].pc = pc /\ th'[t].link = th[t].link
        /\ th'[t].at = th[t].at /\ th'[t].feedback = th[t].feedback
        /\ th'[t].rec = th[t].rec
    BY <1>0, <2>2 DEF Handler
  <2> QED
    BY <1>0, <1>4, <2>2, <2>3 DEF Generate, Moves, Quiet, QuietMoves
<1>5. CASE StoreArtifacts(t)
  BY <1>0, <1>5, GotoMoves DEF StoreArtifacts, Moves, Quiet, QuietMoves
<1>6. CASE StoreRaises(t)
  BY <1>0, <1>6, ReturnMoves DEF StoreRaises, Moves, Quiet, QuietMoves
<1>7. CASE AddRevision(t)
  BY <1>0, <1>7, GotoMoves DEF AddRevision, Moves, Quiet, QuietMoves
<1>8. CASE Renotify(t) \/ Deliver(t)
  BY <1>0, <1>8, ReturnMoves DEF Renotify, Deliver, Moves, Quiet, QuietMoves
<1> QED
  BY <1>1, <1>2, <1>3, <1>4, <1>5, <1>6, <1>7, <1>8

\* A step that saves rec and returns, or goes on at pc with rec as its copy.
LEMMA SaveMoves ==
    ASSUME IInv, NEW t \in Threads, ThreadStep(t), UNCHANGED clock,
           NEW rec, NEW pc, Save(On(t), rec),
           \/ Return(t) /\ pc = "idle"
           \/ th' = [th EXCEPT ![t] = [th[t] EXCEPT !.rec = rec, !.pc = pc]],
           \/ /\ th[t].pc = "apply"
              /\ <<th[t].link.decision, th[t].rec.state, pc, rec.state>>
                    \in DecisionMoves
           \/ <<th[t].pc, pc, rec.state>> \in SavingMoves,
           th[t].pc # "correct" => rec.intent = th[t].rec.intent
    PROVE  Moves(t)
<1>1. /\ th[t] \in Handler /\ TypeOK /\ On(t) \in Requests /\ UNCHANGED ingests
  BY StepFacts
<1>2. /\ requests'[On(t)] = rec
      /\ \A q \in Requests : q # On(t) => requests'[q] = requests[q]
  BY <1>1 DEF Save, TypeOK
<1>3. /\ \A u \in Threads : u # t => th'[u] = th[u]
      /\ th'[t].pc = pc
      /\ th'[t].pc # "idle" =>
            /\ th'[t].link = th[t].link /\ th'[t].at = th[t].at
            /\ th'[t].feedback = th[t].feedback /\ th'[t].rec = rec
  <2>1. CASE Return(t) /\ pc = "idle"
    BY <1>1, <2>1, ReturnMoves
  <2>2. CASE th' = [th EXCEPT ![t] = [th[t] EXCEPT !.rec = rec, !.pc = pc]]
    <3>1. /\ th'[t] = [th[t] EXCEPT !.rec = rec, !.pc = pc]
          /\ \A u \in Threads : u # t => th'[u] = th[u]
      BY <1>1, <2>2 DEF TypeOK
    <3> QED
      BY <1>1, <3>1 DEF Handler
  <2> QED
    BY <2>1, <2>2
<1>4. Saving(t)
  BY <1>2, <1>3 DEF Saving
<1> QED
  BY <1>1, <1>2, <1>3, <1>4 DEF Moves

LEMMA ApplyMoves ==
    ASSUME IInv, NEW t \in Threads, ThreadStep(t), ApplyDecision(t)
    PROVE  Moves(t)
<1> DEFINE d == th[t].link.decision
           pc == IF Continuation[d] = "return" THEN "idle" ELSE Continuation[d]
<1>0. /\ th[t] \in Handler /\ th[t].rec \in Record /\ d \in OwnerDecision
      /\ TypeOK
  BY StepFacts DEF Link
<1>1. PICK n \in RequestState :
         /\ <<th[t].rec.state, trigger_for[d], n>> \in TRANSITIONS
         /\ Save(On(t), [th[t].rec EXCEPT !.state = n])
         /\ IF Continuation[d] = "return"
            THEN Return(t)
            ELSE th' = [th EXCEPT ![t].rec.state = n, ![t].pc = Continuation[d]]
  BY DEF ApplyDecision
<1> DEFINE rec == [th[t].rec EXCEPT !.state = n]
<1>2. rec.state = n /\ rec.intent = th[t].rec.intent
  BY <1>0 DEF Record
<1>3. \/ Return(t) /\ pc = "idle"
      \/ th' = [th EXCEPT ![t] = [th[t] EXCEPT !.rec = rec, !.pc = pc]]
  <2>1. CASE Continuation[d] = "return"
    BY <1>1, <2>1
  <2>2. CASE Continuation[d] # "return"
    <3>1. pc = Continuation[d]
      BY <2>2
    <3>2. [th[t] EXCEPT !.rec.state = n, !.pc = Continuation[d]]
             = [th[t] EXCEPT !.rec = rec, !.pc = Continuation[d]]
      BY <1>0 DEF Handler
    <3> HIDE DEF pc
    <3> QED
      BY <1>0, <1>1, <2>2, <3>1, <3>2 DEF TypeOK
  <2> QED
    BY <2>1, <2>2
<1>4. <<d, th[t].rec.state, pc, n>> \in DecisionMoves
  BY <1>0, <1>1, DecisionEdges DEF Continuation, DecisionMoves
<1>5. th[t].pc = "apply" /\ UNCHANGED clock /\ Save(On(t), rec)
  BY <1>1 DEF ApplyDecision
<1> HIDE DEF rec, pc
<1> QED
  BY <1>2, <1>3, <1>4, <1>5, SaveMoves

LEMMA SavingStepMoves ==
    ASSUME IInv, NEW t \in Threads, ThreadStep(t),
           CorrectIntent(t) \/ Fail(t) \/ Generated(t) \/ Rendered(t)
    PROVE  Moves(t)
<1>0. th[t] \in Handler /\ th[t].rec \in Record /\ ThreadSound(t) /\ TypeOK
  BY StepFacts
<1>1. CASE CorrectIntent(t)
  <2> DEFINE rec == [th[t].rec EXCEPT !.intent = th[t].link.intent]
  <2>1. rec.state = "awaiting_classification" /\ th[t].pc = "correct"
    BY <1>0, <1>1 DEF CorrectIntent, Record, ThreadSound
  <2>2. /\ Save(On(t), rec) /\ UNCHANGED clock
        /\ th' = [th EXCEPT ![t] = [th[t] EXCEPT !.rec = rec, !.pc = "renotify"]]
    BY <1>0, <1>1 DEF CorrectIntent, TypeOK
  <2> HIDE DEF rec
  <2> QED
    BY <2>1, <2>2, SaveMoves DEF SavingMoves
<1>2. CASE Fail(t)
  <2> DEFINE rec == [th[t].rec EXCEPT !.state = "failed"]
  <2>1. rec.state = "failed" /\ th[t].pc = "fail"
        /\ rec.intent = th[t].rec.intent
    BY <1>0, <1>2 DEF Fail, Record
  <2>2. Save(On(t), rec) /\ Return(t) /\ UNCHANGED clock
    BY <1>2 DEF Fail
  <2> HIDE DEF rec
  <2> QED
    BY <2>1, <2>2, SaveMoves DEF SavingMoves
<1>3. CASE Generated(t) \/ Rendered(t)
  <2>1. PICK old \in Record, g \in {"generated", "rendered"}, pc \in ThreadPC :
           /\ ThreadTransition(t, old, g, pc)
           /\ old.intent = th[t].rec.intent
           /\ \/ th[t].pc = "generated" /\ g = "generated" /\ pc = "rendered"
              \/ th[t].pc = "rendered" /\ g = "rendered" /\ pc = "deliver"
    <3>1. CASE Generated(t)
      <4> DEFINE old == [th[t].rec EXCEPT !.current_revision = @ + 1]
      <4>1. old \in Record /\ old.intent = th[t].rec.intent
        BY <1>0 DEF Record
      <4>2. ThreadTransition(t, old, "generated", "rendered")
        BY <3>1 DEF Generated
      <4> HIDE DEF old
      <4> QED
        BY <3>1, <4>1, <4>2 DEF Generated, ThreadPC
    <3>2. CASE Rendered(t)
      BY <1>0, <3>2 DEF Rendered, ThreadPC
    <3> QED
      BY <1>3, <3>1, <3>2
  <2>2. PICK n \in RequestState :
           /\ <<old.state, g, n>> \in TRANSITIONS
           /\ Save(On(t), [old EXCEPT !.state = n])
           /\ th' = [th EXCEPT ![t].rec = [old EXCEPT !.state = n], ![t].pc = pc]
    BY <2>1 DEF ThreadTransition
  <2> DEFINE rec == [old EXCEPT !.state = n]
  <2>3. rec.state = n /\ rec.intent = th[t].rec.intent
    BY <2>1 DEF Record
  <2>4. /\ Save(On(t), rec)
        /\ th' = [th EXCEPT ![t] = [th[t] EXCEPT !.rec = rec, !.pc = pc]]
    BY <1>0, <2>2 DEF TypeOK
  <2>5. UNCHANGED clock
    BY <1>3 DEF Generated, Rendered
  <2>6. <<th[t].pc, pc, n>> \in SavingMoves
    BY <2>1, <2>2, ServiceEdges DEF SavingMoves
  <2> HIDE DEF rec
  <2> QED
    BY <2>1, <2>3, <2>4, <2>5, <2>6, SaveMoves
<1> QED
  BY <1>1, <1>2, <1>3

LEMMA ThreadMoves ==
    ASSUME IInv, NEW t \in Threads, ThreadStep(t)
    PROVE  Moves(t)
BY QuietStepMoves, ApplyMoves, SavingStepMoves DEF ThreadStep

-----------------------------------------------------------------------------
(* A working state has a handler.                                          *)

LEMMA DrivenThreads ==
    ASSUME IInv, "store" \notin Faults, WorkIsDriven,
           NEW t \in Threads, ThreadStep(t)
    PROVE  WorkIsDriven'
<1>0. /\ Moves(t) /\ ThreadSound(t) /\ th[t].pc # "idle"
      /\ On(t) \in Requests
  BY ThreadMoves, StepFacts
<1>1. th'[t].pc # "idle" => On(t)' = On(t)
  BY <1>0 DEF Moves, On
<1>2. \A u \in Threads : u # t => th'[u] = th[u] /\ On(u)' = On(u)
  BY <1>0 DEF Moves, On
<1>3. UNCHANGED ingests
  BY <1>0 DEF Moves
<1> DEFINE Writing == {"generate", "fail", "put", "add", "generated"}
<1> SUFFICES ASSUME NEW r \in Requests
             PROVE  /\ requests'[r].state \in IngestStates =>
                          ingests[r].pc \in {"start", "window", "media", "classify"}
                    /\ requests'[r].state = "generating" =>
                          \E u \in Threads : th'[u].pc \in Writing /\ On(u)' = r
                    /\ requests'[r].state = "rendering" =>
                          \E u \in Threads : th'[u].pc = "rendered" /\ On(u)' = r
  BY <1>3 DEF WorkIsDriven
<1>4. CASE r = On(t) /\ Saving(t)
  BY <1>0, <1>1, <1>4 DEF Saving, DecisionMoves, SavingMoves, IngestStates
<1>5. CASE ~(r = On(t) /\ Saving(t))
  <2>1. requests'[r] = requests[r]
    BY <1>0, <1>5 DEF Moves, Quiet
  <2>2. On(t) = r => /\ th[t].pc \in Writing => th'[t].pc \in Writing
                     /\ th[t].pc # "rendered"
    BY <1>0, <1>5 DEF Moves, Quiet, QuietMoves
  <2> QED
    BY <1>1, <1>2, <2>1, <2>2 DEF WorkIsDriven
<1> QED
  BY <1>4, <1>5

LEMMA DrivenIngest ==
    ASSUME IInv, "classify" \notin Faults, WorkIsDriven,
           NEW r \in Requests, Receive(r) \/ IngestStep(r)
    PROVE  WorkIsDriven'
<1>1. TypeOK
  BY DEF IInv
<1>2. /\ UNCHANGED th
      /\ \A q \in Requests : q # r => /\ requests'[q] = requests[q]
                                      /\ ingests'[q] = ingests[q]
  BY <1>1 DEF Receive, IngestStep, Advance, Classify, ClassifyRaises, Notify,
              IngestTransition, Save, TypeOK
<1>3. \A u \in Threads : th'[u] = th[u] /\ On(u)' = On(u)
  BY <1>2 DEF On
<1>4. \/ /\ requests'[r].state \in IngestStates
         /\ ingests'[r].pc \in {"start", "window", "media", "classify"}
      \/ requests'[r].state \in {"awaiting_classification", "discarded"}
      \/ /\ ingests[r].pc = "notify"
         /\ requests'[r] = requests[r]
  <2>1. CASE Receive(r)
    BY <1>1, <2>1 DEF Receive, Save, TypeOK, IngestStates
  <2>2. CASE Advance(r)
    <3>1. PICK g \in {"start_aggregation", "window_closed", "media_processed"} :
             <<requests[r].state, g, requests'[r].state>> \in TRANSITIONS
      BY <1>1, <2>2, IngestTransitionSaves DEF Advance
    <3>2. requests'[r].state \in IngestStates
      BY <3>1, ServiceEdges DEF IngestStates
    <3>3. ingests'[r].pc \in {"window", "media", "classify"}
      BY <1>1, <2>2 DEF Advance, IngestTransition, TypeOK, Ingest
    <3> QED
      BY <3>2, <3>3
  <2>3. CASE Classify(r)
    <3>1. \/ <<requests[r].state, "classified_actionable", requests'[r].state>>
                \in TRANSITIONS
          \/ <<requests[r].state, "classified_none", requests'[r].state>>
                \in TRANSITIONS
      BY <1>1, <2>3, IngestTransitionSaves DEF Classify
    <3> QED
      BY <3>1, ServiceEdges
  <2>4. CASE Notify(r)
    BY <2>4 DEF Notify
  <2> QED
    BY <2>1, <2>2, <2>3, <2>4 DEF IngestStep, ClassifyRaises
<1> QED
  BY <1>2, <1>3, <1>4 DEF WorkIsDriven, IngestStates

LEMMA DrivenRest ==
    ASSUME IInv, WorkIsDriven,
           \/ \E t \in Threads, l \in links, f \in BOOLEAN : Click(t, l, f)
           \/ Expire \/ Restart \/ UNCHANGED vars
    PROVE  WorkIsDriven'
<1>1. TypeOK
  BY DEF IInv
<1>2. ASSUME NEW t \in Threads, NEW l \in links, NEW f \in BOOLEAN,
             Click(t, l, f)
      PROVE  WorkIsDriven'
  <2>1. /\ \A u \in Threads : u # t => th'[u] = th[u] /\ On(u)' = On(u)
        /\ UNCHANGED <<requests, ingests>> /\ th[t].pc = "idle"
    BY <1>1, <1>2 DEF Click, TypeOK, On
  <2> QED
    BY <2>1 DEF WorkIsDriven
<1>3. CASE Restart
  <2>1. \A r \in Requests : requests'[r].state = "absent"
    BY <1>3 DEF Restart, Absent
  <2> QED
    BY <2>1 DEF WorkIsDriven, IngestStates
<1>4. CASE Expire \/ UNCHANGED vars
  <2>1. UNCHANGED <<requests, ingests, th>>
    BY <1>4 DEF Expire, vars
  <2> QED
    BY <2>1 DEF WorkIsDriven, On
<1> QED
  BY <1>2, <1>3, <1>4

\* While the classifier, the renderer and the object store do not raise (the
\* notifiers may), a request in a state that only the service can leave has a
\* handler that will move it on, however many clicks race on it.
THEOREM WorkIsDrivenAlways ==
    ASSUME {"classify", "store"} \cap Faults = {}
    PROVE  Spec => []WorkIsDriven
<1>1. Init => WorkIsDriven
  BY DEF Init, WorkIsDriven, Absent, IngestStates
<1>2. IInv /\ WorkIsDriven /\ [Next]_vars => WorkIsDriven'
  BY DrivenThreads, DrivenIngest, DrivenRest DEF Next
<1> QED
  BY <1>1, <1>2, Soundness, PTL DEF Spec

-----------------------------------------------------------------------------
(* Stamps: a handler sends its links with a stamp that nobody else has, in *)
(* its last step, so what it sends is new.                                 *)

StampOfThread(t) ==
    /\ th[t].link \in links
    /\ th[t].at <= clock
    /\ \A l \in links : l.at # th[t].at
    /\ \A r \in Requests : ingests[r].at # th[t].at
    /\ \A u \in Threads : u # t /\ th[u].pc # "idle" => th[u].at # th[t].at

Stamped ==
    /\ interactions \subseteq links
    /\ \A l \in links : l.at <= clock
    /\ \A r \in Requests : ingests[r].at <= clock
    /\ \A t \in Threads : th[t].pc # "idle" => StampOfThread(t)

-----------------------------------------------------------------------------
(* The owner's two gates. *)

\* A gate: the state that waits for the owner, the decisions that lead out of
\* it, and where a handler is that will send the links for them.
First == [state |-> "awaiting_classification",
          decisions |-> {"confirm", "reject"},
          senders |-> {"notify", "correct", "renotify"}]

Second == [state |-> "awaiting_approval", decisions |-> {"approve", "revise"},
           senders |-> {"deliver"}]

Gates == {First, Second}

Sending(r, g) ==
    \/ ingests[r].pc \in g.senders
    \/ \E t \in Threads :
          th[t].pc \in g.senders /\ th[t].pc # "idle" /\ On(t) = r

\* A thread has recorded a link for the gate, and its copy is still there: the
\* step it takes next leads out of the gate.
Deciding(r, g) ==
    \E t \in Threads :
        /\ th[t].pc = "apply" /\ On(t) = r
        /\ th[t].rec.state = g.state /\ th[t].link.decision \in g.decisions

\* A link that is not used up, and that no click of it will waste: a click that
\* holds it found the request at the gate.
Usable(l, g) ==
    /\ l \in links \ interactions
    /\ \A t \in Threads : th[t].pc \in {"check", "record"} /\ th[t].link = l =>
          th[t].rec.state = g.state

Open(r, g) ==
    \A d \in g.decisions : \E l \in links :
        l.request_id = r /\ l.decision = d /\ Usable(l, g)

Attended(r, g) ==
    requests[r].state = g.state =>
        Sending(r, g) \/ Deciding(r, g) \/ Open(r, g)

OwnerIsAttended == \A r \in Requests, g \in Gates : Attended(r, g)

-----------------------------------------------------------------------------
LEMMA NotificationStamps ==
    ASSUME NEW r, NEW i, NEW at, NEW no,
           NEW l \in classification_links(r, i, at) \cup approval_links(r, i, at, no)
    PROVE  l.at = at /\ l.request_id = r
BY DEF classification_links, approval_links, issue

LEMMA SentAreKept ==
    ASSUME NEW new, Send(new)
    PROVE  links \subseteq links'
BY DEF Send

\* What a step of t does to the mailbox and to the links used.
LEMMA ThreadMail ==
    ASSUME IInv, NEW t \in Threads, ThreadStep(t)
    PROVE  /\ interactions' = IF th[t].pc = "record"
                              THEN interactions \cup {th[t].link}
                              ELSE interactions
           /\ links \subseteq links'
           /\ th'[t].pc # "idle" => links' = links
           /\ \A l \in links' : l \in links \/ l.at = th[t].at
<1>1. CASE Renotify(t) \/ Deliver(t)
  <2>1. TypeOK /\ Return(t) /\ interactions' = interactions
        /\ th[t].pc # "record"
    BY <1>1 DEF Renotify, Deliver, IInv
  <2>2. links \subseteq links'
    BY <1>1, SentAreKept
       DEF Renotify, Deliver, notify_classification, deliver_document
  <2>3. \A l \in links' : l \in links \/ l.at = th[t].at
    BY <1>1, SentLinks, NotificationStamps
       DEF Renotify, Deliver, notify_classification, deliver_document
  <2> QED
    BY <2>1, <2>2, <2>3, ReturnMoves
<1>2. CASE ~(Renotify(t) \/ Deliver(t))
  <2>1. links' = links
    BY <1>2 DEF ThreadStep, CheckInteraction, RecordInteraction, ApplyDecision,
       RefuseDecision, CorrectIntent, Generate, Fail, StoreArtifacts,
       StoreRaises, AddRevision, Generated, Rendered
  <2>2. interactions' = IF th[t].pc = "record"
                        THEN interactions \cup {th[t].link}
                        ELSE interactions
    BY <1>2 DEF ThreadStep, CheckInteraction, RecordInteraction, ApplyDecision,
       RefuseDecision, CorrectIntent, Generate, Fail, StoreArtifacts,
       StoreRaises, AddRevision, Generated, Rendered
  <2> QED
    BY <2>1, <2>2
<1> QED
  BY <1>1, <1>2

LEMMA StampedThread ==
    ASSUME IInv, Stamped, NEW t \in Threads, ThreadStep(t)
    PROVE  Stamped'
<1>1. /\ Moves(t) /\ th[t].pc # "idle" /\ StampOfThread(t)
  BY ThreadMoves, StepFacts DEF Stamped
<1>2. /\ UNCHANGED <<ingests, clock>>
      /\ \A u \in Threads : u # t => th'[u] = th[u]
      /\ th'[t].pc # "idle" => th'[t].link = th[t].link /\ th'[t].at = th[t].at
  BY <1>1 DEF Moves
<1>3. /\ interactions' \subseteq links'
      /\ \A l \in links' : l.at <= clock'
      /\ \A r \in Requests : ingests'[r].at <= clock'
  BY <1>1, <1>2, ThreadMail DEF Stamped, StampOfThread
<1>4. ASSUME NEW v \in Threads, th'[v].pc # "idle" PROVE StampOfThread(v)'
  <2>1. /\ th[v].pc # "idle" /\ th'[v].link = th[v].link
        /\ th'[v].at = th[v].at
    BY <1>1, <1>2, <1>4
  <2>2. StampOfThread(v)
    BY <2>1 DEF Stamped
  <2>3. \A l \in links' : l.at # th[v].at
    BY <1>1, <1>2, <1>4, <2>1, <2>2, ThreadMail DEF StampOfThread
  <2>4. \A u \in Threads : u # v /\ th'[u].pc # "idle" => th'[u].at # th[v].at
    BY <1>1, <1>2, <2>2 DEF StampOfThread
  <2> QED
    BY <1>2, <2>1, <2>2, <2>3, <2>4, ThreadMail DEF StampOfThread
<1> QED
  BY <1>3, <1>4 DEF Stamped

LEMMA StampedIngest ==
    ASSUME IInv, Stamped, NEW r \in Requests, Receive(r) \/ IngestStep(r)
    PROVE  Stamped'
<1>1. TypeOK /\ clock \in Nat
  BY DEF IInv, TypeOK
<1>2. UNCHANGED <<th, interactions>>
  BY DEF Receive, IngestStep, Advance, Classify, ClassifyRaises, Notify
<1>3. /\ clock <= clock' /\ links \subseteq links'
      /\ \A l \in links' : l \in links \/ l.at = ingests[r].at
      /\ \A q \in Requests : \/ ingests'[q].at = ingests[q].at
                              \/ /\ ingests'[q].at = clock + 1
                                 /\ clock' = clock + 1
  <2>1. CASE Receive(r)
    BY <1>1, <2>1 DEF Receive, TypeOK
  <2>2. CASE IngestStep(r)
    <3>1. clock' = clock
      BY <2>2 DEF IngestStep, Advance, Classify, ClassifyRaises, Notify
    <3>2. \E pc \in IngestPC : ingests' = [ingests EXCEPT ![r].pc = pc]
      BY <2>2 DEF IngestStep, Advance, Classify, ClassifyRaises, Notify,
                  IngestTransition, IngestPC
    <3>3. \A q \in Requests : ingests'[q].at = ingests[q].at
      BY <1>1, <3>2 DEF TypeOK, Ingest
    <3>4. /\ links \subseteq links'
          /\ \A l \in links' : l \in links \/ l.at = ingests[r].at
      <4>1. CASE Notify(r)
        BY <4>1, SentAreKept, SentLinks, NotificationStamps
           DEF Notify, notify_classification
      <4>2. CASE ~Notify(r)
        BY <2>2, <4>2 DEF IngestStep, Advance, Classify, ClassifyRaises
      <4> QED
        BY <4>1, <4>2
    <3> QED
      BY <1>1, <3>1, <3>3, <3>4
  <2> QED
    BY <2>1, <2>2
<1>4. ASSUME NEW t \in Threads, th[t].pc # "idle" PROVE StampOfThread(t)'
  <2>1. /\ StampOfThread(t) /\ th[t].at \in Nat /\ th[t].at <= clock
        /\ clock' \in Nat
    BY <1>1, <1>4, BusyIsHandler, TypeReceive, TypeIngestStep
       DEF Stamped, StampOfThread, Handler, TypeOK
  <2>2. th[t].link \in links' /\ th[t].at <= clock'
    BY <1>1, <1>3, <2>1 DEF StampOfThread
  <2>3. \A l \in links' : l.at # th[t].at
    BY <1>3, <2>1 DEF StampOfThread
  <2>4. \A q \in Requests : ingests'[q].at # th[t].at
    BY <1>1, <1>3, <2>1 DEF StampOfThread
  <2> QED
    BY <1>2, <2>1, <2>2, <2>3, <2>4 DEF StampOfThread
<1>5. /\ interactions \subseteq links'
      /\ \A l \in links' : l.at <= clock'
      /\ \A q \in Requests : ingests'[q].at <= clock'
  <2>1. /\ \A q \in Requests : ingests[q].at \in Nat /\ ingests[q].at <= clock
        /\ \A l \in links : l.at \in Nat /\ l.at <= clock
        /\ clock' \in Nat
    BY <1>1, TypeReceive, TypeIngestStep DEF Stamped, TypeOK, Ingest, Link
  <2> QED
    BY <1>1, <1>3, <2>1 DEF Stamped
<1> QED
  BY <1>2, <1>4, <1>5 DEF Stamped

LEMMA StampedRest ==
    ASSUME IInv, Stamped,
           \/ \E t \in Threads, l \in links, f \in BOOLEAN : Click(t, l, f)
           \/ Expire \/ Restart \/ UNCHANGED vars
    PROVE  Stamped'
<1>1. TypeOK /\ clock \in Nat
  BY DEF IInv, TypeOK
<1>2. ASSUME NEW t \in Threads, NEW l \in links, NEW f \in BOOLEAN,
             Click(t, l, f)
      PROVE  Stamped'
  <2>1. /\ \A u \in Threads : u # t => th'[u] = th[u]
        /\ UNCHANGED <<links, interactions, ingests>> /\ clock' = clock + 1
        /\ th'[t].link = l /\ th'[t].at = clock + 1
    <3> DEFINE h == [pc |-> "check", link |-> l,
                     feedback |-> f /\ l.decision = "revise",
                     rec |-> requests[l.request_id], at |-> clock + 1,
                     basis |-> 0]
    <3>1. th' = [th EXCEPT ![t] = h]
      BY <1>2 DEF Click
    <3>2. h.link = l /\ h.at = clock + 1
      OBVIOUS
    <3> HIDE DEF h
    <3> QED
      BY <1>1, <1>2, <3>1, <3>2 DEF TypeOK, Click
  <2>2. /\ \A q \in Requests : ingests[q].at \in Nat /\ ingests[q].at <= clock
        /\ \A k \in links : k.at \in Nat /\ k.at <= clock
        /\ \A u \in Threads : th[u].pc # "idle" =>
              th[u].at \in Nat /\ th[u].at <= clock
    BY <1>1, BusyIsHandler DEF Stamped, StampOfThread, TypeOK, Ingest, Link, Handler
  <2>3. ASSUME NEW v \in Threads, th'[v].pc # "idle" PROVE StampOfThread(v)'
    <3>1. CASE v = t
      BY <1>1, <2>1, <2>2, <3>1 DEF StampOfThread
    <3>2. CASE v # t
      BY <1>1, <2>1, <2>2, <2>3, <3>2 DEF StampOfThread, Stamped
    <3> QED
      BY <3>1, <3>2
  <2> QED
    BY <1>1, <2>1, <2>2, <2>3 DEF Stamped
<1>3. CASE Restart
  <2>1. /\ \A t \in Threads : th'[t].pc = "idle"
        /\ \A r \in Requests : ingests'[r].at = ingests[r].at
        /\ interactions' = {} /\ UNCHANGED <<links, clock>>
    BY <1>1, <1>3 DEF Restart, Idle, TypeOK, Ingest
  <2> QED
    BY <2>1 DEF Stamped
<1>4. CASE Expire \/ UNCHANGED vars
  <2>1. UNCHANGED <<links, interactions, ingests, th, clock>>
    BY <1>4 DEF Expire, vars
  <2> QED
    BY <2>1 DEF Stamped, StampOfThread
<1> QED
  BY <1>2, <1>3, <1>4

LEMMA StampedNext == IInv /\ Stamped /\ [Next]_vars => Stamped'
BY StampedThread, StampedIngest, StampedRest DEF Next

LEMMA StampedInit == Init => Stamped
BY DEF Init, Stamped, Idle

-----------------------------------------------------------------------------
(* The gates stay attended.                                                *)

LEMMA GateFacts ==
    ASSUME NEW g \in Gates
    PROVE  \/ /\ g = First /\ g.state = "awaiting_classification"
              /\ g.decisions = {"confirm", "reject"}
              /\ g.senders = {"notify", "correct", "renotify"}
           \/ /\ g = Second /\ g.state = "awaiting_approval"
              /\ g.decisions = {"approve", "revise"}
              /\ g.senders = {"deliver"}
BY DEF Gates, First, Second

\* A link that has just gone out is usable.
LEMMA NewIsUsable ==
    ASSUME Stamped, NEW g, NEW l \in links', l \notin links,
           interactions' = interactions,
           \A t \in Threads : th'[t].pc # "idle" => th'[t] = th[t]
    PROVE  Usable(l, g)'
BY DEF Stamped, StampOfThread, Usable

LEMMA QuestionOpens ==
    ASSUME Stamped, NEW r, NEW i, NEW at,
           links' = links \cup classification_links(r, i, at),
           \A l \in classification_links(r, i, at) : l \notin links,
           interactions' = interactions,
           \A t \in Threads : th'[t].pc # "idle" => th'[t] = th[t]
    PROVE  Open(r, First)'
<1> SUFFICES ASSUME NEW d \in {"confirm", "reject"}
             PROVE  \E l \in links' :
                        l.request_id = r /\ l.decision = d /\ Usable(l, First)'
  BY DEF Open, First
<1> DEFINE l == issue(r, d, "none", i, at, 0)
<1>1. l \in classification_links(r, i, at)
  BY DEF classification_links
<1>2. l.request_id = r /\ l.decision = d
  BY DEF issue
<1> HIDE DEF l
<1>3. l \in links' /\ l \notin links
  BY <1>1
<1>4. Usable(l, First)'
  BY <1>3, NewIsUsable
<1> QED
  BY <1>2, <1>3, <1>4

LEMMA ReviewOpens ==
    ASSUME Stamped, NEW r, NEW i, NEW at, NEW no,
           links' = links \cup approval_links(r, i, at, no),
           \A l \in approval_links(r, i, at, no) : l \notin links,
           interactions' = interactions,
           \A t \in Threads : th'[t].pc # "idle" => th'[t] = th[t]
    PROVE  Open(r, Second)'
<1> SUFFICES ASSUME NEW d \in {"approve", "revise"}
             PROVE  \E l \in links' :
                        l.request_id = r /\ l.decision = d /\ Usable(l, Second)'
  BY DEF Open, Second
<1> DEFINE l == issue(r, d, "none", i, at, no)
<1>1. l \in approval_links(r, i, at, no)
  BY DEF approval_links
<1>2. l.request_id = r /\ l.decision = d
  BY DEF issue
<1> HIDE DEF l
<1>3. l \in links' /\ l \notin links
  BY <1>1
<1>4. Usable(l, Second)'
  BY <1>3, NewIsUsable
<1> QED
  BY <1>2, <1>3, <1>4

LEMMA SenderOpens ==
    ASSUME IInv, Stamped, "notify" \notin Faults,
           NEW t \in Threads, ThreadStep(t), NEW r, r = On(t), NEW g \in Gates,
           th[t].pc \in g.senders, th[t].pc \in {"renotify", "deliver"}
    PROVE  Open(r, g)'
<1>1. /\ TypeOK /\ th[t].pc # "idle" /\ StampOfThread(t)
  BY StepFacts DEF Stamped
<1>2. Renotify(t) \/ Deliver(t)
  BY DEF ThreadStep, CheckInteraction, RecordInteraction, ApplyDecision,
     RefuseDecision, CorrectIntent, Generate, Fail, StoreArtifacts,
     StoreRaises, AddRevision, Generated, Rendered
<1>3. /\ interactions' = interactions /\ Return(t)
  BY <1>2 DEF Renotify, Deliver
<1>4. \A u \in Threads : th'[u].pc # "idle" => th'[u] = th[u]
  BY <1>1, <1>3, ReturnMoves
<1>5. CASE g = First
  <2> DEFINE new == classification_links(r, th[t].rec.intent, th[t].at)
  <2>1. Renotify(t)
    BY <1>2, <1>5 DEF First, Deliver
  <2>2. links' = links \cup new
    BY <2>1 DEF Renotify, notify_classification, Send, SendRaises
  <2>3. \A l \in new : l \notin links
    BY <1>1, NotificationStamps DEF StampOfThread
  <2> QED
    BY <1>3, <1>4, <1>5, <2>2, <2>3, QuestionOpens
<1>6. CASE g = Second
  <2> DEFINE new == approval_links(r, th[t].rec.intent, th[t].at,
                                   th[t].rec.current_revision)
  <2>1. Deliver(t)
    BY <1>2, <1>6 DEF Second, Renotify
  <2>2. links' = links \cup new
    BY <2>1 DEF Deliver, deliver_document, Send, SendRaises
  <2>3. \A l \in new : l \notin links
    BY <1>1, NotificationStamps DEF StampOfThread
  <2> QED
    BY <1>3, <1>4, <1>6, <2>2, <2>3, ReviewOpens
<1> QED
  BY <1>5, <1>6, GateFacts

\* A decision of the gate, applied to a copy that is at the gate, is legal.
LEMMA GateDecisions ==
    ASSUME NEW g \in Gates, NEW d \in g.decisions
    PROVE  Legal(g.state, trigger_for[d])
BY GateFacts DEF Legal, trigger_for, TRANSITIONS, Edges, RequestState

LEMMA AttendedThread ==
    ASSUME IInv, Stamped, "notify" \notin Faults,
           NEW t \in Threads, ThreadStep(t),
           NEW r \in Requests, NEW g \in Gates, Attended(r, g)
    PROVE  Attended(r, g)'
<1> SUFFICES ASSUME requests'[r].state = g.state
             PROVE  Sending(r, g)' \/ Deciding(r, g)' \/ Open(r, g)'
  BY DEF Attended
<1>0. /\ Moves(t) /\ th[t].pc # "idle" /\ On(t) \in Requests
      /\ UNCHANGED ingests
      /\ \A u \in Threads : u # t => th'[u] = th[u] /\ On(u)' = On(u)
      /\ th'[t].pc # "idle" => On(t)' = On(t) /\ th'[t].link = th[t].link
  BY ThreadMoves, StepFacts DEF Moves, On
<1>1. CASE r = On(t) /\ Saving(t)
  <2>1. th'[t].pc \in g.senders /\ th'[t].pc # "idle"
    BY <1>1, GateFacts DEF Saving, DecisionMoves, SavingMoves
  <2> QED
    BY <1>0, <1>1, <2>1 DEF Sending
<1>2. CASE ~(r = On(t) /\ Saving(t))
  <2>1. requests'[r] = requests[r] /\ (r = On(t) => Quiet(t))
    BY <1>0, <1>2 DEF Moves, Quiet
  <2>2. Sending(r, g) \/ Deciding(r, g) \/ Open(r, g)
    BY <2>1 DEF Attended
  <2>3. CASE Sending(r, g)
    <3>1. CASE th[t].pc \in g.senders /\ On(t) = r
      <4>1. th[t].pc \in {"renotify", "deliver"}
        BY <2>1, <3>1, GateFacts DEF Quiet, QuietMoves
      <4> QED
        BY <3>1, <4>1, SenderOpens
    <3>2. CASE ~(th[t].pc \in g.senders /\ On(t) = r)
      BY <1>0, <2>3, <3>2 DEF Sending
    <3> QED
      BY <3>1, <3>2
  <2>4. CASE Deciding(r, g)
    <3>1. PICK v \in Threads :
             /\ th[v].pc = "apply" /\ On(v) = r
             /\ th[v].rec.state = g.state /\ th[v].link.decision \in g.decisions
      BY <2>4 DEF Deciding
    <3>2. v # t
      BY <2>1, <3>1, GateDecisions DEF Quiet
    <3> QED
      BY <1>0, <3>1, <3>2 DEF Deciding
  <2>5. CASE Open(r, g)
    <3>1. CASE /\ th[t].pc = "record" /\ On(t) = r /\ th[t].rec.state = g.state
               /\ th[t].link.decision \in g.decisions
      <4>1. th'[t].pc = "apply" /\ th'[t].rec = th[t].rec
        BY <2>1, <3>1 DEF Quiet, QuietMoves
      <4> QED
        BY <1>0, <3>1, <4>1 DEF Deciding
    <3>2. CASE ~(/\ th[t].pc = "record" /\ On(t) = r
                 /\ th[t].rec.state = g.state
                 /\ th[t].link.decision \in g.decisions)
      <4> SUFFICES ASSUME NEW d \in g.decisions
                   PROVE  \E l \in links' : /\ l.request_id = r
                                            /\ l.decision = d
                                            /\ Usable(l, g)'
        BY DEF Open
      <4>1. PICK l \in links :
               l.request_id = r /\ l.decision = d /\ Usable(l, g)
        BY <2>5 DEF Open
      <4>2. l \in links' /\ l \notin interactions'
        BY <3>2, <4>1, ThreadMail DEF Usable, On
      <4>3. ASSUME NEW u \in Threads, th'[u].pc \in {"check", "record"},
                   th'[u].link = l
            PROVE  th'[u].rec.state = g.state
        <5>1. CASE u # t
          BY <1>0, <4>1, <4>3, <5>1 DEF Usable
        <5>2. CASE u = t
          <6>1. On(t) = r /\ th[t].link = l
            BY <1>0, <4>1, <4>3, <5>2 DEF On
          <6>2. th[t].pc = "check" /\ th'[t].rec = th[t].rec
            BY <2>1, <4>3, <5>2, <6>1 DEF Quiet, QuietMoves
          <6> QED
            BY <4>1, <5>2, <6>1, <6>2 DEF Usable
        <5> QED
          BY <5>1, <5>2
      <4> QED
        BY <4>1, <4>2, <4>3 DEF Usable
    <3> QED
      BY <3>1, <3>2
  <2> QED
    BY <2>2, <2>3, <2>4, <2>5
<1> QED
  BY <1>1, <1>2

\* Before its first notification a request has neither links nor clicks.
LEMMA AloneIsSending ==
    ASSUME IInv, NEW r \in Requests, ingests[r].pc \notin {"sent", "done"},
           NEW g \in Gates, Attended(r, g), requests[r].state = g.state
    PROVE  ingests[r].pc = "notify" /\ g = First
<1>1. /\ \A l \in links : l.request_id # r
      /\ \A t \in Threads : th[t].pc # "idle" => On(t) # r
  BY DEF IInv, AfterIngest
<1>2. ~Deciding(r, g) /\ ~Open(r, g)
  BY <1>1, GateFacts DEF Deciding, Open
<1>3. ingests[r].pc \in g.senders
  BY <1>1, <1>2 DEF Attended, Sending
<1>4. ingests[r].pc \in IngestPC
  BY DEF IInv, TypeOK, Ingest
<1> QED
  BY <1>3, <1>4, GateFacts DEF IngestPC

LEMMA AttendedIngest ==
    ASSUME IInv, Stamped, "notify" \notin Faults,
           NEW r \in Requests, Receive(r) \/ IngestStep(r),
           NEW q \in Requests, NEW g \in Gates, Attended(q, g)
    PROVE  Attended(q, g)'
<1> SUFFICES ASSUME requests'[q].state = g.state
             PROVE  Sending(q, g)' \/ Deciding(q, g)' \/ Open(q, g)'
  BY DEF Attended
<1>1. TypeOK
  BY DEF IInv
<1>2. /\ UNCHANGED <<th, interactions>>
      /\ q # r => requests'[q] = requests[q] /\ ingests'[q] = ingests[q]
  BY <1>1 DEF Receive, IngestStep, Advance, Classify, ClassifyRaises, Notify,
              IngestTransition, Save, TypeOK
<1>3. links \subseteq links'
  <2>1. CASE Notify(r)
    BY <2>1, SentAreKept DEF Notify, notify_classification
  <2>2. CASE ~Notify(r)
    BY <2>2 DEF Receive, IngestStep, Advance, Classify, ClassifyRaises
  <2> QED
    BY <2>1, <2>2
<1>4. CASE q # r
  <2>1. Sending(q, g) \/ Deciding(q, g) \/ Open(q, g)
    BY <1>2, <1>4 DEF Attended
  <2>2. /\ Sending(q, g) => Sending(q, g)'
        /\ Deciding(q, g) => Deciding(q, g)'
    BY <1>2, <1>4 DEF Sending, Deciding, On
  <2>3. Open(q, g) => Open(q, g)'
    BY <1>2, <1>3 DEF Open, Usable
  <2> QED
    BY <2>1, <2>2, <2>3
<1>5. CASE q = r
  <2>1. CASE Receive(r) \/ Advance(r)
    <3>1. requests'[r].state \in IngestStates
      <4>1. CASE Receive(r)
        BY <1>1, <4>1 DEF Receive, Save, TypeOK, IngestStates
      <4>2. CASE Advance(r)
        <5>1. PICK x \in {"start_aggregation", "window_closed",
                          "media_processed"} :
                 <<requests[r].state, x, requests'[r].state>> \in TRANSITIONS
          BY <1>1, <4>2, IngestTransitionSaves DEF Advance
        <5> QED
          BY <5>1, ServiceEdges DEF IngestStates
      <4> QED
        BY <2>1, <4>1, <4>2
    <3> QED
      BY <1>5, <3>1, GateFacts DEF IngestStates
  <2>2. CASE Classify(r)
    <3>1. CASE \E i \in Actionable :
                  IngestTransition(r, i, "classified_actionable", "notify")
      <4>1. <<requests[r].state, "classified_actionable", requests'[r].state>>
               \in TRANSITIONS
        BY <1>1, <3>1, IngestTransitionSaves
      <4>2. g = First
        <5>1. requests'[r].state = "awaiting_classification"
          BY <4>1, ServiceEdges
        <5> QED
          BY <1>5, <5>1, GateFacts
      <4>3. ingests'[r].pc = "notify"
        BY <1>1, <3>1 DEF IngestTransition, TypeOK, Ingest
      <4> QED
        BY <1>5, <4>2, <4>3 DEF Sending, First
    <3>2. CASE \E pc \in {"notify", "done"} :
                  IngestTransition(r, "none", "classified_none", pc)
      <4>1. <<requests[r].state, "classified_none", requests'[r].state>>
               \in TRANSITIONS
        BY <1>1, <3>2, IngestTransitionSaves
      <4>2. requests'[r].state = "discarded"
        BY <4>1, ServiceEdges
      <4> QED
        BY <1>5, <4>2, GateFacts
    <3> QED
      BY <2>2, <3>1, <3>2 DEF Classify
  <2>3. CASE ClassifyRaises(r)
    BY <1>5, <2>3, AloneIsSending DEF ClassifyRaises
  <2>4. CASE Notify(r)
    <3> DEFINE new == classification_links(r, requests[r].intent, ingests[r].at)
    <3>1. g = First
      BY <1>5, <2>4, AloneIsSending DEF Notify
    <3>2. links' = links \cup new
      BY <2>4 DEF Notify, notify_classification, Send, SendRaises
    <3>3. \A l \in new : l \notin links
      BY <2>4, NotificationStamps DEF Notify, IInv, AfterIngest
    <3> QED
      BY <1>2, <1>5, <3>1, <3>2, <3>3, QuestionOpens
  <2> QED
    BY <2>1, <2>2, <2>3, <2>4 DEF IngestStep
<1> QED
  BY <1>4, <1>5

LEMMA AttendedClick ==
    ASSUME IInv, NEW t \in Threads, NEW l \in links, NEW f \in BOOLEAN,
           Click(t, l, f), NEW r \in Requests, NEW g \in Gates, Attended(r, g)
    PROVE  Attended(r, g)'
<1>1. /\ \A u \in Threads : u # t => th'[u] = th[u] /\ On(u)' = On(u)
      /\ UNCHANGED <<requests, links, interactions, ingests>>
      /\ th[t].pc = "idle"
      /\ th'[t].link = l /\ th'[t].rec = requests[l.request_id]
  <2> DEFINE h == [pc |-> "check", link |-> l,
                   feedback |-> f /\ l.decision = "revise",
                   rec |-> requests[l.request_id], at |-> clock + 1,
                   basis |-> 0]
  <2>1. th' = [th EXCEPT ![t] = h]
    BY DEF Click
  <2>2. h.link = l /\ h.rec = requests[l.request_id]
    OBVIOUS
  <2> HIDE DEF h
  <2> QED
    BY <2>1, <2>2 DEF IInv, TypeOK, Click, On
<1>2. Sending(r, g) => Sending(r, g)'
  BY <1>1 DEF Sending
<1>3. Deciding(r, g) => Deciding(r, g)'
  BY <1>1 DEF Deciding
<1>4. requests[r].state = g.state /\ Open(r, g) => Open(r, g)'
  BY <1>1 DEF Open, Usable
<1> QED
  BY <1>1, <1>2, <1>3, <1>4 DEF Attended

LEMMA AttendedRest ==
    ASSUME NEW r \in Requests, NEW g \in Gates, Attended(r, g),
           Expire \/ Restart \/ UNCHANGED vars
    PROVE  Attended(r, g)'
<1>1. CASE Restart
  <2>1. requests'[r].state = "absent"
    BY <1>1 DEF Restart, Absent
  <2> QED
    BY <2>1, GateFacts DEF Attended
<1>2. CASE Expire \/ UNCHANGED vars
  <2>1. UNCHANGED <<requests, links, interactions, ingests, th>>
    BY <1>2 DEF Expire, vars
  <2> QED
    BY <2>1 DEF Attended, Sending, Deciding, Open, Usable, On
<1> QED
  BY <1>1, <1>2

\* While notifications go out, a request that waits for the owner with no
\* handler at work on it has unused links for each decision that leads on, in
\* every interleaving of clicks, refused ones and double ones included: only
\* time takes a decision away from the owner.
THEOREM OwnerNeverStrandedAlways ==
    ASSUME "notify" \notin Faults
    PROVE  Spec => []OwnerNeverStranded
<1>1. Init => OwnerIsAttended
  BY GateFacts DEF Init, OwnerIsAttended, Attended, Absent
<1>2. IInv /\ Stamped /\ OwnerIsAttended /\ [Next]_vars => OwnerIsAttended'
  BY AttendedThread, AttendedIngest, AttendedClick, AttendedRest
     DEF Next, OwnerIsAttended
<1>3. OwnerIsAttended => OwnerNeverStranded
  <2> SUFFICES ASSUME OwnerIsAttended, NEW r \in Requests, ~Busy(r),
                      NEW g \in Gates, requests[r].state = g.state,
                      NEW d \in g.decisions
               PROVE  CanDecide(r, d)
    BY DEF OwnerNeverStranded, Gates, First, Second
  <2>1. ~Sending(r, g) /\ ~Deciding(r, g)
    BY GateFacts DEF Busy, Sending, Deciding
  <2> QED
    BY <2>1 DEF OwnerIsAttended, Attended, Open, Usable, CanDecide
<1> QED
  BY <1>1, <1>2, <1>3, Soundness, StampedInit, StampedNext, PTL DEF Spec

=============================================================================
