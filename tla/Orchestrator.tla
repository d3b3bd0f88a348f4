---------------------------- MODULE Orchestrator ----------------------------
(***************************************************************************)
(* orchestrator/orchestrator.py over persistence/repository.py, with the   *)
(* links of hitl/ and the endpoint GET /hitl/action of api/app.py.         *)
(*                                                                         *)
(* Two kinds of process share the in-memory repository, without a lock:    *)
(*  - ingest(r), run once for each aggregated batch r;                     *)
(*  - the threads of the server's pool, each serving one clicked link      *)
(*    (hitl_action is a plain def, so clicks run concurrently).            *)
(* A handler works on its own copy of the record and saves the whole of    *)
(* it, so a step below is one access to shared state with the local        *)
(* computation around it.                                                  *)
(*                                                                         *)
(* A notification goes out on one or two channels in turn, with the same   *)
(* links in every copy. The owner may click on the first copy while the    *)
(* handler still sends: the step that sends is the one that puts that copy *)
(* in the mailbox. The handler saves nothing after it.                     *)
(*                                                                         *)
(* A refusal that changes nothing is not an action: a link that is forged  *)
(* or expired (400) and a request the repository does not hold (404).      *)
(* Verifying a link reads only the clock and is merged with the read of    *)
(* the request that follows it.                                            *)
(***************************************************************************)
EXTENDS Naturals, Sequences, Workflow

CONSTANTS
    Requests,        \* ids the aggregator gives to closed batches
    Threads,         \* threads of the pool that serves GET /hitl/action
    Faults,          \* external calls that may raise, see FaultSites
    notify_on_none,  \* the setting of that name
    MaxStamps,       \* bound: handlers that may start
    MaxExpired,      \* bound: stamps whose links may expire
    MaxRestarts      \* bound: restarts of the process

\* The external calls whose exceptions no handler catches: the classifier's
\* LLM, the renderer and the object store, the notifiers.
FaultSites == {"classify", "store", "notify"}

ASSUME ConstantsAssumption ==
    /\ Faults \subseteq FaultSites
    /\ notify_on_none \in BOOLEAN
    /\ {MaxStamps, MaxExpired, MaxRestarts} \subseteq Nat

VARIABLES
    requests,      \* _requests: the saved record of every request
    revisions,     \* _revisions: the document revisions of a request
    artifacts,     \* object storage: the handler whose files have a name
    interactions,  \* _interactions: the links recorded as used
    links,         \* the links in the owner's mailbox
    clock,         \* the number of time stamps handlers have read
    expired,       \* links issued with a stamp up to this one have expired
    ingests,       \* the progress of ingest for every request
    th,            \* the progress of every thread of the pool
    restarts,      \* restarts so far
    effects,       \* history: which handler applied which link, with feedback?
    raised         \* history: requests a handler raised an error on

vars == <<requests, revisions, artifacts, interactions, links, clock, expired,
          ingests, th, restarts, effects, raised>>

-----------------------------------------------------------------------------
(* Data. *)

\* The fields of Request that the properties tell apart; "absent" is an id
\* that get_request does not find.
Record == [state : RequestState \cup {"absent"},
           intent : Intent, current_revision : Nat]

Absent == [state |-> "absent", intent |-> "none", current_revision |-> 0]

\* An ActionToken. Its expires_at is the stamp `at` of the handler that issued
\* it plus a fixed time to live; `shown` is the intent that the notification
\* around the link names. Two clicks on equal tokens have the same action id.
Link == [request_id : Requests, decision : OwnerDecision, at : Nat,
         intent : Intent, shown : Intent, revision_no : Nat]

\* A DocumentRevision; `at` is the handler that made it and `basis` the number
\* of revisions whose last one was in the prompt (0: none was).
Revision == [revision_no : Nat, at : Nat, intent : Intent, basis : Nat]

IngestPC ==
    {"new", "start", "window", "media", "classify", "notify", "sent", "done"}

Ingest == [pc : IngestPC, at : Nat]

ThreadPC == {"idle", "check", "record", "apply", "correct", "renotify",
             "generate", "fail", "put", "add", "generated", "rendered",
             "deliver"}

\* A thread's local variables: the action, the feedback, its copy of the
\* request, its `now` and the basis of the document it generates.
Handler == [pc : ThreadPC, link : Link, feedback : BOOLEAN, rec : Record,
            at : Nat, basis : Nat]

Idle == [pc |-> "idle"]

\* The files of a revision: their names are made of the request, the revision
\* number and the intent.
Artifact == [request_id : Requests, revision_no : Nat, intent : Intent, at : Nat]

\* Mutant: decision and intent are swapped in the token.
IssueSwapped(r, decision, intent, shown, at, no) ==
    [request_id |-> r, decision |-> intent, at |-> at, intent |-> decision,
     shown |-> shown, revision_no |-> no]

\* Mutant: neither expiry nor revision in the token, so that the links of two
\* notifications are equal.
IssueUndated(r, decision, intent, shown, at, no) ==
    [request_id |-> r, decision |-> decision, at |-> 1, intent |-> intent,
     shown |-> shown, revision_no |-> 0]

\* TokenSigner.issue.
issue(r, decision, intent, shown, at, no) ==
    [request_id |-> r, decision |-> decision, at |-> at, intent |-> intent,
     shown |-> shown, revision_no |-> no]

\* Mutant: a correction is offered for every intent.
LinksForEveryIntent(r, shown, at) ==
    {issue(r, d, "none", shown, at, 0) : d \in {"confirm", "reject"}}
    \cup {issue(r, "correct", i, shown, at, 0) : i \in Intent}

\* Confirm, "It's a quote", "It's an execution plan", Reject.
classification_links(r, shown, at) ==
    {issue(r, "confirm", "none", shown, at, 0),
     issue(r, "correct", "quote", shown, at, 0),
     issue(r, "correct", "execution_plan", shown, at, 0),
     issue(r, "reject", "none", shown, at, 0)}

\* Approve, Request revision.
approval_links(r, shown, at, no) ==
    {issue(r, "approve", "none", shown, at, no),
     issue(r, "revise", "none", shown, at, no)}

\* TokenSigner.verify for a link of the mailbox, whose signature is right.
Verifies(l) == l.at > expired

-----------------------------------------------------------------------------
(* Helpers of the actions. *)

Save(r, rec) == requests' = [requests EXCEPT ![r] = rec]

Goto(t, pc) == th' = [th EXCEPT ![t].pc = pc]

Return(t) == th' = [th EXCEPT ![t] = Idle]

On(t) == th[t].link.request_id

\* _transition for a thread: its copy moves along the edge and is saved, and
\* the thread goes on at pc.
ThreadTransition(t, rec, trigger, pc) ==
    \E n \in RequestState :
        /\ <<rec.state, trigger, n>> \in TRANSITIONS
        /\ Save(On(t), [rec EXCEPT !.state = n])
        /\ th' = [th EXCEPT ![t].rec = [rec EXCEPT !.state = n],
                            ![t].pc = pc]

\* _transition for ingest, which nobody else's save can overtake: its copy is
\* the saved record.
IngestTransition(r, intent, trigger, pc) ==
    \E n \in RequestState :
        /\ <<requests[r].state, trigger, n>> \in TRANSITIONS
        /\ Save(r, [requests[r] EXCEPT !.state = n, !.intent = intent])
        /\ ingests' = [ingests EXCEPT ![r].pc = pc]

\* ChannelDispatcher.send up to the first copy in the mailbox ...
Send(new) == links' = links \cup new

\* ... and the rest of it, the other channel and the end of the session: the
\* handler reads and saves nothing any more, and may only raise. It is no step,
\* so others run while a handler still sends: an ingest stays "sent", and the
\* thread of a click counts as free.
SendRaises(r) == "notify" \in Faults /\ raised' = raised \cup {r}

EndSend(r) == UNCHANGED raised \/ SendRaises(r)

notify_classification(r, rec, at) ==
    Send(classification_links(r, rec.intent, at))

deliver_document(r, rec, at) ==
    Send(approval_links(r, rec.intent, at, rec.current_revision))

-----------------------------------------------------------------------------
(* ingest *)

\* Mutant: a batch is ingested again after it was done.
ReceiveAgain(r) ==
    /\ ingests[r].pc \in {"new", "done"}
    /\ clock < MaxStamps
    /\ clock' = clock + 1
    /\ ingests' = [ingests EXCEPT ![r] = [pc |-> "start", at |-> clock + 1]]
    /\ Save(r, [state |-> "received", intent |-> "none",
                current_revision |-> 0])
    /\ UNCHANGED <<revisions, artifacts, interactions, links, expired, th,
                   restarts, effects, raised>>

\* Request(state=RECEIVED), save_request, set_messages.
Receive(r) ==
    /\ ingests[r].pc = "new"
    /\ clock < MaxStamps
    /\ clock' = clock + 1
    /\ ingests' = [ingests EXCEPT ![r] = [pc |-> "start", at |-> clock + 1]]
    /\ Save(r, [state |-> "received", intent |-> "none",
                current_revision |-> 0])
    /\ UNCHANGED <<revisions, artifacts, interactions, links, expired, th,
                   restarts, effects, raised>>

\* The three transitions up to CLASSIFYING; build_transcript, before the last
\* of them, turns every failure into a segment of the transcript.
Advance(r) ==
    /\ \/ /\ ingests[r].pc = "start"
          /\ IngestTransition(r, "none", "start_aggregation", "window")
       \/ /\ ingests[r].pc = "window"
          /\ IngestTransition(r, "none", "window_closed", "media")
       \/ /\ ingests[r].pc = "media"
          /\ IngestTransition(r, "none", "media_processed", "classify")
    /\ UNCHANGED <<revisions, artifacts, interactions, links, clock, expired,
                   th, restarts, effects, raised>>

\* classify and the transition its result selects.
Classify(r) ==
    /\ ingests[r].pc = "classify"
    /\ \/ \E i \in Actionable :
             IngestTransition(r, i, "classified_actionable", "notify")
       \/ IngestTransition(r, "none", "classified_none",
                           IF notify_on_none THEN "notify" ELSE "done")
    /\ UNCHANGED <<revisions, artifacts, interactions, links, clock, expired,
                   th, restarts, effects, raised>>

\* ClassificationError, or an error of the LLM provider: nothing catches it.
ClassifyRaises(r) ==
    /\ ingests[r].pc = "classify"
    /\ "classify" \in Faults
    /\ ingests' = [ingests EXCEPT ![r].pc = "done"]
    /\ raised' = raised \cup {r}
    /\ UNCHANGED <<requests, revisions, artifacts, interactions, links, clock,
                   expired, th, restarts, effects>>

\* notify_classification, the last call of ingest: until its first copy is out,
\* or a notifier raises before that.
Notify(r) ==
    /\ ingests[r].pc = "notify"
    /\ \/ /\ notify_classification(r, requests[r], ingests[r].at)
          /\ EndSend(r)
          /\ ingests' = [ingests EXCEPT ![r].pc = "sent"]
       \/ /\ SendRaises(r)
          /\ UNCHANGED links
          /\ ingests' = [ingests EXCEPT ![r].pc = "done"]
    /\ UNCHANGED <<requests, revisions, artifacts, interactions, clock,
                   expired, th, restarts, effects>>

-----------------------------------------------------------------------------
(* GET /hitl/action: resolve_action, then apply_owner_action. *)

\* A link that verifies is clicked, with or without feedback, and its request
\* is found.
Click(t, l, feedback) ==
    /\ th[t].pc = "idle"
    /\ Verifies(l)
    /\ requests[l.request_id].state # "absent"
    /\ clock < MaxStamps
    /\ clock' = clock + 1
    /\ th' = [th EXCEPT ![t] =
                [pc |-> "check", link |-> l,
                 feedback |-> feedback /\ l.decision = "revise",
                 rec |-> requests[l.request_id], at |-> clock + 1,
                 basis |-> 0]]
    /\ UNCHANGED <<requests, revisions, artifacts, interactions, links,
                   expired, ingests, restarts, effects, raised>>

\* record_interaction, first half: a link used before is answered with the
\* request as it was read.
CheckInteraction(t) ==
    /\ th[t].pc = "check"
    /\ IF th[t].link \in interactions THEN Return(t) ELSE Goto(t, "record")
    /\ UNCHANGED <<requests, revisions, artifacts, interactions, links, clock,
                   expired, ingests, restarts, effects, raised>>

\* Mutant: the interaction is not stored.
RecordNothing(t) ==
    /\ th[t].pc = "record"
    /\ Goto(t, "apply")
    /\ UNCHANGED <<requests, revisions, artifacts, interactions, links, clock,
                   expired, ingests, restarts, effects, raised>>

\* record_interaction, second half.
RecordInteraction(t) ==
    /\ th[t].pc = "record"
    /\ interactions' = interactions \cup {th[t].link}
    /\ Goto(t, "apply")
    /\ UNCHANGED <<requests, revisions, artifacts, links, clock, expired,
                   ingests, restarts, effects, raised>>

\* Mutant: a correction is taken for a confirmation.
CorrectGenerates ==
    [confirm |-> "generate", revise |-> "generate", correct |-> "generate",
     reject |-> "return", approve |-> "return"]

\* Mutant: a revision is not generated.
ReviseReturns ==
    [confirm |-> "generate", revise |-> "return", correct |-> "correct",
     reject |-> "return", approve |-> "return"]

\* What follows the transition of a decision.
Continuation ==
    [confirm |-> "generate", revise |-> "generate", correct |-> "correct",
     reject |-> "return", approve |-> "return"]

\* Mutant: the state a trigger leads to is taken from anywhere.
ApplyUnchecked(t) ==
    /\ th[t].pc = "apply"
    /\ LET d == th[t].link.decision IN
       \E s, n \in RequestState :
          /\ <<s, trigger_for[d], n>> \in TRANSITIONS
          /\ Save(On(t), [th[t].rec EXCEPT !.state = n])
          /\ Return(t)
    /\ effects' = effects \cup
          {[link |-> th[t].link, at |-> th[t].at, feedback |-> th[t].feedback]}
    /\ UNCHANGED <<revisions, artifacts, interactions, links, clock, expired,
                   ingests, restarts, raised>>

\* The owner's transition is legal in the thread's copy.
ApplyDecision(t) ==
    /\ th[t].pc = "apply"
    /\ LET d == th[t].link.decision IN
       \E n \in RequestState :
          /\ <<th[t].rec.state, trigger_for[d], n>> \in TRANSITIONS
          /\ Save(On(t), [th[t].rec EXCEPT !.state = n])
          /\ IF Continuation[d] = "return"
             THEN Return(t)
             ELSE th' = [th EXCEPT ![t].rec.state = n,
                                   ![t].pc = Continuation[d]]
    /\ effects' = effects \cup
          {[link |-> th[t].link, at |-> th[t].at, feedback |-> th[t].feedback]}
    /\ UNCHANGED <<revisions, artifacts, interactions, links, clock, expired,
                   ingests, restarts, raised>>

\* IllegalTransitionError (409): the link stays recorded.
RefuseDecision(t) ==
    /\ th[t].pc = "apply"
    /\ ~Legal(th[t].rec.state, trigger_for[th[t].link.decision])
    /\ Return(t)
    /\ UNCHANGED <<requests, revisions, artifacts, interactions, links, clock,
                   expired, ingests, restarts, effects, raised>>

\* Mutant: the owner is not asked again.
CorrectQuietly(t) ==
    /\ th[t].pc = "correct"
    /\ Save(On(t), [th[t].rec EXCEPT !.intent = th[t].link.intent])
    /\ Return(t)
    /\ UNCHANGED <<revisions, artifacts, interactions, links, clock, expired,
                   ingests, restarts, effects, raised>>

\* A correction saves the new intent ...
CorrectIntent(t) ==
    /\ th[t].pc = "correct"
    /\ LET rec == [th[t].rec EXCEPT !.intent = th[t].link.intent] IN
          /\ Save(On(t), rec)
          /\ th' = [th EXCEPT ![t].rec = rec, ![t].pc = "renotify"]
    /\ UNCHANGED <<revisions, artifacts, interactions, links, clock, expired,
                   ingests, restarts, effects, raised>>

\* ... and asks again.
Renotify(t) ==
    /\ th[t].pc = "renotify"
    /\ \/ notify_classification(On(t), th[t].rec, th[t].at) /\ EndSend(On(t))
       \/ SendRaises(On(t)) /\ UNCHANGED links
    /\ Return(t)
    /\ UNCHANGED <<requests, revisions, artifacts, interactions, clock,
                   expired, ingests, restarts, effects>>

-----------------------------------------------------------------------------
(* _generate_render_deliver *)

\* Mutant: the first revision is fed back.
PromptFirst(t) ==
    IF th[t].link.decision = "revise" /\ th[t].feedback THEN 1 ELSE 0

\* latest_revision for a Revise link, and _build_user_prompt: the previous
\* content is in the prompt only when there is feedback too.
PromptBasis(t) ==
    IF th[t].link.decision = "revise" /\ th[t].feedback
    THEN Len(revisions[On(t)])
    ELSE 0

\* Generator.generate returns a document within its attempts ("put") or raises
\* GenerationError after the last ("fail").
GenerateOutcome == {"put", "fail"}

Generate(t) ==
    /\ th[t].pc = "generate"
    /\ \E pc \in GenerateOutcome :
          th' = [th EXCEPT ![t].basis = PromptBasis(t), ![t].pc = pc]
    /\ UNCHANGED <<requests, revisions, artifacts, interactions, links, clock,
                   expired, ingests, restarts, effects, raised>>

\* Mutant: the failed state is not saved.
FailUnsaved(t) ==
    /\ th[t].pc = "fail"
    /\ raised' = raised \cup {On(t)}
    /\ Return(t)
    /\ UNCHANGED <<requests, revisions, artifacts, interactions, links, clock,
                   expired, ingests, restarts, effects>>

\* GenerationError: the request fails, and the handler raises.
Fail(t) ==
    /\ th[t].pc = "fail"
    /\ <<th[t].rec.state, "fail", "failed">> \in TRANSITIONS
    /\ Save(On(t), [th[t].rec EXCEPT !.state = "failed"])
    /\ raised' = raised \cup {On(t)}
    /\ Return(t)
    /\ UNCHANGED <<revisions, artifacts, interactions, links, clock, expired,
                   ingests, restarts, effects>>

\* Mutant: the number of the last revision is used again.
SameRevision(t) == th[t].rec.current_revision

NextRevision(t) == th[t].rec.current_revision + 1

Files(t) == [request_id |-> On(t), revision_no |-> NextRevision(t),
             intent |-> th[t].rec.intent, at |-> th[t].at]

\* The files that t does not overwrite.
OtherFiles(t) ==
    {a \in artifacts : [a EXCEPT !.at = th[t].at] # Files(t)}

\* render_document and _store_artifacts, both files.
StoreArtifacts(t) ==
    /\ th[t].pc = "put"
    /\ artifacts' = OtherFiles(t) \cup {Files(t)}
    /\ Goto(t, "add")
    /\ UNCHANGED <<requests, revisions, interactions, links, clock, expired,
                   ingests, restarts, effects, raised>>

\* The renderer or the object store raises, before or after any of the two
\* files is stored: nothing catches it. One new file and one old one are no
\* handler's files.
StoreRaises(t) ==
    /\ th[t].pc = "put"
    /\ "store" \in Faults
    /\ artifacts' \in {artifacts, OtherFiles(t), OtherFiles(t) \cup {Files(t)}}
    /\ raised' = raised \cup {On(t)}
    /\ Return(t)
    /\ UNCHANGED <<requests, revisions, interactions, links, clock, expired,
                   ingests, restarts, effects>>

AddRevision(t) ==
    /\ th[t].pc = "add"
    /\ revisions' = [revisions EXCEPT ![On(t)] =
          Append(@, [revision_no |-> NextRevision(t), at |-> th[t].at,
                     intent |-> th[t].rec.intent, basis |-> th[t].basis])]
    /\ Goto(t, "generated")
    /\ UNCHANGED <<requests, artifacts, interactions, links, clock, expired,
                   ingests, restarts, effects, raised>>

\* Mutant: the revision number is not saved.
GeneratedUncounted(t) ==
    /\ th[t].pc = "generated"
    /\ ThreadTransition(t, th[t].rec, "generated", "rendered")
    /\ UNCHANGED <<revisions, artifacts, interactions, links, clock, expired,
                   ingests, restarts, effects, raised>>

\* The revision number is saved with the transition to RENDERING.
Generated(t) ==
    /\ th[t].pc = "generated"
    /\ ThreadTransition(t, [th[t].rec EXCEPT !.current_revision = @ + 1],
                        "generated", "rendered")
    /\ UNCHANGED <<revisions, artifacts, interactions, links, clock, expired,
                   ingests, restarts, effects, raised>>

Rendered(t) ==
    /\ th[t].pc = "rendered"
    /\ ThreadTransition(t, th[t].rec, "rendered", "deliver")
    /\ UNCHANGED <<revisions, artifacts, interactions, links, clock, expired,
                   ingests, restarts, effects, raised>>

Deliver(t) ==
    /\ th[t].pc = "deliver"
    /\ \/ deliver_document(On(t), th[t].rec, th[t].at) /\ EndSend(On(t))
       \/ SendRaises(On(t)) /\ UNCHANGED links
    /\ Return(t)
    /\ UNCHANGED <<requests, revisions, artifacts, interactions, clock,
                   expired, ingests, restarts, effects>>

-----------------------------------------------------------------------------
(* The environment. *)

\* Time passes: the oldest links still valid expire.
Expire ==
    /\ expired < clock
    /\ expired < MaxExpired
    /\ expired' = expired + 1
    /\ UNCHANGED <<requests, revisions, artifacts, interactions, links, clock,
                   ingests, th, restarts, effects, raised>>

\* The process stops and starts again. build_app makes an empty in-memory
\* repository; the mailbox and the object store are outside the process. A
\* batch is never ingested again: its bucket was in memory too.
Restart ==
    /\ restarts < MaxRestarts
    /\ restarts' = restarts + 1
    /\ requests' = [r \in Requests |-> Absent]
    /\ revisions' = [r \in Requests |-> << >>]
    /\ interactions' = {}
    /\ th' = [t \in Threads |-> Idle]
    /\ ingests' = [r \in Requests |->
          IF ingests[r].pc = "new" THEN ingests[r]
                                   ELSE [ingests[r] EXCEPT !.pc = "done"]]
    /\ UNCHANGED <<artifacts, links, clock, expired, effects, raised>>

-----------------------------------------------------------------------------
Init ==
    /\ requests = [r \in Requests |-> Absent]
    /\ revisions = [r \in Requests |-> << >>]
    /\ artifacts = {}
    /\ interactions = {}
    /\ links = {}
    /\ clock = 0
    /\ expired = 0
    /\ ingests = [r \in Requests |-> [pc |-> "new", at |-> 0]]
    /\ th = [t \in Threads |-> Idle]
    /\ restarts = 0
    /\ effects = {}
    /\ raised = {}

\* The steps of an ingest and of a click that has begun.
IngestStep(r) ==
    \/ Advance(r) \/ Classify(r) \/ ClassifyRaises(r) \/ Notify(r)

ThreadStep(t) ==
    \/ CheckInteraction(t) \/ RecordInteraction(t)
    \/ ApplyDecision(t) \/ RefuseDecision(t)
    \/ CorrectIntent(t) \/ Renotify(t)
    \/ Generate(t) \/ Fail(t) \/ StoreArtifacts(t) \/ StoreRaises(t)
    \/ AddRevision(t) \/ Generated(t) \/ Rendered(t) \/ Deliver(t)

Next ==
    \/ \E r \in Requests : Receive(r) \/ IngestStep(r)
    \/ \E t \in Threads : ThreadStep(t)
    \/ \E t \in Threads, l \in links, f \in BOOLEAN : Click(t, l, f)
    \/ Expire
    \/ Restart

Spec == Init /\ [][Next]_vars

\* An owner who waits for the answer of a click, or for the message it leads
\* to, before the next click on the same request. The code does not enforce it.
OneClickAtATime ==
    \A t, u \in Threads :
        th[t].pc # "idle" /\ th[u].pc # "idle" /\ On(t) = On(u) => t = u

SerialSpec == Init /\ [][Next /\ OneClickAtATime']_vars

\* The operating system runs every thread, and the calls of the LLM, of the
\* media services and of the object store return or raise. Sending may hang:
\* the SMTP session has no timeout. Nothing obliges the owner to click or
\* messages to arrive.
Fairness ==
    /\ \A r \in Requests : WF_vars(IngestStep(r) /\ ingests[r].pc # "notify")
    /\ \A t \in Threads :
          WF_vars(ThreadStep(t) /\ th[t].pc \notin {"renotify", "deliver"})

LiveSpec == Spec /\ Fairness

-----------------------------------------------------------------------------
(* Properties. *)

\* Type invariant of the repository, the mailbox and the handlers.
TypeOK ==
    /\ requests \in [Requests -> Record]
    /\ revisions \in [Requests -> Seq(Revision)]
    /\ artifacts \subseteq Artifact
    /\ interactions \subseteq Link
    /\ links \subseteq Link
    /\ clock \in Nat /\ expired \in Nat /\ restarts \in Nat
    /\ ingests \in [Requests -> Ingest]
    /\ th \in [Threads -> Handler \cup {Idle}]
    /\ effects \subseteq [link : Link, at : Nat, feedback : BOOLEAN]
    /\ raised \subseteq Requests

\* One of the revisions revs has the revision number and the intent of rec.
HasDocument(rec, revs) ==
    \E i \in DOMAIN revs :
        /\ revs[i].revision_no = rec.current_revision
        /\ revs[i].intent = rec.intent

ReviewStates == {"rendering", "awaiting_approval", "completed"}

\* A request that is up for approval, or approved, has a stored revision with
\* its number and of its intent, however clicks interleave, raise or are cut
\* off: _generate_render_deliver adds the revision before it saves the number,
\* and every save writes a whole record.
ApprovalHasDocument ==
    \A r \in Requests :
        requests[r].state \in ReviewStates =>
            HasDocument(requests[r], revisions[r])

\* A Confirm link of r is among the links used.
ConfirmedBy(r, used) ==
    \E l \in used : l.request_id = r /\ l.decision = "confirm"

\* FR-CNF-01: no document exists that the owner has not asked for with a
\* Confirm link that is on record for the request.
DocumentsAreConfirmed ==
    \A r \in Requests :
        revisions[r] # << >> => ConfirmedBy(r, interactions)

\* Generation is only ever started for a document kind: Generator.generate
\* raises ValueError, which nothing catches, for intent NONE.
GeneratesActionable ==
    \A t \in Threads :
        th[t].pc \in {"generate", "put", "add"} =>
            th[t].rec.intent \in Actionable

\* While ingest has a record left to save or a message to send, no click can
\* work on the request: no link of it is in the mailbox and no thread holds its
\* record. This is what lets ingest write without reading back. The first copy
\* of its message ends that, also while the second is still being sent.
IngestIsAlone ==
    \A r \in Requests :
        ingests[r].pc \notin {"new", "sent", "done"} =>
            /\ \A l \in links : l.request_id # r
            /\ \A t \in Threads : th[t].pc # "idle" => On(t) # r

IngestStates == {"received", "aggregating", "processing_media", "classifying"}

\* A request in a state the owner cannot act on has a handler that will move
\* it on; holds when no uncaught call raises.
WorkIsDriven ==
    \A r \in Requests :
        /\ requests[r].state \in IngestStates =>
              ingests[r].pc \in {"start", "window", "media", "classify"}
        /\ requests[r].state = "generating" =>
              \E t \in Threads :
                 /\ th[t].pc \in {"generate", "fail", "put", "add", "generated"}
                 /\ On(t) = r
        /\ requests[r].state = "rendering" =>
              \E t \in Threads : th[t].pc = "rendered" /\ On(t) = r

\* Some handler is at work on r.
Busy(r) ==
    \/ ingests[r].pc \notin {"new", "sent", "done"}
    \/ \E t \in Threads : th[t].pc # "idle" /\ On(t) = r

\* The owner has a link for decision d on r that is not used up.
CanDecide(r, d) ==
    \E l \in links \ interactions : l.request_id = r /\ l.decision = d

\* A request that waits for the owner, with no handler at work on it, has
\* unused links for the gate it waits at, although a refused click uses up its
\* link and clicks race: only time can take the decision away, when the links
\* expire. Holds while notifications go out.
OwnerNeverStranded ==
    \A r \in Requests : ~Busy(r) =>
        /\ requests[r].state = "awaiting_classification" =>
              CanDecide(r, "confirm") /\ CanDecide(r, "reject")
        /\ requests[r].state = "awaiting_approval" =>
              CanDecide(r, "approve") /\ CanDecide(r, "revise")

\* A saved record moves along an edge of TRANSITIONS, is created, or is lost
\* with the process: "a Request can only ever move along an explicitly allowed
\* edge" (state_machine.py).
AllowedEdge(r) ==
    \/ requests'[r].state = requests[r].state
    \/ requests[r].state = "absent"
    \/ requests'[r].state = "absent" /\ restarts' # restarts
    \/ \E g \in Trigger :
          <<requests[r].state, g, requests'[r].state>> \in TRANSITIONS

AllowedEdges == [][\A r \in Requests : AllowedEdge(r)]_vars

\* "Owner actions are idempotent via the repository's interaction record"
\* (orchestrator.py): a link takes effect once, however often it is clicked.
AppliedOnce ==
    \A e, f \in effects : e.link = f.link => e.at = f.at

\* "FAILED <- (any state, on unrecoverable error)" (REQUIREMENTS.md section 6):
\* a request whose handler raised is failed, or gone with the process.
ErrorsEndInFailed ==
    \A r \in raised : requests[r].state \in {"failed", "absent"}

\* FR-DLV-04, "every revision is versioned and logged": revisions are numbered
\* from 1 without gap or repetition, and the files stored under a number are
\* those of that revision.
RevisionsAreVersioned ==
    \A r \in Requests : \A i \in DOMAIN revisions[r] :
        /\ revisions[r][i].revision_no = i
        /\ [request_id |-> r, revision_no |-> i,
            intent |-> revisions[r][i].intent, at |-> revisions[r][i].at]
              \in artifacts

\* "On a revision, the previous content and the owner's feedback are fed back
\* so the model improves rather than restarts" (generator.py): the document
\* made for a revision with feedback builds on the revision right before it.
RevisionsBuildOnTheLast ==
    \A r \in Requests : \A i \in DOMAIN revisions[r] : \A e \in effects :
        e.at = revisions[r][i].at /\ e.feedback =>
            i > 1 /\ revisions[r][i].basis = i - 1

\* FR-CNF-01 and FR-GEN-01: a document is of an intent that a notification has
\* shown to the owner, next to a link to confirm it.
DocumentsWereOffered ==
    \A r \in Requests : \A i \in DOMAIN revisions[r] : \E l \in links :
        /\ l.request_id = r
        /\ l.decision = "confirm"
        /\ l.shown = revisions[r][i].intent

\* The abstract request: who has it, by the state of its record ...
PhaseOf(r) ==
    LET s == requests[r].state IN
    CASE s = "absent" -> "unknown"
      [] s \in IngestStates -> "reading"
      [] s = "awaiting_classification" -> "question"
      [] s \in {"generating", "rendering"} -> "writing"
      [] s = "awaiting_approval" -> "review"
      [] s \in TERMINAL_STATES -> "over"

\* ... and the documents that have been handed over: a revision that is being
\* rendered counts in current_revision already.
Handed(r) ==
    LET n == IF requests[r].state = "rendering"
             THEN requests[r].current_revision - 1
             ELSE requests[r].current_revision
    IN  [i \in 1 .. n |-> revisions[r][i].intent]

Promise == INSTANCE Lifecycle WITH
    phase <- [r \in Requests |-> PhaseOf(r)],
    proposal <- [r \in Requests |-> requests[r].intent],
    documents <- [r \in Requests |-> Handed(r)]

\* The orchestrator keeps the promise of Lifecycle to an owner who waits for
\* the answer of one click before the next: every save of a record is a step
\* of the two gates or no step at all, restarts included.
KeepsPromise == Promise!Spec

\* FR-GEN-01: what the owner was handed is of the intent on record, all
\* revisions of it, although a Correct link stays in the mailbox for a week.
DocumentsFitTheIntent == Promise!OneKind

\* A request never stays for good in a state that only the service can leave.
WorkEnds ==
    \A r \in Requests :
        LET Working == requests[r].state \in
                          IngestStates \cup {"generating", "rendering"}
        IN  Working ~> ~Working

=============================================================================
