# A TLA+ model of the WhatsApp automatic planner

The program (`src/src/wapp_planner/`) receives WhatsApp messages of clients
through a webhook, groups a client's consecutive messages into a request,
classifies it with an LLM, asks the owner to confirm (HITL gate 1), generates a
quote or an execution plan with the LLM, renders and stores it, and asks the
owner to approve it or to request a revision (HITL gate 2). The owner answers
by following signed links.

## Inventory

| Component | State | Operations | Used by / uses |
| --- | --- | --- | --- |
| `workflow/` | none (a table) | `next_state`, `trigger_for` | orchestrator |
| `orchestrator/orchestrator.py` | none of its own; a copy of the `Request` per call | `ingest`, `apply_owner_action` | called by ingestion and by `GET /hitl/action`; calls media, classifier, generator, renderer, storage, repository, notifications |
| `persistence/repository.py` | `_requests`, `_messages`, `_revisions`, `_interactions` (dicts in memory) | `save_request`, `get_request`, `add_revision`, `latest_revision`, `record_interaction` | orchestrator, from several threads, no lock |
| `hitl/` | none; the issued links live in the owner's mailbox | `issue`, `verify`, `notify_classification`, `deliver_document`, `resolve_action`, `send` | orchestrator, api |
| `aggregation/aggregator.py` | `_open`: one bucket per client | `add`, `flush_due`, `flush_all`, `export_state`, `load_state` | ingestion, from two threads |
| `ingestion/` | claimed message ids, names of clients | `receive`, `flush_due` | webhook (event loop), flush worker (daemon thread) |
| `bootstrap.py`, `__main__.py` | the objects above | `build_app`, `FlushWorker.run` | process start |
| `api/app.py` | none | `POST /webhook` (async, event loop), `GET /hitl/action` (sync, thread pool) | HTTP |
| `media/` | none | `build_transcript` | orchestrator; calls speech-to-text, vision, ffmpeg |
| `nlp/classifier.py` | none | `classify` | orchestrator; calls the LLM |
| `documents/` | none | `generate` with retries, `render_document` | orchestrator; calls the LLM |
| `providers/` | none | adapters: media client, object store, speech-to-text, vision, LLM, e-mail, WhatsApp | all of the above |
| `config/`, `domain/` | none | settings and record types | all |

What is hard here:

* **Threads without locks.** `hitl_action` is a plain `def`, so FastAPI serves
  clicks on a thread pool. Each click reads the record, computes on its copy and
  saves the whole copy; `record_interaction` tests and then stores. The flush
  worker is a thread of its own beside the event loop that runs the webhook.
* **Failures in the middle.** Only `GenerationError` is caught. The classifier,
  renderer, object store and notifiers may raise after the record was saved, and a call of an external
  service may raise after it had its effect.
* **Order of effects.** A link is recorded before its transition is checked, a
  record saved before its notification is sent, a revision added before its
  number is saved.
* **Restart.** Everything but the object store and the owner's mailbox is in the
  memory of the process.
* **Time.** Links expire; aggregation windows are half-open; the webhook reads
  `now` once for a whole body.
* **Old links.** A link says what the owner decided, not what he was shown.

What makes each component correct: the lifecycle moves only along its table; a
document exists only after a recorded confirmation; a request up for approval
has its document; a link counts once; the owner always has a usable link for the
gate a request waits at; errors end in `FAILED`; revisions are numbered without
gap; no bucket exceeds its windows; no message is lost, duplicated or split off
early; every bucket closes and every request leaves the states that only the
service can leave; the transcript has every message, in order, and no unsafe
media; the owner gets a copy of a message on every configured channel, and is
never asked about a document of which the files are not stored.

## Modules

| Module | Models |
| --- | --- |
| `Workflow` | `workflow/`: states, triggers, transition table as a set of triples, `trigger_for` |
| `Transcript` | `ingestion/parser.py`, `ingestion/media_downloader.py`, `media/`: from the webhook bodies of a request to its transcript |
| `Documents` | extends `Transcript`: classifier, generator, rendering, storing, dispatcher, notifiers and settings, to the documents in the owner's hands |
| `Lifecycle` | abstract: the two gates the service promises the owner |
| `Orchestrator` | `orchestrator/`, `persistence/`, `hitl/`, `GET /hitl/action`; implements `Lifecycle` |
| `Aggregator` | `aggregation/aggregator.py`, operations atomic; the abstract specification of `Ingestion` |
| `Ingestion` | `ingestion/service.py` and the flush worker over the aggregator, one step per access to shared state |
| `MCOrchestrator`, `MCAggregator`, `MCIngestion`, `MCDocuments` | the small instances for TLC |
| `TranscriptProofs`, `DocumentsProofs`, `AggregatorProofs`, `IngestionProofs`, `OrchestratorProofs`, `OrchestratorDrivenProofs`, `OrchestratorSerialProofs`, `OrchestratorRefinementProofs` | TLAPS proofs, see Proofs |

The system is cut in three, along what the parts share. `Ingestion` and
`Aggregator` are about many clients and two threads and know of a message only
its id, sender and time. `Transcript` and `Documents` follow one request, one
handler at a time, through every call of an external service. `Orchestrator` is
about many requests and many handlers on one record, and takes each external
call of `Documents` as one step with its outcomes, a send up to its first copy.

### Workflow

`TRANSITIONS` is `Edges \cup FailEdges`, both copied edge by edge from
`_EDGES`. `Legal` says whether `next_state` returns or raises. Everything else
uses the table through these.

### Transcript

A step is one external call or the computation between two. `pc` is where the
handler is, `next` the message it is at. `Skip` and `Claim` are the loop of
`receive` over what `parse_webhook` yields; `Download`, `Check` and `Put` are
`fetch_and_store`: the whole body comes in, then type and size are checked, then
the bytes are stored; `Reload` is `_media_for`;
`BeginMessage`, `Transcribe`, `Describe`, `RunFfmpeg` and `Extract` are
`_segments_for` by type; `Raises` is the except clause of `build_transcript`.
A file is its MIME type, as the code tells types apart, and whether it exceeds
the cap. A segment is the message, its source, whether a caption is in it and
its status. `hit` is history: the messages on which a call raised.

### Documents

`settings` is any value the validator of `Settings` lets pass (`Valid`).
`Dispatch` begins a `ChannelDispatcher.send`, and `PassOver`, `SendCopy`,
`Dispatched` are its loop; a notifier sends, or raises before or after the copy
is out, and an e-mail may hang, before or after (`"hung"`), since its SMTP
session has no timeout (`email_notifier.py:65`). `Attempt` and `GiveUp` are the retry loop of `generate`; `Render`,
`StoreArtifact` (once per format, the store raising before or after its effect)
and `AddRevision` are the rest of `_generate_render_deliver`. `Correct`,
`Generates` and `Ends` are the owner's clicks. `pauses` has the exponents of the
sleeps between attempts, `n` for `backoff_base_seconds * 2 ** n`. The links in the mailbox are
counted by kind (`buttons`), since here only their number matters.

### Lifecycle

Its state is who has a request (`phase`), the intent on the table (`proposal`)
and the kinds of the documents the owner was given (`documents`). The owner is
asked (`Ask`), may correct, commissions a document (`Commission`), gets it
(`Deliver`), and commissions another or ends it. `Forget` is the restart of a
process that keeps its records in memory.

### Orchestrator

The variables `requests`, `revisions`, `interactions` are the dicts of
`InMemoryRequestRepository`; `artifacts` is the object store; `links` is the
owner's mailbox. `ingests[r]` is the program counter of `ingest(r)`, `th[t]` the
program counter and the local variables of thread `t` in `hitl_action`. A record
keeps the state, the intent and the revision number; transcripts, names, flags
and confidence decide nothing here.

A step is one access to shared state:

| Code | Actions |
| --- | --- |
| `ingest` 80-89, 91-96, 98-112, 106-114 | `Receive`, `Advance` (three transitions), `Classify` / `ClassifyRaises`, `Notify` |
| `hitl_action`, `resolve_action`, `get_request` | `Click` |
| `record_interaction` 87, 89 | `CheckInteraction`, `RecordInteraction` |
| `_transition` of the decision | `ApplyDecision`, `RefuseDecision` (409) |
| correct 136-140 | `CorrectIntent`, `Renotify` |
| `_generate_render_deliver` | `Generate`, `Fail`, `StoreArtifacts` / `StoreRaises`, `AddRevision`, `Generated`, `Rendered`, `Deliver` |
| token expiry; restart of the process | `Expire`, `Restart` |

`Notify`, `Renotify` and `Deliver` end when the first copy of the message is in
the mailbox, or a notifier raises before that. With channel `both` the
dispatcher then goes on to WhatsApp (`dispatcher.py:47`), and the SMTP session
ends only after its message was taken: the owner can click while the handler is
still in `send`. The handler has nothing left to read or to save by then, so the
rest of its send is no step; an ingest stays `"sent"`, and the thread of a click
counts as free. `StoreRaises` leaves none, one or both files of a revision
behind; files are named after request, intent and number (`Artifact`).

`clock` counts the time stamps that handlers read; a stamp identifies a handler
and orders expiry. `effects` and `raised` are history and are read by
properties only. `Faults` says which external calls may raise. A click that is
refused without effect (bad or expired token, unknown request) is not an action.

The mapping to `Lifecycle` (`Promise`) takes the phase from the state of the
saved record (`PhaseOf`), the proposal from its intent, and the documents from
the revisions up to `current_revision`, without the one that is being rendered
(`Handed`): a revision is saved two transitions before the owner is asked.

### Aggregator and Ingestion

`Aggregator` is what the class promises to one caller: `Add`, `FlushDue`,
`FlushAll` are atomic and take the time `at` their caller read. `MaxLag` is how
old that time may be. Nothing under `src/` calls `flush_all`; it is there as an
operation of the class.

`Ingestion` is how the program calls it. `receive` runs on the event loop and
has no `await`, so webhooks do not overlap each other, but the flush worker is a
thread of its own. `add` becomes `Get`, `Displace`, `Insert`, `AppendMessage`,
`Touch`; `flush_due` becomes `StartFlush`, `Scan` (one entry of `_open` per
step, in insertion order), `Emit`, `CopyBucket`; then `ProcessDue`. `Scan`
raises when the size of the dict has changed, and when it finds more entries
than there were at its start, which CPython reports as changed keys. `buckets`
holds the bucket objects, `open` the dict's references to them, so a thread may
work on an object that has left the dict. With `MayRaise` a message may raise in
`Claim` after it was claimed (`Message(...)`, `service.py:106`), and the
pipeline before or after it has made a request. `astray` is history: what an
action drops, by an exception that ends the call with a message or a batch in
hand (`Die`, `Stray`) or by an append to a bucket that was copied already
(`Reachable`). `LossIsConfined` says that these are exactly the claimed messages
that are neither at hand nor in any bucket or batch from which they reach the
orchestrator.

Under `LockedSpec`, where a thread's calls of `add` and `flush_due` do not
overlap those of the other, `Ingestion` implements `Aggregator`
(`AggregatesAtomically`). An `add` takes effect in the abstract state at `Touch`,
a flush when it starts to take buckets out of `_open`. So the bucket an `add` is
about to put in place does not stand yet (`Standing`), a message that is appended
but not touched is not part of it (`Complete`), and a bucket that is being
flushed is closed whether or not it is copied. `added` is a history variable, the
messages in the order of their adds, which gives the numbers `Aggregator` knows
messages and buckets by.

## Runs

| Run | Question | Bounds |
| --- | --- | --- |
| `OrchestratorConcurrent` | Do racing clicks leave a request without a handler, or the owner without usable links for another reason than their expiry? Does work end? | 1 request, 2 threads, 4 handlers, 1 expiry, 1 restart, no faults, no symmetry |
| `OrchestratorHostile` | What still holds with races, faults, expiry and restart together? Type, `ApprovalHasDocument`, `DocumentsAreConfirmed`, `GeneratesActionable`, `IngestIsAlone` up to the first copy of its message. | 1 request, 2 threads, 4 handlers, all faults, 1 expiry, 1 restart |
| `OrchestratorSerial` | What holds if the clicks on one request come one at a time? The refinement of `Lifecycle` (`KeepsPromise`), `DocumentsFitTheIntent`, `AllowedEdges`, `AppliedOnce`, `RevisionsAreVersioned`, `RevisionsBuildOnTheLast`, `DocumentsWereOffered`. | 2 requests, 2 threads, 5 handlers, 1 restart |
| `AggregatorLagging` | With stale times: are windows respected, is every message in one bucket, is nothing split earlier than the lag explains, does every bucket close? | 2 clients, windows 2 and 3, lag 1, 5 messages until time 5, time to 7 |
| `IngestionRaces` | What survives the races of webhook and flush worker and a pipeline that raises? No message is processed twice; requests respect their windows; messages are lost in two ways only (`LossIsConfined`). | 2 clients, 4 messages, 3 bodies, 4 deliveries, windows 2 and 2 |
| `IngestionLocked` | Would the service be the atomic aggregator, and would everything reach the orchestrator, without overlap and exceptions? Yes. | the same, windows 2 and 3 |
| `DocumentsFaulty` | From webhook to documents, with every external call raising, before or after its effect, under all valid settings: `TranscriptIsFaithful`, `OnlySafeMedia`, `NobodyMissing`, `CopiesMatchChannel`, `DeliveredIsStored`, `ClaimIsTrue`, `GenerationRetries`, `HandlersEnd`. | all bodies of at most 2 of 12 messages and one of 3, 2 frames, 3 attempts, 3 clicks |

Two threads are the least that race, and a third adds no new pair of steps. Four
handlers are an ingest and three clicks, which reach correct-confirm-revise or
a race at either gate; in `OrchestratorSerial` five handlers reach two revisions
with feedback of one document, or a document of each of the two requests. One restart and one
expiry are enough for each to fall between any two steps. Two requests only
matter where clicks on different requests run at once, in `OrchestratorSerial`.

For the aggregator, windows of 2 and 3 make both boundaries reachable with gaps
of one tick; five messages displace a bucket and start the next one twice; a lag
of 1 is less than the inactivity window and lets an operation be older than the
one before it. In `IngestionRaces` both windows are 2, so that three messages of
a client can exceed the maximum duration without a gap that closes the bucket.
The bounds on time leave room after the last message for every window to end.

The twelve messages of `MCDocuments` are one of each type and one for every
reason to refuse or to skip: too large, of an unsafe type, with a type in the
webhook that is not that of the file, without a media id, unsupported, without
id. Pairs give repetitions of an id and every order of a failing message and a
sound one; the body of three has every kind of call in it. With 2 frames a video
can fail before, between and after them. Three attempts give a pause that
doubles. Three clicks reach confirm-revise-approve or correct-confirm-revise;
they only follow a single text (`Continued`), since the later stages never look
at the transcript. The run has about 739 000 distinct states.

Runs check no deadlock: the owner may never click and messages may stop, and
then the model stops, as the program idles.

### Disagreements

Each of these runs checks one statement of the repository that the code does not
keep. `PROJECT.json` quotes the statement.

| Run | What happens |
| --- | --- |
| `LostUpdate` | Two clicks read the same record; the later save moves the request along no edge of the table. |
| `DoubleClick` | Both threads pass the test in `record_interaction` before either stores. |
| `UncaughtError` | Errors other than `GenerationError` do not lead to `FAILED`. |
| `LostMessage` | `add` appends to a bucket, found or just made, that the flush worker has already copied. |
| `DeadFlushWorker` | An insertion during the iteration over `_open` ends the flush worker. |

More are plain from the code and have no run:

* The Confirm link carries no intent and outlives a correction, so the link of
  the message that says "quote" may generate an execution plan
  (`orchestrator.py:135`). What does hold, one click at a time, is
  `DocumentsWereOffered`: some notification has shown the intent.
* A revision link without feedback, which is what the e-mail contains, drops the
  previous content (`generator.py:142`), against `generator.py:7`.
  `RevisionsBuildOnTheLast` therefore speaks of revisions with feedback.
* `build_app` is only ever given the in-memory repository, so a restart resumes
  nothing, against `orchestrator.py:12`, and open buckets and claimed ids are
  lost with it, against FR-AGG-04 (`REQUIREMENTS.md:171`) and, for a delivery
  that is repeated after the restart, NFR-IDEMP-01 (l.234). `Restart` models the
  former as it is.
* With `deliver_channel` WhatsApp alone the owner is told that the documents were
  sent by e-mail (`whatsapp.py:69`), and they reach nobody, against FR-DLV-01
  (`REQUIREMENTS.md:211`). `ClaimIsTrue` therefore speaks of channels that
  include e-mail.
* Media is downloaded whole (`media_downloader.py:62`, `providers/whatsapp.py:40`)
  before its type and size are checked, against NFR-SEC-02
  (`REQUIREMENTS.md:237`), "before download/processing". `Download` comes before
  `Check` for this reason, and `OnlySafeMedia` says what is left of that
  requirement: nothing that fails the checks is stored or processed. How a media
  is read is decided by the webhook's type, not by the one that was checked.
* `storage.get` in `_media_for` (`service.py:124`) is outside the protection that
  FR-MED-07 (l.164) asks for: if it raises, the batch is gone. `ReloadRaises`
  leads to `"lost"`, which `HandlersEnd` counts as an end of the handler's work;
  in `Ingestion` it is one of the exceptions of `LossIsConfined`. Nor are failures
  of media surfaced in the owner's notification.
* The segment of an image that failed omits its caption (`processor.py:82`),
  against FR-MED-03 (l.160). `Unprocessable` and `TranscriptIsFaithful` record it.
* A request that is `FAILED` alerts nobody (`orchestrator.py:184`), against
  FR-GEN-05 (l.200).
* Only the tokens of the attempt that succeeded are kept (`generator.py:113`),
  against NFR-COST-01 (l.240).

### Fairness

Threads run, and external calls that have a timeout return or raise: the HTTP
client of WhatsApp has one of 30 s (`bootstrap.py:198`), ffmpeg one of 60 s
(`media/adapters.py:68`), the LLM and object store clients those of their
libraries. The SMTP session has none, so a send by e-mail, the default channel,
may never return. Therefore:

* `OrchestratorConcurrent` assumes weak fairness of each ingest and of each thread
  except at its sends. Those are the last thing a handler does, when the record
  has left the states of work, so `WorkEnds` does not need them. Nothing obliges
  the owner to click, so nothing is said about the waiting states. The run
  assumes no fault: with one, `UncaughtError` shows that work may stop for good.
* `DocumentsFaulty` assumes weak fairness of the steps of the
  transcript and of the handler, none of the owner, and exclude no fault. That
  an e-mail hangs is an outcome of `SendCopy`. `HandlersEnd` says that a handler
  comes to rest, in an error if need be, unless it hangs there.
* `AggregatorLagging` assumes that `flush_due` keeps being called, which is what
  the flush worker is for; `DeadFlushWorker` shows under which circumstances the
  program fails to do so, with weak fairness of both threads.
* `DeadFlushWorker` and `IngestionLocked` assume that `ingest` returns or raises,
  its e-mail included, which a hung mail server breaks: the flush worker would
  then wait in `ingest` and close no bucket any more. `IngestionLocked` adds that
  a fair lock lets each thread in; the lock is an assumption of that run and is
  not in the code.

## Proofs

TLAPS proves the following for every value of the constants.

* `OrchestratorProofs`: `Spec => []TypeOK`, and the four invariants
  `ApprovalHasDocument`, `DocumentsAreConfirmed`, `GeneratesActionable`,
  `IngestIsAlone`, with any number of requests and threads and any faults.
  None of the four is inductive. A thread may save a copy it read long ago, so
  `IInv` speaks of the copies too: every record, saved or held by a thread, that
  has a revision number has a revision to it (`Backed`); the links in the
  mailbox are only of requests whose ingest has sent its first copy or is over,
  and Confirm and Correct links name actionable intents (`LinkSound`, `AfterIngest`); a thread past
  `record_interaction` has its link on record (`ThreadSound`). `Grows` says that
  revisions and interactions only grow except at a restart, which ends all
  threads as well.
* `OrchestratorDrivenProofs`: `WorkIsDriven` when the classifier and the object
  store do not raise, `OwnerNeverStranded` when notifications do not, both
  without a lock, with clicks that race, links that expire and restarts. The
  first is inductive next to `IInv`, although racing threads save their old
  copies over each other: whichever state of work a step saves, the same step
  brings its thread to where that state is left (`Saving`), and other steps leave
  the record alone (`Quiet`). The second needs `OwnerIsAttended`: at each gate
  the record is at, links are on their way, or a thread is about to lead out of
  the gate, or every decision has a link that no click in progress will waste
  (`Usable`); and `Stamped`, that the links of a message carry the time stamp of
  a handler no other handler has.
* `OrchestratorSerialProofs`: `SerialSpec => AllowedEdges`. `SInv` adds that the
  copy of the only thread at work on a request is the saved record
  (`CopyIsFresh`), which is what a race breaks.
* `OrchestratorRefinementProofs`: `SerialSpec => KeepsPromise`, the refinement of
  `Lifecycle`. `RInv` adds to `SInv` that `current_revision` is the number of
  revisions, up to the one that is being added (`Count`), that a request ingest
  works on has neither intent nor document (`Blank`), and that revisions are
  numbered and stored as they should be (`Versioned`, `FilesReady`); each access
  is then a step of `Lifecycle` on one request or none. `RevisionsAreVersioned`
  follows from `RInv`. `DocumentsFitTheIntent` is proved as an invariant of
  `Lifecycle` and carried over by the refinement. `AppliedOnce` needs `OnceInv`:
  a link that took effect is on record, and no thread is about to apply it.
  `DocumentsWereOffered`, while notifications go out, needs `OfferedInv`: the
  intent on record has been shown to the owner or a notification of it is on its
  way. `RevisionsBuildOnTheLast` needs `BuildInv`: the time stamp of a handler
  tells its effect and its document from all others, and while a thread makes a
  document the number of revisions in its prompt stays the number there are.
* `AggregatorProofs`: `Spec => []TypeOK`; `[]WindowsRespected`, with the
  invariant that ties `last_at` to the last message and to the latest time of an
  add; `[]NotSplitEarly`, for any lag, with the invariant that closed buckets
  are inactive at all times to come but for the lag, and older than the open one
  of their client; `[]EveryMessageOnce`, by an invariant of the set of all
  buckets, open and closed (`HeldOnce`).
* `IngestionProofs`: the races without lock, with exceptions. `TInv` says what
  the two threads hold at each point. `MInv`: a message that was appended to a
  bucket is in that one alone, once (`Unique`, `Known`), and the one at hand is in
  none yet (`Fresh`). `PInv`: each bucket is in one place, `_open`, the flush in
  progress, the hands of a thread or the orchestrator (`Apart`), and a batch is a
  prefix of its bucket, of the messages it had when it was copied (`Prefix`).
  Together they give `ProcessedAtMostOnce`. `WInv` ties the windows of every
  bucket object to the time its thread read, and gives `RequestsRespectWindows`,
  although a message may be added to a bucket that is no longer open.
  `LossIsConfined`, again without lock and with exceptions, needs `SInv` beside
  these: every claimed message is astray or else at hand, ingested, in a batch a
  thread holds, or in a bucket the worker has still to copy (`Account`). Each step
  is shown to take out of these places exactly the messages it adds to `astray`.
  That a bucket which leaves `_open` is copied with every message it has, and
  that a message is in one place only, so that losing the place loses the
  message, comes from `MInv` and `PInv`.
* `TranscriptProofs`: `TranscriptSpec => []OnlySafeMedia`. `SafeInv` says that
  what is being put is safe and what is reloaded or described was stored.
  `TranscriptSpec => []TranscriptIsFaithful`, as it stands, with `FaithfulInv`:
  the batch is what the messages of the bodies read so far should leave
  (`Holds`), a message that has its media was not hit by an exception before its
  turn (`Spared`), the media at hand are those of the messages that have a
  reference, and the segments are the concatenation of what the messages worked
  on so far should contribute (`Told`), while a video that is not finished has
  its audio track and its frames in `partial`. That the concatenation of one
  sequence more is the concatenation and that sequence is proved from the
  definition of `FlattenSeq` (`FlattenAppend`), by induction over a set of
  naturals: the well-foundedness of `<` in the form about sets (`WFMin`) gives
  it without an operator as parameter.
* `DocumentsProofs`: `TypeOK`; `OnlySafeMedia` and `TranscriptIsFaithful` again,
  of the longer path; `NobodyMissing`,
  `CopiesMatchChannel` and `ClaimIsTrue` by `SentInv`, which says what has gone
  out when the dispatcher is at each channel or was cut off there; and
  `DeliveredIsStored` by `StoredInv`, which says what has been stored at each
  stage, and that no correction can come after the first document;
  `GenerationRetries` by `RetryInv`, which says that no answer before the last
  fits and that a pause follows every answer that does not, but the last
  possible one.

The proofs assume only `ConstantsAssumption`, `AggregatorAssumption` (windows
are positive and the maximum duration is the longer one, which `Settings`
enforces), `IngestionAssumption` (the same, and finitely many clients),
`TranscriptAssumption` and `DocumentsAssumption` (types of the constants, at
least one attempt). Three theorems have a hypothesis more, which the runs of the
same property make too, and without which it fails: `Faults` lacks `classify`
and `store` (`WorkIsDriven`, see `UncaughtError`) or `notify`
(`OwnerNeverStranded`, `DocumentsWereOffered`: a notification that is lost has
neither shown the intent nor brought the links).

All invariants of the passing runs are proved. Model-checked only: liveness
(`WorkEnds`, `HandlersEnd`, `EveryBucketCloses`, `EveryBucketIsFlushed`,
`EveryMessageIsIngested`), which is out of this prover's reach, and
`AggregatesAtomically`, which includes the fairness of `Aggregator`.

## Not modelled

The signature of a webhook and malformed JSON, which are refused without effect;
encodings, wording and layout; prompts; confidence and rationale; client names
and flags; costs; what retention and caps are set to, which nothing reads.
`export_state` and `load_state` are not called by the program. `Ingestion` has no
restart: it would start again with nothing, as `Restart` does in `Orchestrator`.
A table resize of the dict `_open` in the middle of an iteration, which can make
it pass over an entry until the next tick, is left out. A message with fields of
the wrong JSON type is only an exception of `Ingestion`'s `Claim`, and left out in
`Transcript`. Nothing says that a hung SMTP session should end: no document
promises it. The fakes among the providers are test code.

## Plan

The components are modelled as far as their state and their failures go. What is
left, in this order:

1. Prove the safety part of `AggregatesAtomically`, `LockedSpec =>
   AtomicAggregator!Spec`. Its invariant starts from what a lock gives: that what
   a thread has read of `_open` is still true when it acts on it.
2. Compose ingestion and orchestrator with one restart of both, to say what a
   repeated delivery after it does.
