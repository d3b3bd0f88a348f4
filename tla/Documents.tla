------------------------------ MODULE Documents ------------------------------
(***************************************************************************)
(* From the transcript of a request to the documents in the owner's hands: *)
(* nlp/classifier.py, documents/generator.py, the storing of the files in  *)
(* orchestrator/orchestrator.py, hitl/dispatcher.py with the two notifiers *)
(* of providers/, and what config/settings.py and bootstrap.py guarantee   *)
(* about the channels. It goes on where Transcript ends.                   *)
(*                                                                         *)
(* A step is one call of an external service, which may raise, or a click  *)
(* of the owner. One request and one click at a time: the lifecycle and    *)
(* its races are in Orchestrator.                                          *)
(***************************************************************************)
EXTENDS Transcript, Workflow

CONSTANTS
    max_attempts,    \* attempts of generate
    MaxClicks,       \* bound: clicks of the owner
    Continued        \* bound: payloads whose request goes on after its transcript

ASSUME DocumentsAssumption ==
    /\ max_attempts \in Nat \ {0}
    /\ MaxClicks \in Nat
    /\ Continued \subseteq Payloads

VARIABLES
    settings,   \* the Settings the application was built with
    stage,      \* where the handler is after the transcript
    intent,     \* the intent of the request
    answers,    \* what the LLM calls of this generation have come to
    pauses,     \* between them: n stands for backoff_base_seconds * 2 ^ n
    files,      \* rendered files in the object store
    revisions,  \* the revisions on record
    gate,       \* the kind of message that is sent, or was sent last
    turn,       \* the channel the dispatcher is at
    sent,       \* the copies of that message that have gone out
    buttons,    \* unused links of every kind in the owner's mailbox
    clicks      \* clicks so far

documentVars == <<settings, stage, intent, answers, pauses, files, revisions,
                  gate, turn, sent, buttons, clicks>>

vars == <<transcriptVars, documentVars>>

-----------------------------------------------------------------------------
(* Data. *)

Concrete == {"email", "whatsapp"}

Channel == Concrete \cup {"both"}

Includes(channel, concrete) == channel \in {"both", concrete}

\* Mutant: WhatsApp first.
WhatsAppFirst == <<"whatsapp", "email">>

\* _CONCRETE_CHANNELS.
SendOrder == <<"email", "whatsapp">>

\* Settings; owner is the set of channels for which a contact is given.
Settings == [notify_channel : Channel, deliver_channel : Channel,
             owner : SUBSET Concrete, notify_on_none : BOOLEAN]

\* Mutant: only the notify channel is validated.
ValidForNotify ==
    {s \in Settings :
        \A c \in Concrete : Includes(s.notify_channel, c) => c \in s.owner}

\* _validate_windows_and_contacts.
Valid ==
    {s \in Settings :
        \A c \in Concrete :
            Includes(s.notify_channel, c) \/ Includes(s.deliver_channel, c) =>
                c \in s.owner}

\* The targets of the dispatcher: build_app registers the contacts it has.
Targets == settings.owner

Format == {"pdf", "docx"}

\* What an LLM call may come to: an exception, text that fits no content
\* model, or the content of a document of some kind.
Answer == {"raised", "unusable"} \cup Actionable

File == [revision_no : Nat, kind : Actionable, format : Format]

\* A DocumentRevision: the kind of its content, and llm_meta's attempts.
Revision == [revision_no : Nat, kind : Actionable, attempts : Nat]

\* A copy of a message; documents: the files are attached, claims: it says that
\* they were sent by e-mail.
Copy == [channel : Concrete, documents : BOOLEAN, claims : BOOLEAN]

Gate == {"none", "classification", "delivery"}

\* The links of a message; a Correct link is named after its intent.
ClassificationButtons == {"confirm", "reject"} \cup Actionable

ApprovalButtons == {"approve", "revise"}

Button == ClassificationButtons \cup ApprovalButtons

ButtonsOf(kind) ==
    IF kind = "classification" THEN ClassificationButtons ELSE ApprovalButtons

-----------------------------------------------------------------------------
(* classify, and the dispatcher *)

Goto(where) == stage' = where

\* ChannelDispatcher.send begins.
Dispatch(kind) ==
    /\ stage' = "dispatch"
    /\ gate' = kind
    /\ turn' = 1
    /\ sent' = << >>

\* The LLM's answer is parsed into an intent, or an exception ends ingest.
Classify ==
    /\ pc = "classify" /\ stage = "idle"
    /\ payload \in Continued
    /\ \/ Goto("raised") /\ UNCHANGED <<intent, gate, turn, sent>>
       \/ /\ intent' \in Intent
          /\ IF intent' \in Actionable \/ settings.notify_on_none
             THEN Dispatch("classification")
             ELSE Goto("over") /\ UNCHANGED <<gate, turn, sent>>
    /\ UNCHANGED <<settings, answers, pauses, files, revisions, buttons, clicks>>

\* Mutant: the documents go to the channel for notifications.
AlwaysNotifyChannel == settings.notify_channel

\* The channel of the message that is being sent.
Configured == IF gate = "delivery" THEN settings.deliver_channel
                                   ELSE settings.notify_channel

\* The dispatcher is at a channel that the message goes to.
Included ==
    /\ stage = "dispatch" /\ turn <= Len(SendOrder)
    /\ Includes(Configured, SendOrder[turn])

\* A channel that is not included is passed over.
PassOver ==
    /\ stage = "dispatch" /\ turn <= Len(SendOrder)
    /\ ~Includes(Configured, SendOrder[turn])
    /\ turn' = turn + 1
    /\ UNCHANGED <<settings, stage, intent, answers, pauses, files, revisions,
                   gate, sent, buttons, clicks>>

\* EmailNotifier.send and WhatsAppNotifier.send: only e-mail attaches files,
\* and WhatsApp says that they were sent by e-mail.
CopyFor(concrete) ==
    [channel |-> concrete,
     documents |-> gate = "delivery" /\ concrete = "email",
     claims |-> gate = "delivery" /\ concrete = "whatsapp"]

\* The copy reaches the owner; all copies of a message carry the same links.
GoesOut ==
    /\ sent' = Append(sent, CopyFor(SendOrder[turn]))
    /\ buttons' = IF sent = << >>
                  THEN [b \in Button |->
                          IF b \in ButtonsOf(gate) THEN buttons[b] + 1
                                                   ELSE buttons[b]]
                  ELSE buttons

\* A notifier sends its copy, or raises before or after the copy has gone out:
\* the quit of the SMTP session, or the answer of the Graph API, may fail last.
\* The SMTP session has no timeout and may never end, at any of its calls.
SendCopy ==
    /\ Included /\ SendOrder[turn] \in Targets
    /\ \/ GoesOut /\ turn' = turn + 1 /\ UNCHANGED stage
       \/ GoesOut /\ Goto("cut") /\ UNCHANGED turn
       \/ Goto("cut") /\ UNCHANGED <<turn, sent, buttons>>
       \/ /\ SendOrder[turn] = "email"
          /\ GoesOut \/ UNCHANGED <<sent, buttons>>
          /\ Goto("hung")
          /\ UNCHANGED turn
    /\ UNCHANGED <<settings, intent, answers, pauses, files, revisions, gate,
                   clicks>>

\* send returns, and the handler with it.
Dispatched ==
    /\ stage = "dispatch" /\ turn > Len(SendOrder)
    /\ Goto("waiting")
    /\ UNCHANGED <<settings, intent, answers, pauses, files, revisions, gate,
                   turn, sent, buttons, clicks>>

-----------------------------------------------------------------------------
(* The owner, one click at a time. A request that was classified NONE is    *)
(* DISCARDED, and its links are refused like all others that do not fit the *)
(* state of the request; refusals are left out.                             *)

Click(kind, button) ==
    /\ stage \in {"waiting", "cut", "hung"} /\ gate = kind
    /\ intent \in Actionable
    /\ buttons[button] > 0
    /\ clicks < MaxClicks
    /\ buttons' = [buttons EXCEPT ![button] = @ - 1]
    /\ clicks' = clicks + 1

\* The new intent is saved, and the owner is asked again.
Correct ==
    /\ \E i \in Actionable : Click("classification", i) /\ intent' = i
    /\ Dispatch("classification")
    /\ UNCHANGED <<settings, answers, pauses, files, revisions>>

\* Confirm, or Request revision.
Generates ==
    /\ Click("classification", "confirm") \/ Click("delivery", "revise")
    /\ Goto("generate")
    /\ answers' = << >>
    /\ pauses' = << >>
    /\ UNCHANGED <<settings, intent, files, revisions, gate, turn, sent>>

\* Reject, or Approve.
Ends ==
    /\ Click("classification", "reject") \/ Click("delivery", "approve")
    /\ Goto("over")
    /\ UNCHANGED <<settings, intent, answers, pauses, files, revisions, gate,
                   turn, sent>>

-----------------------------------------------------------------------------
(* _generate_render_deliver *)

\* Mutant: whatever fits a content model is taken.
FitsSome(answer) == answer \in Actionable

\* _parse: the content model is that of the intent.
Fits(answer) == answer = intent

\* Mutant: the attempts count from one, and the first pause is halved.
PauseEarly(attempt) == attempt - 1

\* The sleep after a failed attempt, but the last: the exponent of its length.
Pause(attempt) == attempt

\* range(self._max_attempts), after n attempts.
MayAttempt(n) == n < max_attempts

\* Mutant: only the last answer is kept, and the attempts are not counted.
AttemptUncounted ==
    /\ stage = "generate" /\ MayAttempt(Len(answers))
    /\ \E a \in Answer :
          /\ answers' = <<a>>
          /\ IF Fits(a) THEN Goto("render") ELSE UNCHANGED stage
    /\ UNCHANGED <<settings, intent, pauses, files, revisions, gate, turn, sent,
                   buttons, clicks>>

\* One round of the loop: every exception is caught.
Attempt ==
    /\ stage = "generate" /\ MayAttempt(Len(answers))
    /\ \E a \in Answer :
          /\ answers' = Append(answers, a)
          /\ IF Fits(a)
             THEN Goto("render") /\ UNCHANGED pauses
             ELSE /\ pauses' = IF Len(answers) + 1 < max_attempts
                               THEN Append(pauses, Pause(Len(answers)))
                               ELSE pauses
                  /\ UNCHANGED stage
    /\ UNCHANGED <<settings, intent, files, revisions, gate, turn, sent,
                   buttons, clicks>>

\* GenerationError: the request is FAILED.
GiveUp ==
    /\ stage = "generate" /\ ~MayAttempt(Len(answers))
    /\ Goto("failed")
    /\ UNCHANGED <<settings, intent, answers, pauses, files, revisions, gate,
                   turn, sent, buttons, clicks>>

\* render_document, both formats before any is stored; it may raise.
Render ==
    /\ stage = "render"
    /\ Goto("put_pdf") \/ Goto("raised")
    /\ UNCHANGED <<settings, intent, answers, pauses, files, revisions, gate,
                   turn, sent, buttons, clicks>>

NextRevision == Len(revisions) + 1

\* Mutant: an error of the object store is not noticed.
PutUnchecked(at, format, then) ==
    /\ stage = at
    /\ LET new == [revision_no |-> NextRevision, kind |-> intent,
                   format |-> format]
       IN  files' \in {files, files \cup {new}}
    /\ Goto(then)

\* storage.put of one file, named after the intent and the revision; it may
\* raise before or after the file is stored.
PutFile(at, format, then) ==
    /\ stage = at
    /\ LET new == [revision_no |-> NextRevision, kind |-> intent,
                   format |-> format]
       IN  \/ files' = files \cup {new} /\ Goto(then)
           \/ files' \in {files, files \cup {new}} /\ Goto("raised")

\* _store_artifacts.
StoreArtifact ==
    /\ PutFile("put_pdf", "pdf", "put_docx") \/ PutFile("put_docx", "docx", "add")
    /\ UNCHANGED <<settings, intent, answers, pauses, revisions, gate, turn,
                   sent, buttons, clicks>>

\* add_revision, the two transitions, and deliver_document.
AddRevision ==
    /\ stage = "add"
    /\ revisions' = Append(revisions,
          [revision_no |-> NextRevision, kind |-> Last(answers),
           attempts |-> Len(answers)])
    /\ Dispatch("delivery")
    /\ UNCHANGED <<settings, intent, answers, pauses, files, buttons, clicks>>

-----------------------------------------------------------------------------
Init ==
    /\ TranscriptInit
    /\ settings \in Valid
    /\ stage = "idle"
    /\ intent = "none"
    /\ answers = << >> /\ pauses = << >>
    /\ files = {} /\ revisions = << >>
    /\ gate = "none" /\ turn = 1 /\ sent = << >>
    /\ buttons = [b \in Button |-> 0]
    /\ clicks = 0

HandlerStep ==
    \/ Classify \/ PassOver \/ SendCopy \/ Dispatched
    \/ Attempt \/ GiveUp \/ Render \/ StoreArtifact \/ AddRevision

OwnerStep == Correct \/ Generates \/ Ends

Next ==
    \/ TranscriptStep /\ UNCHANGED documentVars
    \/ (HandlerStep \/ OwnerStep) /\ UNCHANGED transcriptVars

Spec == Init /\ [][Next]_vars

\* The handler's thread runs, and every external call returns or raises, but
\* for the sends that hang, which SendCopy has as an outcome. Nothing obliges
\* the owner to click.
Fairness ==
    /\ WF_vars(TranscriptStep /\ UNCHANGED documentVars)
    /\ WF_vars(HandlerStep /\ UNCHANGED transcriptVars)

LiveSpec == Spec /\ Fairness

-----------------------------------------------------------------------------
(* Properties. *)

\* Where a request may stay: with the owner, at its end, or in an error.
Resting == {"waiting", "cut", "failed", "raised", "over"}

Working == {"dispatch", "generate", "render", "put_pdf", "put_docx", "add"}

\* Type invariant of the whole path.
TypeOK ==
    /\ TranscriptTypeOK
    /\ settings \in Settings
    /\ stage \in {"idle", "hung"} \cup Working \cup Resting
    /\ intent \in Intent
    /\ answers \in Seq(Answer) /\ pauses \in Seq(Nat)
    /\ files \subseteq File
    /\ revisions \in Seq(Revision)
    /\ gate \in Gate /\ turn \in Nat \ {0}
    /\ sent \in Seq(Copy)
    /\ buttons \in [Button -> Nat] /\ clicks \in Nat

\* MissingNotifierError is never raised, on neither gate: the validator of the
\* settings is what gives the dispatcher a notifier for every channel it serves.
NobodyMissing == Included => SendOrder[turn] \in Targets

\* The channels the owner has configured for the message at hand.
Promised ==
    {c \in Concrete :
        \/ gate = "classification" /\ Includes(settings.notify_channel, c)
        \/ gate = "delivery" /\ Includes(settings.deliver_channel, c)}

\* FR-NOT-01 and FR-DLV-01: a message that went through has one copy on every
\* channel configured for its kind, and a message that was cut off has none
\* twice and none elsewhere.
CopiesMatchChannel ==
    LET On(c) == {n \in DOMAIN sent : sent[n].channel = c} IN
    \A c \in Concrete :
        /\ Cardinality(On(c)) <= 1
        /\ c \notin Promised => On(c) = {}
        /\ stage = "waiting" /\ c \in Promised => On(c) # {}

\* FR-RND-03: the owner is never asked about a document that is not on record
\* with both of its files, all of the kind of the request's intent.
DeliveredIsStored ==
    gate = "delivery" =>
        /\ revisions # << >>
        /\ \A n \in DOMAIN revisions :
              /\ revisions[n].revision_no = n
              /\ \A f \in Format :
                    [revision_no |-> n, kind |-> revisions[n].kind,
                     format |-> f] \in files
        /\ Last(revisions).kind = intent

\* Where documents also go by e-mail, the note "(Documents sent by email ...)"
\* of the WhatsApp copy is true, also when the delivery is cut off. Where they
\* go to WhatsApp alone it is false, and they reach nobody (FR-DLV-01).
ClaimIsTrue ==
    Includes(settings.deliver_channel, "email") =>
        \A n \in DOMAIN sent : sent[n].claims =>
            \E k \in 1 .. n - 1 : sent[k].documents

\* FR-GEN-05, "retry with backoff": a document is made from the first answer
\* that fits the confirmed intent, a request fails only after max_attempts
\* answers that do not, and the pauses between attempts double.
GenerationRetries ==
    LET Good == {n \in DOMAIN answers : answers[n] = intent}
        Doubling == [n \in 1 .. Len(answers) - 1 |-> n - 1]
    IN
    /\ stage \in {"render", "put_pdf", "put_docx", "add"} =>
          Good = {Len(answers)} /\ pauses = Doubling
    /\ stage = "failed" =>
          Good = {} /\ Len(answers) = max_attempts /\ pauses = Doubling

\* A body that has come in is worked on until the request waits for the owner
\* or has ended, and so is every click, whichever calls raise; only a session
\* with the SMTP server can keep a handler for ever. A batch that the object
\* store does not give back ends as "lost", without a request.
HandlersEnd ==
    []<>(\/ stage \in Resting
         \/ stage = "hung"
         \/ pc = "lost"
         \/ pc = "classify" /\ payload \notin Continued
         \/ pc = "parse" /\ batch = << >>)

=============================================================================
