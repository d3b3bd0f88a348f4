-------------------------- MODULE DocumentsProofs --------------------------
(***************************************************************************)
(* What reaches the owner is safe, stored, and on the channels that are    *)
(* configured, for any bodies, settings, number of attempts and clicks and *)
(* whichever external calls raise; it is made from the first answer that   *)
(* fits, and the retry loop pauses between its attempts and nowhere else.  *)
(***************************************************************************)
EXTENDS Documents, TranscriptProofs, FiniteSetTheorems, SequenceTheorems

\* Where a document is being made from an answer that fits.
Making == {"render", "put_pdf", "put_docx", "add"}

StoredAs(no, kind, format) ==
    [revision_no |-> no, kind |-> kind, format |-> format] \in files

\* What was sent when the dispatcher has passed the first channel, and both.
SentFirst ==
    IF Includes(Configured, "email") THEN <<CopyFor("email")>> ELSE << >>

SentBoth ==
    IF Includes(Configured, "whatsapp")
    THEN Append(SentFirst, CopyFor("whatsapp")) ELSE SentFirst

\* The strengthening of CopiesMatchChannel and ClaimIsTrue: what has gone out
\* is what the dispatcher has passed, and at most one copy more when it was cut
\* off; it follows the order of the channels, and the gate does not change
\* under way.
SentInv ==
    /\ settings \in Valid
    /\ \/ turn = 1 /\ sent \in {<< >>, SentFirst}
       \/ turn = 2 /\ sent \in {SentFirst, SentBoth}
       \/ turn = 3 /\ sent = SentBoth
    /\ stage = "dispatch" =>
          /\ gate # "none"
          /\ \/ turn = 1 /\ sent = << >>
             \/ turn = 2 /\ sent = SentFirst
             \/ turn = 3 /\ sent = SentBoth
    /\ stage = "waiting" => turn = 3
    /\ stage = "idle" => gate = "none"
    /\ gate \in Gate
    /\ gate = "none" => sent = << >>

\* The strengthening of DeliveredIsStored: what a handler that makes a document
\* has stored so far, and that the intent is settled when a document exists.
StoredInv ==
    /\ intent \in Intent
    /\ answers \in Seq(Answer)
    /\ revisions \in Seq(Revision)
    /\ stage \in Making \cup {"generate"} => intent \in Actionable
    /\ stage \in Making => answers # << >> /\ Last(answers) = intent
    /\ stage \in {"put_docx", "add"} => StoredAs(NextRevision, intent, "pdf")
    /\ stage = "add" => StoredAs(NextRevision, intent, "docx")
    /\ stage = "idle" => gate = "none"
    /\ revisions # << >> => gate = "delivery" /\ Last(revisions).kind = intent
    /\ gate = "delivery" => revisions # << >>
    /\ \A n \in DOMAIN revisions :
          /\ revisions[n].revision_no = n
          /\ \A f \in Format : StoredAs(n, revisions[n].kind, f)

\* The pauses after the first k attempts have failed.
Doubled(k) == [n \in 1 .. k |-> n - 1]

\* No answer up to the k-th fits the intent.
Unfit(k) == \A n \in 1 .. k : answers[n] # intent

\* The strengthening of GenerationRetries: what the loop has come to after the
\* attempts it has made; there is no pause after the last.
RetryInv ==
    /\ answers \in Seq(Answer)
    /\ stage = "generate" =>
          /\ Len(answers) <= max_attempts
          /\ Unfit(Len(answers))
          /\ pauses = Doubled(IF Len(answers) < max_attempts
                              THEN Len(answers) ELSE max_attempts - 1)
    /\ stage \in Making =>
          /\ answers # << >>
          /\ answers[Len(answers)] = intent
          /\ Unfit(Len(answers) - 1)
          /\ pauses = Doubled(Len(answers) - 1)
    /\ stage = "failed" =>
          /\ Len(answers) = max_attempts
          /\ Unfit(max_attempts)
          /\ pauses = Doubled(max_attempts - 1)

\* What TypeOK says beyond the transcript and what StoredInv says.
TypedInv ==
    /\ settings \in Settings
    /\ stage \in {"idle", "hung"} \cup Working \cup Resting
    /\ pauses \in Seq(Nat)
    /\ files \subseteq File
    /\ gate \in Gate /\ turn \in Nat \ {0}
    /\ sent \in Seq(Copy)
    /\ buttons \in [Button -> Nat] /\ clicks \in Nat

-----------------------------------------------------------------------------
(* The transcript goes on as it does alone. *)

LEMMA DocumentsSafeStep == SafeInv /\ [Next]_vars => SafeInv'
<1> SUFFICES ASSUME SafeInv, [Next]_vars PROVE SafeInv'
  OBVIOUS
<1>1. [TranscriptStep]_transcriptVars
  BY DEF Next, vars
<1> QED
  BY <1>1, SafeStep

\* The checks of the downloader on the whole path to the owner, for any settings too.
THEOREM OnlySafeMediaThroughout == Spec => []OnlySafeMedia
<1>1. Init => SafeInv
  BY SafeInit DEF Init
<1>2. SafeInv => OnlySafeMedia
  BY DEF SafeInv, OnlySafeMedia, FromSafe
<1> QED
  BY <1>1, <1>2, DocumentsSafeStep, PTL DEF Spec

\* FR-MED-06 and FR-MED-07 likewise: nothing that happens to a request after
\* its transcript changes what the transcript says of the messages.
THEOREM TranscriptIsFaithfulThroughout == Spec => []TranscriptIsFaithful
<1>1. Init => SafeInv /\ FaithfulInv
  BY SafeInit, FaithfulInit DEF Init
<1>2. SafeInv /\ FaithfulInv /\ [Next]_vars => (SafeInv /\ FaithfulInv)'
  <2> SUFFICES ASSUME SafeInv, FaithfulInv, [Next]_vars
               PROVE  (SafeInv /\ FaithfulInv)'
    OBVIOUS
  <2>1. [TranscriptStep]_transcriptVars
    BY DEF Next, vars
  <2> QED
    BY <2>1, SafeStep, FaithfulStep
<1> QED
  BY <1>1, <1>2, FaithfulEnough, PTL DEF Spec

-----------------------------------------------------------------------------
(* The dispatcher. *)

LEMMA SentInit == Init => SentInv
BY DEF Init, SentInv, Gate

\* A step that does not touch the message, nor comes back to the dispatcher.
LEMMA SentQuiet ==
    ASSUME SentInv, UNCHANGED <<settings, gate, turn, sent>>,
           stage' \notin {"dispatch", "waiting", "idle"}
    PROVE  SentInv'
BY DEF SentInv, SentFirst, SentBoth, Configured, CopyFor

\* A message is begun.
LEMMA SentBegin ==
    ASSUME SentInv, UNCHANGED settings, NEW kind \in Gate \ {"none"},
           Dispatch(kind)
    PROVE  SentInv'
BY DEF SentInv, Dispatch, SentFirst, SentBoth, Gate

LEMMA SentPassOver ==
    ASSUME SentInv, PassOver
    PROVE  SentInv'
<1>1. Len(SendOrder) = 2 /\ SendOrder[1] = "email" /\ SendOrder[2] = "whatsapp"
  BY DEF SendOrder
<1>2. CASE turn = 1
  BY <1>1, <1>2 DEF PassOver, SentInv, SentFirst, SentBoth, Configured, CopyFor
<1>3. CASE turn = 2
  BY <1>1, <1>3 DEF PassOver, SentInv, SentFirst, SentBoth, Configured, CopyFor
<1> QED
  BY <1>1, <1>2, <1>3 DEF PassOver, SentInv

LEMMA SentSendCopy ==
    ASSUME SentInv, SendCopy
    PROVE  SentInv'
<1>0. /\ Len(SendOrder) = 2 /\ SendOrder[1] = "email" /\ SendOrder[2] = "whatsapp"
      /\ stage = "dispatch" /\ turn \in {1, 2}
      /\ UNCHANGED <<settings, gate>>
  BY DEF SendOrder, SendCopy, Included, SentInv
<1>1. /\ SentFirst' = SentFirst /\ SentBoth' = SentBoth
  BY <1>0 DEF SentFirst, SentBoth, Configured, CopyFor
<1>2. /\ turn = 1 => /\ sent = << >>
                     /\ SentFirst = Append(sent, CopyFor("email"))
      /\ turn = 2 => /\ sent = SentFirst
                     /\ SentBoth = Append(sent, CopyFor("whatsapp"))
  <2>1. CASE turn = 1
    <3>1. Includes(Configured, "email") /\ sent = << >>
      BY <1>0, <2>1 DEF SendCopy, Included, SentInv
    <3> QED
      BY <2>1, <3>1 DEF SentFirst
  <2>2. CASE turn = 2
    BY <1>0, <2>2 DEF SendCopy, Included, SentInv, SentBoth
  <2> QED
    BY <1>0, <2>1, <2>2
<1>3. gate # "none"
  BY <1>0 DEF SentInv
<1>4. CASE GoesOut /\ turn' = turn + 1 /\ UNCHANGED stage
  BY <1>0, <1>1, <1>2, <1>3, <1>4 DEF GoesOut, SentInv
<1>5. CASE GoesOut /\ (Goto("cut") \/ Goto("hung")) /\ UNCHANGED turn
  BY <1>0, <1>1, <1>2, <1>3, <1>5 DEF GoesOut, Goto, SentInv
<1>6. CASE /\ UNCHANGED <<turn, sent, buttons>>
           /\ Goto("cut") \/ Goto("hung")
  BY <1>0, <1>6, SentQuiet DEF Goto
<1> QED
  BY <1>4, <1>5, <1>6 DEF SendCopy

LEMMA SentStep == SentInv /\ [Next]_vars => SentInv'
<1> SUFFICES ASSUME SentInv, [Next]_vars PROVE SentInv'
  OBVIOUS
<1>1. CASE UNCHANGED documentVars
  BY <1>1 DEF documentVars, SentInv, SentFirst, SentBoth, Configured, CopyFor
<1>2. CASE Classify
  <2>1. CASE Dispatch("classification")
    BY <1>2, <2>1, SentBegin DEF Classify, Gate
  <2>2. CASE stage' \in {"raised", "over"} /\ UNCHANGED <<gate, turn, sent>>
    BY <1>2, <2>2, SentQuiet DEF Classify
  <2> QED
    BY <1>2, <2>1, <2>2 DEF Classify, Goto
<1>3. CASE Dispatched
  BY <1>3 DEF Dispatched, Goto, SendOrder, SentInv, SentFirst, SentBoth,
              Configured, CopyFor
<1>4. CASE Correct
  BY <1>4, SentBegin DEF Correct, Gate
<1>5. CASE AddRevision
  BY <1>5, SentBegin DEF AddRevision, Gate
<1>6. CASE Generates \/ Ends
  BY <1>6, SentQuiet DEF Generates, Ends, Goto
<1>7. CASE Attempt
  BY <1>7, SentQuiet DEF Attempt, Goto
<1>8. CASE GiveUp \/ Render
  BY <1>8, SentQuiet DEF GiveUp, Render, Goto
<1>9. CASE StoreArtifact
  BY <1>9, SentQuiet DEF StoreArtifact, PutFile, Goto
<1> QED
  BY <1>1, <1>2, <1>3, <1>4, <1>5, <1>6, <1>7, <1>8, <1>9, SentPassOver,
     SentSendCopy DEF Next, HandlerStep, OwnerStep, vars

\* The validator of the settings gives the dispatcher all notifiers it needs:
\* MissingNotifierError is never raised.
THEOREM NobodyMissingAlways == Spec => []NobodyMissing
<1>1. SentInv => NobodyMissing
  <2> SUFFICES ASSUME SentInv, Included PROVE SendOrder[turn] \in Targets
    BY DEF NobodyMissing
  <2>1. SendOrder[turn] \in Concrete
    BY DEF Included, SentInv, SendOrder, Concrete
  <2>2. \/ Includes(settings.notify_channel, SendOrder[turn])
        \/ Includes(settings.deliver_channel, SendOrder[turn])
    BY DEF Included, Configured
  <2> QED
    BY <2>1, <2>2 DEF SentInv, Valid, Targets
<1> QED
  BY <1>1, SentInit, SentStep, PTL DEF Spec

LEMMA AppendPair ==
    ASSUME NEW a, NEW b
    PROVE  Append(<<a>>, b) = <<a, b>>
<1> DEFINE s == Append(<<a>>, b)
           t == <<a, b>>
<1>1. s \in Seq({a, b}) /\ t \in Seq({a, b}) /\ Len(s) = 2 /\ Len(t) = 2
  OBVIOUS
<1>2. s[1] = t[1] /\ s[2] = t[2]
  OBVIOUS
<1> HIDE DEF s, t
<1>3. \A i \in 1 .. Len(s) : s[i] = t[i]
  BY <1>1, <1>2
<1>4. s = t
  BY <1>1, <1>3, SeqEqual
<1> QED
  BY <1>4 DEF s, t

\* What is out is nothing, or the copies of the first channels in their order.
LEMMA SentForms ==
    ASSUME SentInv
    PROVE  LET e == CopyFor("email")
               w == CopyFor("whatsapp")
               E == Includes(Configured, "email")
               W == Includes(Configured, "whatsapp")
           IN  \/ sent = << >> /\ (stage = "waiting" => ~E /\ ~W)
               \/ sent = <<e>> /\ E /\ (stage = "waiting" => ~W)
               \/ sent = <<w>> /\ W /\ ~E
               \/ sent = <<e, w>> /\ E /\ W
<1> DEFINE e == CopyFor("email")
           w == CopyFor("whatsapp")
<1>1. Append(<<e>>, w) = <<e, w>> /\ Append(<< >>, w) = <<w>>
  BY AppendPair
<1> HIDE DEF e, w
<1>2. SentFirst = IF Includes(Configured, "email") THEN <<e>> ELSE << >>
  BY DEF SentFirst, e
<1>3. SentBoth = IF Includes(Configured, "whatsapp")
                 THEN IF Includes(Configured, "email") THEN <<e, w>> ELSE <<w>>
                 ELSE SentFirst
  BY <1>1, <1>2 DEF SentBoth, w
<1>4. stage = "waiting" => sent = SentBoth
  BY DEF SentInv
<1>5. sent \in {<< >>, SentFirst, SentBoth}
  BY DEF SentInv
<1> QED
  BY <1>2, <1>3, <1>4, <1>5 DEF e, w

\* FR-NOT-01 and FR-DLV-01, for any settings and wherever a notifier raises: a
\* message has no copy twice, none off its channels, and when it went through
\* one on each of them.
THEOREM CopiesMatchChannelAlways == Spec => []CopiesMatchChannel
<1>1. SentInv => CopiesMatchChannel
  <2> SUFFICES ASSUME SentInv, NEW c \in Concrete
               PROVE  LET On == {n \in DOMAIN sent : sent[n].channel = c} IN
                      /\ Cardinality(On) <= 1
                      /\ c \notin Promised => On = {}
                      /\ stage = "waiting" /\ c \in Promised => On # {}
    BY DEF CopiesMatchChannel
  <2> DEFINE On == {n \in DOMAIN sent : sent[n].channel = c}
  <2>1. /\ CopyFor("email").channel = "email"
        /\ CopyFor("whatsapp").channel = "whatsapp"
        /\ c \in {"email", "whatsapp"}
    BY DEF CopyFor, Concrete
  <2>2. \/ On = {} /\ (stage = "waiting" => ~Includes(Configured, c))
        \/ On = {1} /\ Includes(Configured, c) /\ sent # << >>
        \/ On = {2} /\ Includes(Configured, c) /\ sent # << >>
    <3>1. CASE sent = << >>
      BY <2>1, <3>1, SentForms
    <3>2. CASE sent = <<CopyFor("email")>>
      BY <2>1, <3>2, SentForms
    <3>3. CASE sent = <<CopyFor("whatsapp")>>
      BY <2>1, <3>3, SentForms
    <3>4. CASE sent = <<CopyFor("email"), CopyFor("whatsapp")>>
      BY <2>1, <3>4, SentForms
    <3> QED
      BY <3>1, <3>2, <3>3, <3>4, SentForms
  <2> HIDE DEF On
  <2>3. Cardinality(On) <= 1
    <3>1. Cardinality({}) = 0 /\ Cardinality({1}) = 1 /\ Cardinality({2}) = 1
      BY FS_EmptySet, FS_Singleton
    <3>2. Cardinality(On) \in {0, 1}
      BY <2>2, <3>1, Zenon
    <3> QED
      BY <3>2
  <2>4. sent # << >> /\ Includes(Configured, c) => c \in Promised
    BY DEF SentInv, Promised, Configured, Gate
  <2>5. c \in Promised => Includes(Configured, c)
    BY DEF Promised, Configured
  <2> QED
    BY <2>2, <2>3, <2>4, <2>5 DEF On
<1> QED
  BY <1>1, SentInit, SentStep, PTL DEF Spec

\* Where documents go by e-mail too, the WhatsApp copy does not claim so before
\* it is true.
THEOREM ClaimIsTrueAlways == Spec => []ClaimIsTrue
<1>1. SentInv => ClaimIsTrue
  <2> SUFFICES ASSUME SentInv, Includes(settings.deliver_channel, "email"),
                      NEW n \in DOMAIN sent, sent[n].claims
               PROVE  \E k \in 1 .. n - 1 : sent[k].documents
    BY DEF ClaimIsTrue
  <2>1. gate = "delivery"
    <3>1. ~CopyFor("email").claims /\ (CopyFor("whatsapp").claims => gate = "delivery")
      BY DEF CopyFor
    <3>2. sent[n] \in {CopyFor("email"), CopyFor("whatsapp")}
      BY SentForms
    <3> QED
      BY <3>1, <3>2
  <2>2. /\ Includes(Configured, "email") /\ ~CopyFor("email").claims
        /\ CopyFor("email").documents
    BY <2>1 DEF Configured, CopyFor
  <2>3. sent = <<CopyFor("email"), CopyFor("whatsapp")>> /\ n = 2
    BY <2>2, SentForms
  <2> QED
    BY <2>2, <2>3
<1> QED
  BY <1>1, SentInit, SentStep, PTL DEF Spec

-----------------------------------------------------------------------------
(* Generation, storing and delivery. *)

LEMMA StoredInit == Init => StoredInv
BY DEF Init, StoredInv, Making, Intent

\* A step that makes no document, outside _generate_render_deliver.
LEMMA StoredQuiet ==
    ASSUME StoredInv, UNCHANGED <<intent, files, revisions, gate>>,
           answers' \in Seq(Answer), stage' \notin Making \cup {"idle"},
           stage' = "generate" => intent \in Actionable
    PROVE  StoredInv'
BY DEF StoredInv, Making, StoredAs

LEMMA StoredAttempt ==
    ASSUME StoredInv, Attempt
    PROVE  StoredInv'
<1>0. UNCHANGED <<intent, files, revisions, gate>> /\ intent \in Actionable
  BY DEF Attempt, StoredInv
<1>1. PICK a \in Answer :
         /\ answers' = Append(answers, a)
         /\ IF Fits(a) THEN stage' = "render" ELSE stage' = stage
  BY DEF Attempt, Goto
<1>2. /\ answers' \in Seq(Answer) /\ answers' # << >> /\ Last(answers') = a
  BY <1>1 DEF StoredInv, Last
<1>3. CASE Fits(a)
  BY <1>0, <1>1, <1>2, <1>3 DEF StoredInv, Making, StoredAs, Fits
<1>4. CASE ~Fits(a)
  BY <1>0, <1>1, <1>2, <1>4, StoredQuiet DEF Attempt, Making
<1> QED
  BY <1>3, <1>4

LEMMA StoredPut ==
    ASSUME StoredInv, StoreArtifact
    PROVE  StoredInv'
<1>0. /\ UNCHANGED <<intent, answers, revisions, gate>> /\ stage \in Making
      /\ files \subseteq files' /\ NextRevision' = NextRevision
  BY DEF StoreArtifact, PutFile, Making, NextRevision
<1>1. /\ \A no, kind, format :
            StoredAs(no, kind, format) => StoredAs(no, kind, format)'
  BY <1>0 DEF StoredAs
<1>2. \/ stage' = "raised"
      \/ /\ stage' = "put_docx" /\ StoredAs(NextRevision, intent, "pdf")'
      \/ /\ stage' = "add" /\ StoredAs(NextRevision, intent, "pdf")'
         /\ StoredAs(NextRevision, intent, "docx")'
  BY <1>0, <1>1 DEF StoreArtifact, PutFile, Goto, StoredAs, StoredInv
<1> QED
  BY <1>0, <1>1, <1>2 DEF StoredInv, Making

LEMMA StoredAdd ==
    ASSUME StoredInv, AddRevision
    PROVE  StoredInv'
<1> DEFINE new == [revision_no |-> NextRevision, kind |-> Last(answers),
                   attempts |-> Len(answers)]
<1>0. /\ UNCHANGED <<intent, answers, files>> /\ stage = "add"
      /\ stage' = "dispatch" /\ gate' = "delivery"
      /\ revisions' = Append(revisions, new)
      /\ intent \in Actionable /\ Last(answers) = intent
      /\ revisions \in Seq(Revision) /\ answers \in Seq(Answer)
  BY DEF AddRevision, Dispatch, StoredInv, Making
<1>1. NextRevision = Len(revisions) + 1 /\ Len(revisions) \in Nat
  BY <1>0 DEF NextRevision
<1>2. new \in Revision
  BY <1>0, <1>1 DEF Revision
<1>3. /\ revisions' \in Seq(Revision) /\ Len(revisions') = Len(revisions) + 1
      /\ revisions'[Len(revisions) + 1] = new
      /\ \A n \in 1 .. Len(revisions) : revisions'[n] = revisions[n]
  BY <1>0, <1>2
<1>4. revisions' # << >> /\ Last(revisions') = new
  BY <1>1, <1>3 DEF Last
<1>5. ASSUME NEW n \in DOMAIN revisions'
      PROVE  /\ revisions'[n].revision_no = n
             /\ \A f \in Format : StoredAs(n, revisions'[n].kind, f)
  <2>1. CASE n = Len(revisions) + 1
    BY <1>0, <1>1, <1>3, <2>1 DEF StoredInv, Format
  <2>2. CASE n \in 1 .. Len(revisions)
    BY <1>0, <1>3, <2>2 DEF StoredInv
  <2> QED
    BY <1>1, <1>3, <2>1, <2>2
<1>6. ASSUME NEW n \in DOMAIN revisions', NEW f \in Format
      PROVE  [revision_no |-> n, kind |-> revisions'[n].kind,
              format |-> f] \in files'
  BY <1>0, <1>5 DEF StoredAs
<1>7. \A n \in DOMAIN revisions' :
         /\ revisions'[n].revision_no = n
         /\ \A f \in Format :
              [revision_no |-> n, kind |-> revisions'[n].kind,
               format |-> f] \in files'
  BY <1>5, <1>6
<1>8. /\ intent' \in Intent /\ answers' \in Seq(Answer)
      /\ stage' \notin Making \cup {"generate", "idle"}
      /\ Last(revisions').kind = intent'
  BY <1>0, <1>4 DEF StoredInv, Making
<1> HIDE DEF new
<1> QED
  BY <1>0, <1>3, <1>4, <1>7, <1>8 DEF StoredInv, StoredAs, Making, Format

LEMMA StoredStep == StoredInv /\ [Next]_vars => StoredInv'
<1> SUFFICES ASSUME StoredInv, [Next]_vars PROVE StoredInv'
  OBVIOUS
<1>0. Actionable \subseteq Intent
  BY DEF Actionable, Intent
<1>1. CASE UNCHANGED documentVars
  BY <1>1 DEF documentVars, StoredInv, StoredAs, NextRevision
<1>2. CASE Classify
  <2>1. revisions = << >> /\ UNCHANGED <<answers, files, revisions>>
        /\ gate = "none"
    BY <1>2 DEF Classify, StoredInv
  <2>2. intent' \in Intent /\ gate' \in {"none", "classification"}
        /\ stage' \in {"raised", "over", "dispatch"}
    BY <1>2, <2>1 DEF Classify, Goto, Dispatch, StoredInv
  <2> QED
    BY <2>1, <2>2 DEF StoredInv, Making
<1>3. CASE PassOver \/ SendCopy \/ Dispatched
  <2>1. /\ UNCHANGED <<intent, answers, files, revisions, gate>>
        /\ stage' \in {"dispatch", "cut", "hung", "waiting"}
    BY <1>3 DEF PassOver, SendCopy, Dispatched, Included, Goto
  <2> QED
    BY <2>1, StoredQuiet DEF StoredInv, Making
<1>4. CASE Correct
  <2>1. /\ revisions = << >> /\ UNCHANGED <<answers, files, revisions>>
        /\ intent' \in Intent /\ gate' = "classification" /\ stage' = "dispatch"
    BY <1>0, <1>4 DEF Correct, Click, Dispatch, StoredInv
  <2> QED
    BY <2>1 DEF StoredInv, Making
<1>5. CASE Generates \/ Ends
  <2>1. /\ UNCHANGED <<intent, files, revisions, gate>>
        /\ answers' \in Seq(Answer) /\ stage' \in {"generate", "over"}
        /\ intent \in Actionable
    <3>1. CASE Generates
      <4>1. /\ UNCHANGED <<intent, files, revisions, gate>>
            /\ answers' = << >> /\ stage' = "generate" /\ intent \in Actionable
        BY <3>1 DEF Generates, Click, Goto
      <4>2. << >> \in Seq(Answer)
        OBVIOUS
      <4> QED
        BY <4>1, <4>2
    <3>2. CASE Ends
      BY <3>2 DEF Ends, Click, Goto, StoredInv
    <3> QED
      BY <1>5, <3>1, <3>2
  <2> QED
    BY <2>1, StoredQuiet DEF Making
<1>6. CASE GiveUp
  BY <1>6, StoredQuiet DEF GiveUp, Goto, StoredInv, Making
<1>7. CASE Render
  BY <1>7 DEF Render, Goto, StoredInv, Making, StoredAs
<1> QED
  BY <1>1, <1>2, <1>3, <1>4, <1>5, <1>6, <1>7, StoredAttempt, StoredPut, StoredAdd
     DEF Next, HandlerStep, OwnerStep, vars

\* FR-RND-03, for any settings, attempts and clicks: the owner is never asked
\* about a document that is not stored in both formats and on record.
THEOREM DeliveredIsStoredAlways == Spec => []DeliveredIsStored
<1>1. StoredInv => DeliveredIsStored
  BY DEF StoredInv, StoredAs, DeliveredIsStored
<1> QED
  BY <1>1, StoredInit, StoredStep, PTL DEF Spec

-----------------------------------------------------------------------------
(* The retry loop. *)

LEMMA RetryInit == Init => RetryInv
BY DEF Init, RetryInv, Making

\* A step outside the loop and outside the making of a document.
LEMMA RetryQuiet ==
    ASSUME RetryInv, UNCHANGED answers,
           stage' \notin Making \cup {"generate", "failed"}
    PROVE  RetryInv'
BY DEF RetryInv

\* A step in the making of a document.
LEMMA RetryMaking ==
    ASSUME RetryInv, UNCHANGED <<intent, answers, pauses>>,
           stage \in Making, stage' \in Making \cup {"raised"}
    PROVE  RetryInv'
BY DEF RetryInv, Making, Unfit

LEMMA DoubledAppend ==
    ASSUME NEW k \in Nat
    PROVE  Append(Doubled(k), Pause(k)) = Doubled(k + 1)
<1> DEFINE s == Append(Doubled(k), Pause(k))
           t == Doubled(k + 1)
<1>1. Doubled(k) \in Seq(Int) /\ Len(Doubled(k)) = k
  BY DEF Doubled
<1>2. t \in Seq(Int) /\ Len(t) = k + 1
  BY DEF Doubled
<1>3. s \in Seq(Int) /\ Len(s) = k + 1
  BY <1>1 DEF Pause
<1>4. \A i \in 1 .. k : s[i] = i - 1
  BY <1>1 DEF Doubled
<1>5. s[k + 1] = k
  BY <1>1 DEF Pause
<1>6. \A i \in 1 .. k + 1 : t[i] = i - 1
  BY DEF Doubled
<1>7. \A i \in 1 .. Len(s) : s[i] = t[i]
  BY <1>3, <1>4, <1>5, <1>6
<1> HIDE DEF s, t
<1>8. s = t
  BY <1>2, <1>3, <1>7, SeqEqual
<1> QED
  BY <1>8 DEF s, t

LEMMA RetryAttempt ==
    ASSUME RetryInv, Attempt
    PROVE  RetryInv'
<1> DEFINE k == Len(answers)
<1>0. /\ stage = "generate" /\ k < max_attempts /\ k \in Nat
      /\ max_attempts \in Nat \ {0} /\ answers \in Seq(Answer)
      /\ Unfit(k) /\ pauses = Doubled(k) /\ UNCHANGED intent
  BY DocumentsAssumption DEF Attempt, MayAttempt, RetryInv
<1>1. PICK a \in Answer :
         /\ answers' = Append(answers, a)
         /\ IF Fits(a)
            THEN Goto("render") /\ UNCHANGED pauses
            ELSE /\ pauses' = IF k + 1 < max_attempts
                              THEN Append(pauses, Pause(k)) ELSE pauses
                 /\ UNCHANGED stage
  BY DEF Attempt
<1>2. /\ answers' \in Seq(Answer) /\ Len(answers') = k + 1
      /\ answers'[k + 1] = a
      /\ \A n \in 1 .. k : answers'[n] = answers[n]
  BY <1>0, <1>1
<1>3. \A n \in 1 .. k : answers'[n] # intent'
  BY <1>0, <1>2 DEF Unfit
<1>4. CASE Fits(a)
  <2>1. /\ stage' = "render" /\ pauses' = Doubled(k) /\ answers'[k + 1] = intent'
    BY <1>0, <1>1, <1>2, <1>4 DEF Goto, Fits
  <2> HIDE DEF k
  <2>2. Len(answers') - 1 = k /\ answers' # << >>
    BY <1>0, <1>2
  <2> QED
    BY <1>0, <1>2, <1>3, <2>1, <2>2 DEF RetryInv, Making, Unfit, Doubled
<1>5. CASE ~Fits(a)
  <2>1. \A n \in 1 .. k + 1 : answers'[n] # intent'
    BY <1>0, <1>2, <1>3, <1>5 DEF Fits
  <2>2. stage' = "generate"
    BY <1>0, <1>1, <1>5
  <2>3. pauses' = Doubled(IF k + 1 < max_attempts THEN k + 1 ELSE max_attempts - 1)
    <3>1. CASE k + 1 < max_attempts
      BY <1>0, <1>1, <1>5, <3>1, DoubledAppend
    <3>2. CASE ~(k + 1 < max_attempts)
      <4>1. k = max_attempts - 1
        BY <1>0, <3>2
      <4> QED
        BY <1>0, <1>1, <1>5, <3>2, <4>1
    <3> QED
      BY <3>1, <3>2
  <2> HIDE DEF k
  <2> QED
    BY <1>0, <1>2, <2>1, <2>2, <2>3 DEF RetryInv, Making, Unfit, Doubled
<1> QED
  BY <1>4, <1>5

LEMMA RetryGiveUp ==
    ASSUME RetryInv, GiveUp
    PROVE  RetryInv'
<1>0. /\ stage = "generate" /\ stage' = "failed"
      /\ UNCHANGED <<intent, answers, pauses>>
      /\ Len(answers) \in Nat /\ max_attempts \in Nat
      /\ Len(answers) = max_attempts
  BY DocumentsAssumption DEF GiveUp, Goto, MayAttempt, RetryInv
<1> QED
  BY <1>0 DEF RetryInv, Making, Unfit

LEMMA RetryStep == RetryInv /\ [Next]_vars => RetryInv'
<1> SUFFICES ASSUME RetryInv, [Next]_vars PROVE RetryInv'
  OBVIOUS
<1>1. CASE UNCHANGED documentVars
  BY <1>1 DEF documentVars, RetryInv, Unfit
<1>2. CASE Classify \/ PassOver \/ SendCopy \/ Dispatched
  <2>1. /\ UNCHANGED answers
        /\ stage' \in {"raised", "over", "dispatch", "cut", "hung", "waiting"}
    BY <1>2 DEF Classify, PassOver, SendCopy, Dispatched, Included, Goto, Dispatch
  <2> QED
    BY <2>1, RetryQuiet DEF Making
<1>3. CASE Correct \/ Ends
  BY <1>3, RetryQuiet DEF Correct, Ends, Dispatch, Goto, Making
<1>4. CASE Generates
  <2>1. stage' = "generate" /\ answers' = << >> /\ pauses' = << >>
    BY <1>4 DEF Generates, Goto
  <2>2. << >> \in Seq(Answer) /\ Len(<< >>) = 0 /\ Doubled(0) = << >>
    BY DEF Doubled
  <2>3. max_attempts \in Nat /\ 0 < max_attempts
    BY DocumentsAssumption
  <2>4. stage' # "failed" /\ stage' \notin Making /\ Len(answers') = 0
        /\ pauses' = Doubled(0)
    BY <2>1, <2>2 DEF Making
  <2> QED
    BY <2>1, <2>2, <2>3, <2>4 DEF RetryInv, Unfit, Doubled
<1>5. CASE Render \/ StoreArtifact
  BY <1>5, RetryMaking DEF Render, StoreArtifact, PutFile, Goto, Making
<1>6. CASE AddRevision
  BY <1>6, RetryQuiet DEF AddRevision, Dispatch, Making
<1> QED
  BY <1>1, <1>2, <1>3, <1>4, <1>5, <1>6, RetryAttempt, RetryGiveUp
     DEF Next, HandlerStep, OwnerStep, vars

\* FR-GEN-05, for any number of attempts: a document is made from the first
\* answer that fits, a request fails after max_attempts that do not, and every
\* failed attempt but the last is followed by a pause twice as long.
THEOREM GenerationRetriesAlways == Spec => []GenerationRetries
<1>1. RetryInv => GenerationRetries
  <2> SUFFICES ASSUME RetryInv PROVE GenerationRetries
    OBVIOUS
  <2> DEFINE Good == {n \in DOMAIN answers : answers[n] = intent}
  <2>0. answers \in Seq(Answer) /\ Len(answers) \in Nat
        /\ DOMAIN answers = 1 .. Len(answers)
    BY DEF RetryInv
  <2>1. CASE stage \in Making
    <3>1. Good = {Len(answers)}
      BY <2>0, <2>1 DEF RetryInv, Unfit
    <3> QED
      BY <2>1, <3>1 DEF GenerationRetries, RetryInv, Making, Doubled
  <2>2. CASE stage = "failed"
    <3>1. Good = {}
      BY <2>0, <2>2 DEF RetryInv, Unfit
    <3> QED
      BY <2>2, <3>1 DEF GenerationRetries, RetryInv, Doubled
  <2>3. CASE stage \notin Making \cup {"failed"}
    BY <2>3 DEF GenerationRetries, Making
  <2> QED
    BY <2>1, <2>2, <2>3
<1> QED
  BY <1>1, RetryInit, RetryStep, PTL DEF Spec

-----------------------------------------------------------------------------
(* The type invariant. *)

LEMMA TypedInit == Init => TypedInv
<1> SUFFICES ASSUME Init PROVE TypedInv
  OBVIOUS
<1>1. Valid \subseteq Settings
  BY DEF Valid
<1>2. buttons \in [Button -> Nat]
  BY DEF Init
<1> QED
  BY <1>1, <1>2 DEF Init, TypedInv, Gate

\* A message is begun.
LEMMA TypedDispatch ==
    ASSUME TypedInv, NEW kind \in Gate, Dispatch(kind),
           UNCHANGED <<settings, pauses, files>>,
           buttons' \in [Button -> Nat], clicks' \in Nat
    PROVE  TypedInv'
BY DEF TypedInv, Dispatch, Working

\* A click uses a link up.
LEMMA ClickTyped ==
    ASSUME TypedInv, NEW kind, NEW button \in Button, Click(kind, button)
    PROVE  buttons' \in [Button -> Nat] /\ clicks' \in Nat
<1>1. buttons \in [Button -> Nat] /\ clicks \in Nat /\ buttons[button] > 0
  BY DEF TypedInv, Click
<1>2. buttons[button] - 1 \in Nat
  BY <1>1
<1> QED
  BY <1>1, <1>2 DEF Click

LEMMA GoesOutTyped ==
    ASSUME TypedInv, GoesOut, turn <= Len(SendOrder)
    PROVE  sent' \in Seq(Copy) /\ buttons' \in [Button -> Nat]
<1>1. SendOrder[turn] \in Concrete
  BY DEF TypedInv, SendOrder, Concrete
<1>2. CopyFor(SendOrder[turn]) \in Copy
  BY <1>1 DEF CopyFor, Copy
<1>3. buttons' \in [Button -> Nat]
  BY DEF TypedInv, GoesOut
<1> QED
  BY <1>2, <1>3 DEF TypedInv, GoesOut

LEMMA StoreTyped ==
    ASSUME TypedInv, StoredInv, StoreArtifact
    PROVE  TypedInv'
<1>1. intent \in Actionable /\ NextRevision \in Nat
  BY DEF StoredInv, StoreArtifact, PutFile, Making, NextRevision
<1>2. ASSUME NEW format \in Format
      PROVE  [revision_no |-> NextRevision, kind |-> intent,
              format |-> format] \in File
  BY <1>1 DEF File
<1>3. files' \subseteq File
  BY <1>2 DEF TypedInv, StoreArtifact, PutFile, Format
<1>4. stage' \in {"put_docx", "add", "raised"}
  BY DEF StoreArtifact, PutFile, Goto
<1> QED
  BY <1>3, <1>4 DEF TypedInv, StoreArtifact, Working, Resting

LEMMA TypedAttempt ==
    ASSUME TypedInv, RetryInv, Attempt
    PROVE  TypedInv'
<1>1. Len(answers) \in Nat /\ pauses \in Seq(Nat)
  BY DEF RetryInv, TypedInv
<1>2. pauses' \in Seq(Nat)
  <2>1. Append(pauses, Pause(Len(answers))) \in Seq(Nat)
    BY <1>1 DEF Pause
  <2> QED
    BY <1>1, <2>1 DEF Attempt
<1>3. stage' \in {"generate", "render"}
  BY DEF Attempt, Goto
<1> QED
  BY <1>2, <1>3 DEF Attempt, TypedInv, Working

LEMMA TypedStep == TypedInv /\ StoredInv /\ RetryInv /\ [Next]_vars => TypedInv'
<1> SUFFICES ASSUME TypedInv, StoredInv, RetryInv, [Next]_vars PROVE TypedInv'
  OBVIOUS
<1>1. CASE UNCHANGED documentVars
  BY <1>1 DEF documentVars, TypedInv
<1>2. CASE Classify
  <2>1. CASE Dispatch("classification")
    BY <1>2, <2>1, TypedDispatch DEF Classify, Gate, TypedInv
  <2>2. CASE stage' \in {"raised", "over"} /\ UNCHANGED <<gate, turn, sent>>
    BY <1>2, <2>2 DEF Classify, TypedInv, Resting
  <2> QED
    BY <1>2, <2>1, <2>2 DEF Classify, Goto
<1>3. CASE PassOver \/ Dispatched
  BY <1>3 DEF PassOver, Dispatched, Goto, TypedInv, Working, Resting
<1>4. CASE SendCopy
  <2>1. turn <= Len(SendOrder) /\ stage = "dispatch"
    BY <1>4 DEF SendCopy, Included
  <2>2. sent' \in Seq(Copy) /\ buttons' \in [Button -> Nat]
    BY <1>4, <2>1, GoesOutTyped DEF SendCopy, TypedInv
  <2>3. turn' \in Nat \ {0} /\ stage' \in {"dispatch", "cut", "hung"}
    BY <1>4, <2>1 DEF SendCopy, TypedInv, Goto
  <2> QED
    BY <1>4, <2>2, <2>3 DEF SendCopy, TypedInv, Working, Resting
<1>5. CASE Correct
  <2>1. buttons' \in [Button -> Nat] /\ clicks' \in Nat
    BY <1>5, ClickTyped
       DEF Correct, Button, ClassificationButtons, ApprovalButtons
  <2> QED
    BY <1>5, <2>1, TypedDispatch DEF Correct, Gate
<1>6. CASE Generates
  <2>1. buttons' \in [Button -> Nat] /\ clicks' \in Nat
    BY <1>6, ClickTyped
       DEF Generates, Button, ClassificationButtons, ApprovalButtons
  <2> QED
    BY <1>6, <2>1 DEF Generates, Goto, TypedInv, Working
<1>7. CASE Ends
  <2>1. buttons' \in [Button -> Nat] /\ clicks' \in Nat
    BY <1>7, ClickTyped
       DEF Ends, Button, ClassificationButtons, ApprovalButtons
  <2> QED
    BY <1>7, <2>1 DEF Ends, Goto, TypedInv, Resting
<1>8. CASE GiveUp \/ Render
  BY <1>8 DEF GiveUp, Render, Goto, TypedInv, Working, Resting
<1>9. CASE AddRevision
  BY <1>9, TypedDispatch DEF AddRevision, Gate, TypedInv
<1> QED
  BY <1>1, <1>2, <1>3, <1>4, <1>5, <1>6, <1>7, <1>8, <1>9, StoreTyped,
     TypedAttempt DEF Next, HandlerStep, OwnerStep, vars

\* All variables keep their types from the webhook body to the delivery, for
\* any bodies, files, settings, frames and attempts.
THEOREM DocumentsTypeCorrect == Spec => []TypeOK
<1>1. Init => SafeInv /\ StoredInv /\ RetryInv /\ TypedInv
  BY SafeInit, StoredInit, RetryInit, TypedInit DEF Init
<1>2. SafeInv /\ StoredInv /\ RetryInv /\ TypedInv => TypeOK
  BY DEF SafeInv, StoredInv, TypedInv, TypeOK
<1> QED
  BY <1>1, <1>2, DocumentsSafeStep, StoredStep, RetryStep, TypedStep, PTL
     DEF Spec

=============================================================================
