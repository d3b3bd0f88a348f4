------------------------------ MODULE Transcript ------------------------------
(***************************************************************************)
(* From the webhook to the transcript of one request: ingestion/parser.py, *)
(* ingestion/media_downloader.py, _build_message and _media_for of         *)
(* ingestion/service.py, media/processor.py and media/adapters.py.         *)
(*                                                                         *)
(* The messages of all webhook bodies of the request are read one after    *)
(* the other; how they are grouped and when the bucket closes is in        *)
(* Aggregator and Ingestion. A step is one call of an external service     *)
(* (Graph API, object store, speech-to-text, vision, ffmpeg) or the local  *)
(* computation between two of them. Every such call may raise.             *)
(***************************************************************************)
EXTENDS Naturals, Sequences, FiniteSets, SequencesExt

CONSTANTS
    Ids,         \* WhatsApp message ids
    NoId,        \* the id of a message that has none
    Payloads,    \* what the bodies of a request may contain
    file,        \* what the Graph API holds as the media of a message
    max_frames   \* max_video_frames

\* MIME types as the code tells them apart: by the prefixes of the downloader
\* and of the text extractor.
MimeType == {"audio/", "video/", "image/", "application/pdf", "text/", "other"}

\* DEFAULT_ALLOWED_MIME_PREFIXES.
ALLOWED == MimeType \ {"other"}

\* A message object of a webhook body. A sticker stands for the unsupported
\* types; the optional fields are media_id, mime_type and caption.
RawMessage ==
    [id : Ids \cup {NoId}, voice : BOOLEAN, media_id : BOOLEAN,
     caption : BOOLEAN, mime_type : MimeType \cup {"absent"},
     type : {"text", "audio", "image", "video", "document", "sticker"}]

ASSUME TranscriptAssumption ==
    /\ NoId \notin Ids
    /\ Payloads \subseteq Seq(RawMessage)
    /\ file \in [Ids -> [mime_type : MimeType, too_large : BOOLEAN]]
    /\ max_frames \in Nat

VARIABLES
    payload,   \* the messages of the bodies, in order
    pc,        \* where the handler is
    next,      \* the message it is at, of payload or of batch
    claimed,   \* _seen of the idempotency store
    stored,    \* messages whose media is in the object store
    batch,     \* the messages of the request
    media,     \* the dict that _media_for builds
    partial,   \* segments of a video that is not finished
    segments,  \* the segments of the transcript
    hit        \* history: messages on which an external call raised

transcriptVars == <<payload, pc, next, claimed, stored, batch, media, partial,
                    segments, hit>>

-----------------------------------------------------------------------------
(* Data. *)

MessageType == {"text", "audio", "voice", "image", "video", "document"}

\* _resolve_type; not in MessageType when the type is unsupported.
Type(raw) == IF raw.type = "audio" /\ raw.voice THEN "voice" ELSE raw.type

Supported(raw) == raw.id # NoId /\ Type(raw) \in MessageType

Message == [id : Ids, type : MessageType, caption : BOOLEAN,
            mime_type : MimeType \cup {"absent"}, raw_ref : BOOLEAN]

\* _build_message of the parser and of the service; stands is raw_ref.
MessageOf(raw, stands) ==
    [id |-> raw.id, type |-> Type(raw),
     caption |-> raw.type # "text" /\ raw.caption,
     mime_type |-> IF raw.type = "text" THEN "absent" ELSE raw.mime_type,
     raw_ref |-> stands]

\* _check_mime and the size cap of fetch_and_store.
Safe(id) == file[id].mime_type \in ALLOWED /\ ~file[id].too_large

Source == MessageType \cup {"video-audio", "video-frame"}

Segment == [message_id : Ids, source : Source, caption : BOOLEAN,
            status : {"processed", "unprocessable"}]

\* _segment.
Processed(m, source, caption) ==
    [message_id |-> m.id, source |-> source, caption |-> caption,
     status |-> "processed"]

\* The segment of the except clause of build_transcript.
Unprocessable(m) ==
    [message_id |-> m.id, source |-> m.type, caption |-> FALSE,
     status |-> "unprocessable"]

-----------------------------------------------------------------------------
(* receive: parse_webhook, claim, _build_message *)

Raw == payload[next]

Hit(id) == hit' = hit \cup {id}

\* The message enters the request, and the loop goes on with the next one.
Accept(stands) ==
    /\ batch' = Append(batch, MessageOf(Raw, stands))
    /\ next' = next + 1
    /\ pc' = "parse"

\* A message without an id, of an unsupported type, or seen before.
Skip ==
    /\ pc = "parse" /\ next <= Len(payload)
    /\ ~Supported(Raw) \/ Raw.id \in claimed
    /\ next' = next + 1
    /\ UNCHANGED <<payload, pc, claimed, stored, batch, media, partial,
                   segments, hit>>

\* claim; only a media message that has a media id is downloaded. Fields of
\* the wrong JSON type, on which Message raises, are left out.
Claim ==
    /\ pc = "parse" /\ next <= Len(payload)
    /\ Supported(Raw) /\ Raw.id \notin claimed
    /\ claimed' = claimed \cup {Raw.id}
    /\ IF Raw.type # "text" /\ Raw.media_id
       THEN pc' = "download" /\ UNCHANGED <<batch, next>>
       ELSE Accept(FALSE)
    /\ UNCHANGED <<payload, stored, media, partial, segments, hit>>

\* The client reads the metadata of the media and then all of its bytes; no
\* check has been made.
Download ==
    /\ pc = "download"
    /\ \/ pc' = "check" /\ UNCHANGED <<batch, next, hit>>
       \/ Accept(FALSE) /\ Hit(Raw.id)
    /\ UNCHANGED <<payload, claimed, stored, media, partial, segments>>

\* Mutant: the media is stored whatever it is.
CheckNothing ==
    /\ pc = "check" /\ pc' = "put"
    /\ UNCHANGED <<payload, next, claimed, stored, batch, media, partial,
                   segments, hit>>

\* _check_mime and the size cap; what is refused is not stored.
Check ==
    /\ pc = "check"
    /\ IF Safe(Raw.id) THEN pc' = "put" /\ UNCHANGED <<batch, next>>
                       ELSE Accept(FALSE)
    /\ UNCHANGED <<payload, claimed, stored, media, partial, segments, hit>>

\* storage.put under "inbound/<message id>"; it may raise after it has stored.
Put ==
    /\ pc = "put"
    /\ \/ /\ stored' = stored \cup {Raw.id}
          /\ Accept(TRUE)
          /\ UNCHANGED hit
       \/ /\ stored' \in {stored, stored \cup {Raw.id}}
          /\ Accept(FALSE)
          /\ Hit(Raw.id)
    /\ UNCHANGED <<payload, claimed, media, partial, segments>>

\* The bucket closes, and _process begins with _media_for.
CloseBucket ==
    /\ pc = "parse" /\ next > Len(payload)
    /\ batch # << >>
    /\ pc' = "reload"
    /\ next' = 1
    /\ UNCHANGED <<payload, claimed, stored, batch, media, partial, segments,
                   hit>>

-----------------------------------------------------------------------------
(* _media_for and build_transcript *)

Current == batch[next]

AtMessage(where) == pc = where /\ next <= Len(batch)

\* storage.get of the next message that has a reference.
Reload ==
    /\ AtMessage("reload")
    /\ Current.raw_ref => Current.id \in stored
    /\ media' = IF Current.raw_ref THEN media \cup {Current.id} ELSE media
    /\ next' = next + 1
    /\ UNCHANGED <<payload, pc, claimed, stored, batch, partial, segments, hit>>

\* ... raises: nothing in _process catches it, and the request is gone.
ReloadRaises ==
    /\ AtMessage("reload")
    /\ Current.raw_ref
    /\ pc' = "lost"
    /\ UNCHANGED <<payload, next, claimed, stored, batch, media, partial,
                   segments, hit>>

StartTranscript ==
    /\ pc = "reload" /\ next > Len(batch)
    /\ pc' = "segment"
    /\ next' = 1
    /\ UNCHANGED <<payload, claimed, stored, batch, media, partial, segments,
                   hit>>

\* segments.extend(new), and on to the next message.
Extend(new) ==
    /\ segments' = segments \o new
    /\ partial' = << >>
    /\ next' = next + 1
    /\ pc' = "segment"

\* Mutant: what it had of a video is kept.
RaisesKeeping(call) ==
    /\ AtMessage(call)
    /\ Extend(Append(partial, Unprocessable(Current)))
    /\ Hit(Current.id)

\* An exception of _segments_for; what it had of a video is dropped.
Raises(call) ==
    /\ AtMessage(call)
    /\ Extend(<<Unprocessable(Current)>>)
    /\ Hit(Current.id)

\* The external call that a message of a type needs first.
firstCall == [audio |-> "transcribe", voice |-> "transcribe",
              image |-> "describe", video |-> "extract_audio",
              document |-> "extract"]

\* _segments_for: a text is a segment, and without the bytes of its media a
\* message is unprocessable.
BeginMessage ==
    /\ AtMessage("segment")
    /\ \/ /\ Current.type = "text"
          /\ Extend(<<Processed(Current, "text", FALSE)>>)
       \/ /\ Current.type # "text"
          /\ Current.id \notin media
          /\ Extend(<<Unprocessable(Current)>>)
       \/ /\ Current.type # "text"
          /\ Current.id \in media
          /\ pc' = firstCall[Current.type]
          /\ UNCHANGED <<segments, partial, next>>
    /\ UNCHANGED <<payload, claimed, stored, batch, media, hit>>

\* The speech-to-text of an audio message, or of a video's audio track.
Transcribe ==
    /\ \/ /\ AtMessage("transcribe") /\ UNCHANGED hit
          /\ IF Current.type = "video"
             THEN /\ partial' = <<Processed(Current, "video-audio", FALSE)>>
                  /\ pc' = "sample_frames"
                  /\ UNCHANGED <<segments, next>>
             ELSE Extend(<<Processed(Current, "audio", FALSE)>>)
       \/ Raises("transcribe")
    /\ UNCHANGED <<payload, claimed, stored, batch, media>>

\* The description of an image, with its caption in front, or of a frame.
Describe ==
    /\ \/ /\ AtMessage("describe") /\ Current.type = "image"
          /\ Extend(<<Processed(Current, "image", Current.caption)>>)
          /\ UNCHANGED hit
       \/ /\ AtMessage("describe") /\ Current.type = "video"
          /\ LET seen == Append(partial, Processed(Current, "video-frame", FALSE))
             IN  IF Len(seen) > max_frames
                 THEN Extend(seen)
                 ELSE partial' = seen /\ UNCHANGED <<segments, next, pc>>
          /\ UNCHANGED hit
       \/ Raises("describe")
    /\ UNCHANGED <<payload, claimed, stored, batch, media>>

\* extract_audio and sample_frames: runs of ffmpeg.
RunFfmpeg ==
    /\ \/ /\ AtMessage("extract_audio")
          /\ pc' = "transcribe"
          /\ UNCHANGED <<segments, partial, next, hit>>
       \/ /\ AtMessage("sample_frames")
          /\ IF max_frames = 0
             THEN Extend(partial)
             ELSE pc' = "describe" /\ UNCHANGED <<segments, partial, next>>
          /\ UNCHANGED hit
       \/ Raises("extract_audio")
       \/ Raises("sample_frames")
    /\ UNCHANGED <<payload, claimed, stored, batch, media>>

\* SimpleDocumentTextExtractor: by the MIME type of the webhook, not by the
\* one that the downloader checked; only text can be read.
Extract ==
    /\ AtMessage("extract")
    /\ Extend(<<IF Current.mime_type = "text/"
                THEN Processed(Current, "document", FALSE)
                ELSE Unprocessable(Current)>>)
    /\ UNCHANGED <<payload, claimed, stored, batch, media, hit>>

\* The transcript is complete.
EndTranscript ==
    /\ pc = "segment" /\ next > Len(batch)
    /\ pc' = "classify"
    /\ UNCHANGED <<payload, next, claimed, stored, batch, media, partial,
                   segments, hit>>

-----------------------------------------------------------------------------
TranscriptInit ==
    /\ payload \in Payloads
    /\ pc = "parse"
    /\ next = 1
    /\ claimed = {} /\ stored = {} /\ media = {} /\ hit = {}
    /\ batch = << >> /\ partial = << >> /\ segments = << >>

TranscriptStep ==
    \/ Skip \/ Claim \/ Download \/ Check \/ Put \/ CloseBucket
    \/ Reload \/ ReloadRaises \/ StartTranscript
    \/ BeginMessage \/ Transcribe \/ Describe \/ RunFfmpeg \/ Extract
    \/ EndTranscript

TranscriptSpec == TranscriptInit /\ [][TranscriptStep]_transcriptVars

-----------------------------------------------------------------------------
(* Properties. *)

TranscriptPC ==
    {"parse", "download", "check", "put", "reload", "lost", "segment",
     "transcribe", "describe", "extract_audio", "sample_frames", "extract",
     "classify"}

\* Type invariant of the path from the webhook to the transcript.
TranscriptTypeOK ==
    /\ payload \in Payloads
    /\ pc \in TranscriptPC
    /\ next \in Nat \ {0}
    /\ claimed \subseteq Ids /\ stored \subseteq Ids
    /\ media \subseteq Ids /\ hit \subseteq Ids
    /\ batch \in Seq(Message)
    /\ partial \in Seq(Segment) /\ segments \in Seq(Segment)

\* "A maximum byte size and an allowed-MIME-prefix allowlist are checked
\* *before* the bytes are stored" (media_downloader.py): neither the object
\* store nor a segment ever holds media that is too large or of a type that is
\* not allowed, whichever calls have raised on the way. NFR-SEC-02 asks for the
\* checks before the download; Download shows that they come after it.
OnlySafeMedia ==
    /\ \A id \in stored : Safe(id)
    /\ \A i \in DOMAIN segments :
          segments[i].status = "processed" /\ segments[i].source # "text" =>
              Safe(segments[i].message_id)

\* The n-th message of the bodies belongs in a request: it is supported, and
\* no copy of an earlier one.
Counts(n) ==
    /\ Supported(payload[n])
    /\ \A j \in 1 .. n - 1 :
          Supported(payload[j]) => payload[j].id # payload[n].id

\* The messages a request should have.
Accepted ==
    FlattenSeq([n \in DOMAIN payload |->
        IF Counts(n) THEN <<payload[n]>> ELSE << >>])

\* What a message should contribute when no call on it raises.
Expected(raw) ==
    LET m == MessageOf(raw, TRUE)
        frames == [n \in 1 .. max_frames |->
                      Processed(m, "video-frame", FALSE)]
    IN  CASE m.type = "text" -> <<Processed(m, "text", FALSE)>>
          [] m.type # "text" /\ ~(raw.media_id /\ Safe(raw.id)) ->
                <<Unprocessable(m)>>
          [] OTHER ->
                CASE m.type \in {"audio", "voice"} ->
                        <<Processed(m, "audio", FALSE)>>
                  [] m.type = "image" ->
                        <<Processed(m, "image", raw.caption)>>
                  [] m.type = "video" ->
                        <<Processed(m, "video-audio", FALSE)>> \o frames
                  [] m.type = "document" /\ raw.mime_type = "text/" ->
                        <<Processed(m, "document", FALSE)>>
                  [] OTHER -> <<Unprocessable(m)>>

\* FR-MED-06 and FR-MED-07: the transcript has the segments of every message
\* of the bodies, once and in order; a message on which a call raised has one
\* unprocessable segment instead, and no other message suffers from it.
TranscriptIsFaithful ==
    pc = "classify" =>
        segments = FlattenSeq([n \in DOMAIN Accepted |->
            IF Accepted[n].id \in hit
            THEN <<Unprocessable(MessageOf(Accepted[n], FALSE))>>
            ELSE Expected(Accepted[n])])

=============================================================================
