-------------------------- MODULE TranscriptProofs --------------------------
(***************************************************************************)
(* The path from the webhook to the transcript is well typed, lets no      *)
(* unchecked media through, and its transcript says of every message what  *)
(* it should, for any messages, files and number of frames.                *)
(***************************************************************************)
EXTENDS Transcript, WellFoundedInduction, SequenceTheorems, TLAPS

\* Where the handler works on the bytes of the current message.
CallPC == {"transcribe", "describe", "extract_audio", "sample_frames", "extract"}

FromSafe(s) == s.status = "processed" /\ s.source # "text" => Safe(s.message_id)

\* The strengthening of OnlySafeMedia: what is about to be stored was checked,
\* what is reloaded was stored, and the bytes in use are those of the message.
SafeInv ==
    /\ TranscriptTypeOK
    /\ pc \in {"download", "check", "put"} => next <= Len(payload) /\ Supported(Raw)
    /\ pc = "put" => Safe(Raw.id)
    /\ \A id \in stored : Safe(id)
    /\ \A id \in media : Safe(id)
    /\ pc \in CallPC => next <= Len(batch) /\ Current.id \in media
    /\ \A i \in DOMAIN partial : FromSafe(partial[i])
    /\ \A i \in DOMAIN segments : FromSafe(segments[i])

-----------------------------------------------------------------------------
(* Messages and segments. *)

LEMMA RawTyped ==
    ASSUME TranscriptTypeOK, next <= Len(payload)
    PROVE  Raw \in RawMessage
<1>1. payload \in Seq(RawMessage)
  BY TranscriptAssumption DEF TranscriptTypeOK
<1>2. next \in 1 .. Len(payload)
  BY <1>1 DEF TranscriptTypeOK
<1> QED
  BY <1>1, <1>2 DEF Raw

LEMMA CurrentTyped ==
    ASSUME TranscriptTypeOK, next <= Len(batch)
    PROVE  Current \in Message
<1>1. next \in 1 .. Len(batch)
  BY DEF TranscriptTypeOK
<1> QED
  BY <1>1 DEF Current, TranscriptTypeOK

LEMMA MessageTyped ==
    ASSUME NEW raw \in RawMessage, Supported(raw), NEW stands \in BOOLEAN
    PROVE  MessageOf(raw, stands) \in Message
<1>1. raw.id \in Ids /\ Type(raw) \in MessageType
  BY DEF Supported, RawMessage
<1>2. (raw.type # "text" /\ raw.caption) \in BOOLEAN
  OBVIOUS
<1>3. (IF raw.type = "text" THEN "absent" ELSE raw.mime_type)
         \in MimeType \cup {"absent"}
  BY DEF RawMessage
<1> QED
  BY <1>1, <1>2, <1>3 DEF MessageOf, Message

LEMMA AcceptTyped ==
    ASSUME TranscriptTypeOK, next <= Len(payload), Supported(Raw),
           NEW stands \in BOOLEAN, Accept(stands)
    PROVE  batch' \in Seq(Message) /\ next' \in Nat \ {0} /\ pc' = "parse"
<1>1. MessageOf(Raw, stands) \in Message
  BY RawTyped, MessageTyped
<1> QED
  BY <1>1 DEF Accept, TranscriptTypeOK

LEMMA SegmentTyped ==
    ASSUME NEW m \in Message, NEW source \in Source, NEW caption \in BOOLEAN
    PROVE  Processed(m, source, caption) \in Segment /\ Unprocessable(m) \in Segment
<1>1. m.id \in Ids /\ m.type \in Source
  BY DEF Message, Source
<1> QED
  BY <1>1 DEF Processed, Unprocessable, Segment

LEMMA SegmentSafe ==
    ASSUME NEW m, NEW source, NEW caption, source = "text" \/ Safe(m.id)
    PROVE  FromSafe(Processed(m, source, caption)) /\ FromSafe(Unprocessable(m))
BY DEF FromSafe, Processed, Unprocessable

\* A sequence of segments that are well typed and of checked media.
Sound(s) == s \in Seq(Segment) /\ \A i \in DOMAIN s : FromSafe(s[i])

LEMMA SoundOne ==
    ASSUME NEW x \in Segment, FromSafe(x)
    PROVE  Sound(<<x>>)
BY DEF Sound

LEMMA SoundConcat ==
    ASSUME NEW s, NEW t, Sound(s), Sound(t)
    PROVE  Sound(s \o t)
<1> DEFINE u == s \o t
<1>1. /\ u \in Seq(Segment) /\ Len(u) = Len(s) + Len(t)
      /\ Len(s) \in Nat /\ Len(t) \in Nat
      /\ \A i \in 1 .. Len(u) :
            u[i] = IF i <= Len(s) THEN s[i] ELSE t[i - Len(s)]
  BY DEF Sound
<1>2. ASSUME NEW i \in 1 .. Len(u) PROVE FromSafe(u[i])
  <2>1. CASE i <= Len(s)
    BY <1>1, <2>1 DEF Sound
  <2>2. CASE i > Len(s)
    <3>1. i - Len(s) \in DOMAIN t
      BY <1>1, <2>2 DEF Sound
    <3> QED
      BY <1>1, <2>2, <3>1 DEF Sound
  <2> QED
    BY <1>1, <2>1, <2>2
<1> QED
  BY <1>1, <1>2 DEF Sound

LEMMA SoundAppend ==
    ASSUME NEW s, NEW x \in Segment, Sound(s), FromSafe(x)
    PROVE  Sound(Append(s, x))
<1>1. Append(s, x) = s \o <<x>>
  BY DEF Sound
<1> QED
  BY <1>1, SoundOne, SoundConcat

-----------------------------------------------------------------------------
(* receive *)

LEMMA SafeInit == TranscriptInit => SafeInv
BY DEF TranscriptInit, SafeInv, TranscriptTypeOK, TranscriptPC, CallPC

LEMMA SafeReceive ==
    ASSUME SafeInv, Skip \/ Claim \/ Download \/ Check \/ Put \/ CloseBucket
    PROVE  SafeInv'
<1>0. TranscriptTypeOK /\ next \in Nat \ {0}
  BY DEF SafeInv, TranscriptTypeOK
<1>1. CASE Skip
  BY <1>0, <1>1 DEF Skip, SafeInv, TranscriptTypeOK, CallPC, Raw, Current
<1>2. CASE Claim
  <2>1. Raw \in RawMessage /\ Raw.id \in Ids
    BY <1>0, <1>2, RawTyped DEF Claim, Supported, RawMessage
  <2>2. CASE Accept(FALSE)
    <3>1. batch' \in Seq(Message) /\ next' \in Nat \ {0} /\ pc' = "parse"
      BY <1>0, <1>2, <2>2, AcceptTyped DEF Claim
    <3> QED
      BY <1>2, <2>1, <3>1 DEF Claim, SafeInv, TranscriptTypeOK, TranscriptPC, CallPC
  <2>3. CASE pc' = "download" /\ UNCHANGED <<batch, next>>
    BY <1>2, <2>1, <2>3
       DEF Claim, SafeInv, TranscriptTypeOK, TranscriptPC, CallPC, Raw, Supported
  <2> QED
    BY <1>2, <2>2, <2>3 DEF Claim
<1>3. CASE Download
  <2>0. next <= Len(payload) /\ Supported(Raw) /\ Raw \in RawMessage
        /\ Raw.id \in Ids
    BY <1>0, <1>3, RawTyped DEF Download, SafeInv, Supported, RawMessage
  <2>1. CASE Accept(FALSE)
    <3>1. batch' \in Seq(Message) /\ next' \in Nat \ {0} /\ pc' = "parse"
      BY <1>0, <2>0, <2>1, AcceptTyped
    <3>2. hit' \subseteq Ids
      BY <1>0, <1>3, <2>0 DEF Download, Hit, TranscriptTypeOK
    <3> QED
      BY <1>3, <3>1, <3>2
         DEF Download, SafeInv, TranscriptTypeOK, TranscriptPC, CallPC
  <2>2. CASE pc' = "check" /\ UNCHANGED <<batch, next, hit>>
    BY <1>3, <2>0, <2>2
       DEF Download, SafeInv, TranscriptTypeOK, TranscriptPC, CallPC, Raw, Supported
  <2> QED
    BY <1>3, <2>1, <2>2 DEF Download
<1>6. CASE Check
  <2>0. next <= Len(payload) /\ Supported(Raw) /\ Raw \in RawMessage
        /\ Raw.id \in Ids
    BY <1>0, <1>6, RawTyped DEF Check, SafeInv, Supported, RawMessage
  <2>1. CASE Accept(FALSE)
    <3>1. batch' \in Seq(Message) /\ next' \in Nat \ {0} /\ pc' = "parse"
      BY <1>0, <2>0, <2>1, AcceptTyped
    <3> QED
      BY <1>6, <3>1 DEF Check, SafeInv, TranscriptTypeOK, TranscriptPC, CallPC
  <2>2. CASE Safe(Raw.id) /\ pc' = "put" /\ UNCHANGED <<batch, next>>
    BY <1>6, <2>0, <2>2
       DEF Check, SafeInv, TranscriptTypeOK, TranscriptPC, CallPC, Raw, Supported
  <2> QED
    BY <1>6, <2>1, <2>2 DEF Check
<1>4. CASE Put
  <2>0. next <= Len(payload) /\ Supported(Raw) /\ Raw \in RawMessage
        /\ Raw.id \in Ids /\ Safe(Raw.id)
    BY <1>0, <1>4, RawTyped DEF Put, SafeInv, Supported, RawMessage
  <2>1. PICK stands \in BOOLEAN : Accept(stands)
    BY <1>4 DEF Put
  <2>2. batch' \in Seq(Message) /\ next' \in Nat \ {0} /\ pc' = "parse"
    BY <1>0, <2>0, <2>1, AcceptTyped
  <2>3. hit' \subseteq Ids /\ stored' \subseteq Ids /\ \A id \in stored' : Safe(id)
    BY <1>0, <1>4, <2>0 DEF Put, Hit, TranscriptTypeOK, SafeInv
  <2> QED
    BY <1>4, <2>2, <2>3
       DEF Put, SafeInv, TranscriptTypeOK, TranscriptPC, CallPC
<1>5. CASE CloseBucket
  BY <1>5 DEF CloseBucket, SafeInv, TranscriptTypeOK, TranscriptPC, CallPC
<1> QED
  BY <1>1, <1>2, <1>3, <1>4, <1>5, <1>6

-----------------------------------------------------------------------------
(* _media_for and build_transcript *)

LEMMA SafeReload ==
    ASSUME SafeInv, Reload \/ ReloadRaises \/ StartTranscript \/ EndTranscript
    PROVE  SafeInv'
<1>1. CASE Reload
  <2>1. Current \in Message /\ Current.id \in Ids
    BY <1>1, CurrentTyped DEF Reload, AtMessage, SafeInv, Message
  <2>2. media' \subseteq Ids /\ \A id \in media' : Safe(id)
    BY <1>1, <2>1 DEF Reload, SafeInv, TranscriptTypeOK
  <2> QED
    BY <1>1, <2>2
       DEF Reload, AtMessage, SafeInv, TranscriptTypeOK, TranscriptPC, CallPC
<1>2. CASE ReloadRaises
  BY <1>2 DEF ReloadRaises, SafeInv, TranscriptTypeOK, TranscriptPC, CallPC
<1>3. CASE StartTranscript
  BY <1>3 DEF StartTranscript, SafeInv, TranscriptTypeOK, TranscriptPC, CallPC
<1>4. CASE EndTranscript
  BY <1>4 DEF EndTranscript, SafeInv, TranscriptTypeOK, TranscriptPC, CallPC
<1> QED
  BY <1>1, <1>2, <1>3, <1>4

\* Whatever extends the transcript soundly keeps the invariant.
LEMMA SafeExtend ==
    ASSUME SafeInv, NEW new, Sound(new), Extend(new), hit' \subseteq Ids,
           UNCHANGED <<payload, claimed, stored, batch, media>>
    PROVE  SafeInv'
<1>1. Sound(segments')
  BY SoundConcat DEF SafeInv, TranscriptTypeOK, Extend, Sound
<1>2. /\ partial' = << >> /\ pc' = "segment" /\ next' \in Nat \ {0}
  BY DEF Extend, SafeInv, TranscriptTypeOK
<1> QED
  BY <1>1, <1>2 DEF SafeInv, TranscriptTypeOK, TranscriptPC, CallPC, Sound

\* So does whatever goes on to another call on the same message.
LEMMA SafeGoOn ==
    ASSUME SafeInv, Sound(partial'), pc' \in CallPC, next <= Len(batch),
           Current.id \in media,
           UNCHANGED <<payload, next, claimed, stored, batch, media, segments, hit>>
    PROVE  SafeInv'
<1>1. pc' \in TranscriptPC /\ pc' \notin {"download", "put"}
  BY DEF CallPC, TranscriptPC
<1> QED
  BY <1>1 DEF SafeInv, TranscriptTypeOK, CallPC, Sound, Current

LEMMA SafeRaises ==
    ASSUME SafeInv, NEW call, Raises(call),
           UNCHANGED <<payload, claimed, stored, batch, media>>
    PROVE  SafeInv'
<1>1. Current \in Message /\ Current.id \in Ids
  BY CurrentTyped DEF Raises, AtMessage, SafeInv, Message
<1>2. Unprocessable(Current) \in Segment
  BY <1>1, SegmentTyped, "text" \in Source DEF Source, MessageType
<1>3. FromSafe(Unprocessable(Current))
  BY DEF FromSafe, Unprocessable
<1>4. Sound(<<Unprocessable(Current)>>) /\ hit' \subseteq Ids
  BY <1>1, <1>2, <1>3, SoundOne DEF Raises, Hit, SafeInv, TranscriptTypeOK
<1> QED
  BY <1>4, SafeExtend DEF Raises

\* The message at a call, and the segments it may contribute.
LEMMA AtCall ==
    ASSUME SafeInv, next <= Len(batch), Current.id \in media
    PROVE  /\ Current \in Message /\ Safe(Current.id)
           /\ Sound(partial)
           /\ \A source \in Source, caption \in BOOLEAN :
                 /\ Processed(Current, source, caption) \in Segment
                 /\ FromSafe(Processed(Current, source, caption))
<1>1. Current \in Message /\ Safe(Current.id)
  BY CurrentTyped DEF SafeInv
<1>2. Sound(partial)
  BY DEF SafeInv, Sound, TranscriptTypeOK
<1> QED
  BY <1>1, <1>2, SegmentTyped, SegmentSafe

LEMMA SafeBegin ==
    ASSUME SafeInv, BeginMessage
    PROVE  SafeInv'
<1>0. /\ Current \in Message /\ next <= Len(batch) /\ hit' \subseteq Ids
      /\ UNCHANGED <<payload, claimed, stored, batch, media>>
  BY CurrentTyped DEF BeginMessage, AtMessage, SafeInv, TranscriptTypeOK
<1>1. /\ Processed(Current, "text", FALSE) \in Segment
      /\ Unprocessable(Current) \in Segment
  BY <1>0, SegmentTyped DEF Source, MessageType
<1>2. /\ FromSafe(Processed(Current, "text", FALSE))
      /\ FromSafe(Unprocessable(Current))
  BY DEF FromSafe, Processed, Unprocessable
<1>3. CASE Extend(<<Processed(Current, "text", FALSE)>>)
  BY <1>0, <1>1, <1>2, <1>3, SoundOne, SafeExtend
<1>4. CASE Extend(<<Unprocessable(Current)>>)
  BY <1>0, <1>1, <1>2, <1>4, SoundOne, SafeExtend
<1>5. CASE /\ Current.type # "text" /\ Current.id \in media
           /\ pc' = firstCall[Current.type]
           /\ UNCHANGED <<segments, partial, next>>
  <2>1. pc' \in CallPC
    BY <1>0, <1>5 DEF firstCall, CallPC, Message, MessageType
  <2>2. Sound(partial') /\ UNCHANGED hit
    BY <1>5 DEF SafeInv, TranscriptTypeOK, Sound, BeginMessage
  <2> QED
    BY <1>0, <1>5, <2>1, <2>2, SafeGoOn
<1> QED
  BY <1>3, <1>4, <1>5 DEF BeginMessage

LEMMA SafeCalls ==
    ASSUME SafeInv, Transcribe \/ Describe \/ RunFfmpeg \/ Extract
    PROVE  SafeInv'
<1>0. /\ UNCHANGED <<payload, claimed, stored, batch, media>>
      /\ hit \subseteq Ids
  BY DEF Transcribe, Describe, RunFfmpeg, Extract, SafeInv, TranscriptTypeOK
<1>1. SUFFICES ASSUME \A call : ~Raises(call), UNCHANGED hit
               PROVE  SafeInv'
  BY <1>0, SafeRaises DEF Transcribe, Describe, RunFfmpeg, Extract
<1>2. pc \in CallPC /\ next <= Len(batch) /\ Current.id \in media
  BY <1>1 DEF Transcribe, Describe, RunFfmpeg, Extract, AtMessage, CallPC, SafeInv
<1>3. /\ Current \in Message /\ Current.caption \in BOOLEAN /\ Sound(partial)
      /\ \A source \in Source, caption \in BOOLEAN :
            /\ Processed(Current, source, caption) \in Segment
            /\ FromSafe(Processed(Current, source, caption))
  <2>1. Current \in Message => Current.caption \in BOOLEAN
    BY DEF Message
  <2> QED
    BY <1>2, <2>1, AtCall
<1>4. {"audio", "image", "document", "video-audio", "video-frame"} \subseteq Source
  BY DEF Source, MessageType
<1>5. ASSUME NEW source \in Source, NEW caption \in BOOLEAN,
             Extend(<<Processed(Current, source, caption)>>)
      PROVE  SafeInv'
  BY <1>0, <1>1, <1>3, <1>5, SoundOne, SafeExtend
<1>6. CASE Transcribe
  <2>1. CASE Current.type = "video"
    <3>1. pc' = "sample_frames" /\ UNCHANGED <<segments, next>>
          /\ partial' = <<Processed(Current, "video-audio", FALSE)>>
      BY <1>1, <1>6, <2>1 DEF Transcribe
    <3>2. Sound(partial') /\ pc' \in CallPC
      BY <1>3, <1>4, <3>1, SoundOne DEF CallPC
    <3> QED
      BY <1>0, <1>1, <1>2, <3>1, <3>2, SafeGoOn
  <2> QED
    BY <1>1, <1>4, <1>5, <1>6, <2>1 DEF Transcribe
<1>7. CASE Describe
  <2> DEFINE seen == Append(partial, Processed(Current, "video-frame", FALSE))
  <2>1. Sound(seen)
    BY <1>3, <1>4, SoundAppend
  <2> HIDE DEF seen
  <2>2. CASE Extend(seen)
    BY <1>0, <1>1, <2>1, <2>2, SafeExtend
  <2>3. CASE partial' = seen /\ UNCHANGED <<segments, next, pc>>
    BY <1>0, <1>1, <1>2, <2>1, <2>3, SafeGoOn
  <2>4. CASE Extend(<<Processed(Current, "image", Current.caption)>>)
    BY <1>3, <1>4, <1>5, <2>4
  <2> QED
    BY <1>1, <1>7, <2>2, <2>3, <2>4 DEF Describe, seen
<1>8. CASE RunFfmpeg
  <2>1. CASE Extend(partial)
    BY <1>0, <1>1, <1>3, <2>1, SafeExtend
  <2>2. CASE pc' \in {"transcribe", "describe"} /\ UNCHANGED <<segments, partial, next>>
    BY <1>0, <1>1, <1>2, <1>3, <2>2, SafeGoOn DEF CallPC
  <2> QED
    BY <1>1, <1>8, <2>1, <2>2 DEF RunFfmpeg
<1>9. CASE Extract
  <2>1. Unprocessable(Current) \in Segment /\ FromSafe(Unprocessable(Current))
    BY <1>3, <1>4, SegmentTyped DEF FromSafe, Unprocessable
  <2>2. CASE Extend(<<Unprocessable(Current)>>)
    BY <1>0, <1>1, <2>1, <2>2, SoundOne, SafeExtend
  <2> QED
    BY <1>4, <1>5, <1>9, <2>2 DEF Extract
<1> QED
  BY <1>6, <1>7, <1>8, <1>9

LEMMA SafeStep == SafeInv /\ [TranscriptStep]_transcriptVars => SafeInv'
<1> SUFFICES ASSUME SafeInv, [TranscriptStep]_transcriptVars PROVE SafeInv'
  OBVIOUS
<1>1. CASE TranscriptStep
  BY <1>1, SafeReceive, SafeReload, SafeBegin, SafeCalls DEF TranscriptStep
<1>2. CASE UNCHANGED transcriptVars
  BY <1>2 DEF transcriptVars, SafeInv, TranscriptTypeOK, Raw, Current
<1> QED
  BY <1>1, <1>2

\* For any bodies, files and number of frames: no media that fails
\* the checks is stored or contributes to a transcript, whatever raises.
THEOREM OnlySafeMediaAlways == TranscriptSpec => []OnlySafeMedia
<1>1. SafeInv => OnlySafeMedia
  BY DEF SafeInv, OnlySafeMedia, FromSafe
<1> QED
  BY <1>1, SafeInit, SafeStep, PTL DEF TranscriptSpec

-----------------------------------------------------------------------------
(* Concatenation: induction over the naturals is the well-foundedness of <. *)

Less == {p \in Nat \X Nat : p[1] < p[2]}

LEMMA NatMin ==
    ASSUME NEW T, T \subseteq Nat, T # {}
    PROVE  \E x \in T : \A y \in T : x <= y
<1>0. IsWellFoundedOn(Less, Nat)
  BY NatLessThanWellFounded DEF OpToRel, Less
<1>1. PICK x \in T : \A y \in T : <<y, x>> \notin Less
  BY <1>0, WFMin
<1>2. ASSUME NEW y \in T PROVE x <= y
  <2>1. x \in Nat /\ y \in Nat
    OBVIOUS
  <2>2. <<y, x>> \in Nat \X Nat /\ <<y, x>>[1] = y /\ <<y, x>>[2] = x
    BY <2>1
  <2>3. ~(y < x)
    BY <1>1, <2>2 DEF Less
  <2> QED
    BY <2>1, <2>3
<1> QED
  BY <1>2

LEMMA NatInd ==
    ASSUME NEW S, 0 \in S, \A n \in S \cap Nat : n + 1 \in S
    PROVE  Nat \subseteq S
<1> SUFFICES ASSUME Nat \ S # {} PROVE FALSE
  OBVIOUS
<1>1. PICK x \in Nat \ S : \A y \in Nat \ S : x <= y
  BY NatMin
<1>2. x # 0 /\ x - 1 \in Nat /\ x - 1 + 1 = x /\ ~(x <= x - 1)
  BY <1>1
<1>3. x - 1 \in S
  BY <1>1, <1>2
<1>4. (x - 1) + 1 \in S
  BY <1>2, <1>3
<1> QED
  BY <1>1, <1>2, <1>4

\* f[i] is the concatenation of the first i sequences of s.
Accumulates(f, s, n) ==
    \A i \in 1 .. n : f[i] = IF i = 1 THEN s[i] ELSE f[i - 1] \o s[i]

LEMMA AccumulatorExists ==
    ASSUME NEW S, NEW s \in Seq(Seq(S))
    PROVE  \E f \in [1 .. Len(s) -> Seq(S)] : Accumulates(f, s, Len(s))
<1> DEFINE P == {n \in Nat : n <= Len(s) =>
                    \E f \in [1 .. n -> Seq(S)] : Accumulates(f, s, n)}
<1>1. 0 \in P
  <2>1. [i \in 1 .. 0 |-> << >>] \in [1 .. 0 -> Seq(S)]
    OBVIOUS
  <2>2. Accumulates([i \in 1 .. 0 |-> << >>], s, 0)
    BY DEF Accumulates
  <2> QED
    BY <2>1, <2>2
<1>2. ASSUME NEW n \in P \cap Nat PROVE n + 1 \in P
  <2> SUFFICES ASSUME n + 1 <= Len(s)
               PROVE  \E f \in [1 .. n + 1 -> Seq(S)] : Accumulates(f, s, n + 1)
    BY DEF P
  <2>1. PICK f \in [1 .. n -> Seq(S)] : Accumulates(f, s, n)
    BY DEF P
  <2>2. s[n + 1] \in Seq(S)
    OBVIOUS
  <2> DEFINE x == IF n = 0 THEN s[1] ELSE f[n] \o s[n + 1]
             g == [i \in 1 .. n + 1 |-> IF i <= n THEN f[i] ELSE x]
  <2>3. x \in Seq(S)
    BY <2>2
  <2>4. g \in [1 .. n + 1 -> Seq(S)]
    BY <2>3
  <2>5. ASSUME NEW i \in 1 .. n + 1
        PROVE  g[i] = IF i = 1 THEN s[i] ELSE g[i - 1] \o s[i]
    <3>1. CASE i <= n
      <4>1. i \in 1 .. n /\ (i # 1 => i - 1 \in 1 .. n + 1 /\ i - 1 <= n)
        BY <3>1
      <4>2. g[i] = f[i] /\ (i # 1 => g[i - 1] = f[i - 1])
        BY <4>1
      <4> QED
        BY <2>1, <4>1, <4>2 DEF Accumulates
    <3>2. CASE i = n + 1
      BY <3>2
    <3> QED
      BY <3>1, <3>2
  <2> QED
    BY <2>4, <2>5 DEF Accumulates
<1>3. Len(s) \in P
  <2> HIDE DEF P
  <2> QED
    BY <1>1, <1>2, NatInd, Len(s) \in Nat
<1> QED
  BY <1>3

LEMMA AccumulatorUnique ==
    ASSUME NEW s, NEW m \in Nat, NEW f, NEW g,
           Accumulates(f, s, m), Accumulates(g, s, m)
    PROVE  \A i \in 1 .. m : f[i] = g[i]
<1> DEFINE P == {n \in Nat : n \in 1 .. m => f[n] = g[n]}
<1>1. 0 \in P
  OBVIOUS
<1>2. ASSUME NEW n \in P \cap Nat PROVE n + 1 \in P
  BY DEF Accumulates
<1>3. Nat \subseteq P
  <2> HIDE DEF P
  <2> QED
    BY <1>1, <1>2, NatInd
<1> QED
  BY <1>3

LEMMA FlattenIs ==
    ASSUME NEW s, NEW n \in Nat \ {0}, Len(s) = n,
           NEW f, f = [i \in 1 .. n |-> f[i]], Accumulates(f, s, n)
    PROVE  FlattenSeq(s) = f[n]
<1> DEFINE Step(h) == [i \in 1 .. n |-> IF i = 1 THEN s[i] ELSE h[i - 1] \o s[i]]
<1>1. f = Step(f)
  BY DEF Accumulates
<1>2. ASSUME NEW g, g = Step(g) PROVE g = f
  <2>1. g = [i \in 1 .. n |-> g[i]]
    BY <1>2
  <2>2. Accumulates(g, s, n)
    BY <1>2 DEF Accumulates
  <2>3. \A i \in 1 .. n : g[i] = f[i]
    BY <2>2, AccumulatorUnique
  <2> QED
    BY <2>1, <2>3
<1> QED
  BY <1>1, <1>2 DEF FlattenSeq

LEMMA FlattenEmpty == FlattenSeq(<< >>) = << >>
BY DEF FlattenSeq

LEMMA FlattenAppend ==
    ASSUME NEW S, NEW s \in Seq(Seq(S)), NEW x \in Seq(S)
    PROVE  FlattenSeq(Append(s, x)) = FlattenSeq(s) \o x
<1> DEFINE t == Append(s, x)
           n == Len(s)
<1>1. t \in Seq(Seq(S)) /\ Len(t) = n + 1 /\ n \in Nat /\ t[n + 1] = x
      /\ \A i \in 1 .. n : t[i] = s[i]
  OBVIOUS
<1>2. PICK f \in [1 .. n + 1 -> Seq(S)] : Accumulates(f, t, n + 1)
  BY <1>1, AccumulatorExists
<1>3. FlattenSeq(t) = f[n + 1]
  <2>1. f = [i \in 1 .. n + 1 |-> f[i]] /\ n + 1 \in Nat \ {0}
    BY <1>1, <1>2
  <2> HIDE DEF t, n
  <2> QED
    BY <1>1, <1>2, <2>1, FlattenIs
<1>4. CASE n = 0
  <2>1. s = << >> /\ f[n + 1] = x
    BY <1>1, <1>2, <1>4 DEF Accumulates
  <2> QED
    BY <1>3, <2>1, FlattenEmpty
<1>5. CASE n > 0
  <2> DEFINE g == [i \in 1 .. n |-> f[i]]
  <2>1. g = [i \in 1 .. n |-> g[i]]
    OBVIOUS
  <2>2. ASSUME NEW i \in 1 .. n
        PROVE  g[i] = IF i = 1 THEN s[i] ELSE g[i - 1] \o s[i]
    <3>1. i \in 1 .. n + 1 /\ (i # 1 => i - 1 \in 1 .. n)
      BY <1>1
    <3> QED
      BY <1>1, <1>2, <3>1 DEF Accumulates
  <2>3. FlattenSeq(s) = g[n]
    <3>1. n \in Nat \ {0} /\ Len(s) = n /\ Accumulates(g, s, n)
      BY <1>1, <1>5, <2>2 DEF Accumulates
    <3> HIDE DEF g, n
    <3> QED
      BY <2>1, <3>1, FlattenIs
  <2>4. f[n + 1] = f[n] \o x
    <3>1. n + 1 \in 1 .. n + 1 /\ n + 1 # 1 /\ (n + 1) - 1 = n
      BY <1>1, <1>5
    <3> QED
      BY <1>1, <1>2, <3>1 DEF Accumulates
  <2>5. g[n] = f[n]
    BY <1>1, <1>5
  <2> QED
    BY <1>3, <2>3, <2>4, <2>5
<1> QED
  BY <1>1, <1>4, <1>5

LEMMA FlattenTyped ==
    ASSUME NEW S, NEW s \in Seq(Seq(S))
    PROVE  FlattenSeq(s) \in Seq(S)
<1>1. PICK f \in [1 .. Len(s) -> Seq(S)] : Accumulates(f, s, Len(s))
  BY AccumulatorExists
<1>2. CASE Len(s) = 0
  <2>1. s = << >> /\ << >> \in Seq(S)
    BY <1>2
  <2>2. FlattenSeq(s) = << >>
    BY <2>1, FlattenEmpty
  <2> QED
    BY <2>1, <2>2
<1>3. CASE Len(s) > 0
  <2>1. /\ f = [i \in 1 .. Len(s) |-> f[i]]
        /\ Len(s) \in Nat \ {0} /\ Len(s) \in 1 .. Len(s)
    BY <1>3
  <2>2. FlattenSeq(s) = f[Len(s)]
    BY <1>1, <2>1, FlattenIs
  <2> QED
    BY <2>1, <2>2
<1> QED
  BY <1>2, <1>3

\* The same, for a sequence that is given by what its parts are.
LEMMA FlattenNext ==
    ASSUME NEW S, NEW k \in Nat, NEW f \in [1 .. k + 1 -> Seq(S)]
    PROVE  /\ FlattenSeq([n \in 1 .. k |-> f[n]]) \in Seq(S)
           /\ FlattenSeq(f) = FlattenSeq([n \in 1 .. k |-> f[n]]) \o f[k + 1]
<1> DEFINE s == [n \in 1 .. k |-> f[n]]
<1>1. s \in Seq(Seq(S)) /\ Len(s) = k
  OBVIOUS
<1>2. f[k + 1] \in Seq(S)
  OBVIOUS
<1>3. f = Append(s, f[k + 1])
  <2>1. f \in Seq(Seq(S)) /\ Len(f) = k + 1
    OBVIOUS
  <2>2. Append(s, f[k + 1]) \in Seq(Seq(S)) /\ Len(Append(s, f[k + 1])) = k + 1
    BY <1>1, <1>2
  <2>3. \A n \in 1 .. k + 1 : f[n] = Append(s, f[k + 1])[n]
    BY <1>1, <1>2
  <2> QED
    BY <2>1, <2>2, <2>3
<1> HIDE DEF s
<1>4. FlattenSeq(s) \in Seq(S)
  BY <1>1, FlattenTyped
<1>5. FlattenSeq(f) = FlattenSeq(s) \o f[k + 1]
  BY <1>1, <1>2, <1>3, FlattenAppend
<1> QED
  BY <1>4, <1>5 DEF s

-----------------------------------------------------------------------------
(* What the request should hold after the first k messages of the bodies. *)

AcceptedTo(k) ==
    FlattenSeq([n \in 1 .. k |-> IF Counts(n) THEN <<payload[n]>> ELSE << >>])

LEMMA AcceptedSame ==
    ASSUME payload' = payload, NEW k
    PROVE  AcceptedTo(k)' = AcceptedTo(k) /\ Accepted' = Accepted
BY DEF AcceptedTo, Accepted, Counts

LEMMA AcceptedStart == AcceptedTo(0) = << >>
<1>1. [n \in 1 .. 0 |-> IF Counts(n) THEN <<payload[n]>> ELSE << >>] = << >>
  OBVIOUS
<1> QED
  BY <1>1, FlattenEmpty DEF AcceptedTo

LEMMA AcceptedEnd ==
    ASSUME TranscriptTypeOK
    PROVE  AcceptedTo(Len(payload)) = Accepted
<1>1. DOMAIN payload = 1 .. Len(payload)
  BY TranscriptAssumption DEF TranscriptTypeOK
<1> QED
  BY <1>1 DEF AcceptedTo, Accepted

LEMMA AcceptedNext ==
    ASSUME TranscriptTypeOK, NEW k \in Nat, k + 1 <= Len(payload)
    PROVE  /\ AcceptedTo(k) \in Seq(RawMessage)
           /\ AcceptedTo(k + 1) =
                 IF Counts(k + 1) THEN Append(AcceptedTo(k), payload[k + 1])
                                  ELSE AcceptedTo(k)
<1> DEFINE part(n) == IF Counts(n) THEN <<payload[n]>> ELSE << >>
           f == [n \in 1 .. k + 1 |-> part(n)]
<1>1. payload \in Seq(RawMessage)
  BY TranscriptAssumption DEF TranscriptTypeOK
<1>2. ASSUME NEW n \in 1 .. k + 1 PROVE part(n) \in Seq(RawMessage)
  <2>1. payload[n] \in RawMessage
    BY <1>1
  <2> QED
    BY <2>1
<1>3. f \in [1 .. k + 1 -> Seq(RawMessage)] /\ f[k + 1] = part(k + 1)
  <2> HIDE DEF part
  <2> QED
    BY <1>2
<1>4. [n \in 1 .. k |-> f[n]] = [n \in 1 .. k |-> part(n)]
  <2> HIDE DEF part
  <2> QED
    OBVIOUS
<1>5. /\ AcceptedTo(k) = FlattenSeq([n \in 1 .. k |-> f[n]])
      /\ AcceptedTo(k + 1) = FlattenSeq(f)
  BY <1>4 DEF AcceptedTo
<1>6. /\ AcceptedTo(k) \in Seq(RawMessage)
      /\ AcceptedTo(k + 1) = AcceptedTo(k) \o part(k + 1)
  <2> HIDE DEF f, part
  <2> QED
    BY <1>3, <1>5, FlattenNext
<1>7. payload[k + 1] \in RawMessage
  BY <1>1
<1>8. /\ AcceptedTo(k) \o << >> = AcceptedTo(k)
      /\ AcceptedTo(k) \o <<payload[k + 1]>> = Append(AcceptedTo(k), payload[k + 1])
  BY <1>6, <1>7
<1> QED
  BY <1>6, <1>8

-----------------------------------------------------------------------------
(* What a message contributes, and the transcript after k messages. *)

Line(n, h) ==
    IF Accepted[n].id \in h
    THEN <<Unprocessable(MessageOf(Accepted[n], FALSE))>>
    ELSE Expected(Accepted[n])

Told(k, h) == FlattenSeq([n \in 1 .. k |-> Line(n, h)])

\* The audio track of a video and the first j - 1 of its frames.
Partial(m, j) ==
    [n \in 1 .. j |->
        Processed(m, IF n = 1 THEN "video-audio" ELSE "video-frame", FALSE)]

LEMMA PartialTyped ==
    ASSUME NEW m \in Message, NEW j \in Nat
    PROVE  Partial(m, j) \in Seq(Segment) /\ Len(Partial(m, j)) = j
<1>1. /\ Processed(m, "video-audio", FALSE) \in Segment
      /\ Processed(m, "video-frame", FALSE) \in Segment
  BY SegmentTyped DEF Source
<1>2. Partial(m, j) \in [1 .. j -> Segment]
  BY <1>1 DEF Partial
<1> QED
  BY <1>2

LEMMA PartialNext ==
    ASSUME NEW m \in Message, NEW j \in Nat \ {0}
    PROVE  Append(Partial(m, j), Processed(m, "video-frame", FALSE))
              = Partial(m, j + 1)
<1> DEFINE x == Processed(m, "video-frame", FALSE)
           p == Partial(m, j)
           q == Partial(m, j + 1)
<1>1. x \in Segment
  BY SegmentTyped DEF Source
<1>2. /\ p \in Seq(Segment) /\ Len(p) = j
      /\ q \in Seq(Segment) /\ Len(q) = j + 1
  BY PartialTyped
<1>3. q[j + 1] = x /\ \A n \in 1 .. j : q[n] = p[n]
  <2>1. j + 1 \in 1 .. j + 1 /\ j + 1 # 1 /\ \A n \in 1 .. j : n \in 1 .. j + 1
    OBVIOUS
  <2> QED
    BY <2>1 DEF Partial
<1> HIDE DEF x, p, q
<1>4. Append(p, x) \in Seq(Segment) /\ Len(Append(p, x)) = j + 1
      /\ \A n \in 1 .. j + 1 : Append(p, x)[n] = q[n]
  BY <1>1, <1>2, <1>3
<1>5. Append(p, x) = q
  BY <1>2, <1>4, SeqEqual
<1> QED
  BY <1>5 DEF x, p, q

LEMMA PartialWhole ==
    ASSUME NEW m \in Message
    PROVE  <<Processed(m, "video-audio", FALSE)>>
              \o [n \in 1 .. max_frames |-> Processed(m, "video-frame", FALSE)]
              = Partial(m, max_frames + 1)
<1> DEFINE a == Processed(m, "video-audio", FALSE)
           x == Processed(m, "video-frame", FALSE)
           s == [n \in 1 .. max_frames |-> x]
           q == Partial(m, max_frames + 1)
<1>1. a \in Segment /\ x \in Segment /\ max_frames \in Nat
  BY SegmentTyped, TranscriptAssumption DEF Source
<1>2. q \in Seq(Segment) /\ Len(q) = max_frames + 1
  BY <1>1, PartialTyped
<1>3. q[1] = a /\ \A n \in 2 .. max_frames + 1 : q[n] = x
  <2>1. /\ 1 \in 1 .. max_frames + 1
        /\ \A n \in 2 .. max_frames + 1 : n \in 1 .. max_frames + 1 /\ n # 1
    BY <1>1
  <2> QED
    BY <2>1 DEF Partial
<1> HIDE DEF a, x, q
<1>4. <<a>> \in Seq(Segment) /\ s \in Seq(Segment) /\ Len(s) = max_frames
  BY <1>1
<1>5. <<a>> \o s \in Seq(Segment) /\ Len(<<a>> \o s) = max_frames + 1
  BY <1>1, <1>4
<1>6. ASSUME NEW n \in 1 .. max_frames + 1 PROVE (<<a>> \o s)[n] = q[n]
  <2>1. CASE n = 1
    BY <1>1, <1>3, <1>4, <2>1
  <2>2. CASE n # 1
    <3>1. n \in 2 .. max_frames + 1 /\ n - 1 \in 1 .. max_frames
      BY <1>1, <2>2
    <3>2. (<<a>> \o s)[n] = s[n - 1]
      BY <1>1, <1>4, <3>1
    <3> QED
      BY <1>3, <3>1, <3>2
  <2> QED
    BY <2>1, <2>2
<1>7. <<a>> \o s = q
  <2> HIDE DEF s
  <2> QED
    BY <1>2, <1>5, <1>6, SeqEqual
<1> QED
  BY <1>7 DEF a, x, q

LEMMA PartialOne ==
    ASSUME NEW m \in Message
    PROVE  <<Processed(m, "video-audio", FALSE)>> = Partial(m, 1)
<1> DEFINE a == Processed(m, "video-audio", FALSE)
           q == Partial(m, 1)
<1>1. a \in Segment
  BY SegmentTyped DEF Source
<1>2. q \in Seq(Segment) /\ Len(q) = 1
  BY PartialTyped
<1>3. q[1] = a
  BY DEF Partial
<1> HIDE DEF a, q
<1>4. <<a>> \in Seq(Segment) /\ Len(<<a>>) = 1 /\ \A n \in 1 .. 1 : <<a>>[n] = q[n]
  BY <1>1, <1>3
<1>5. <<a>> = q
  BY <1>2, <1>4, SeqEqual
<1> QED
  BY <1>5 DEF a, q

\* A message is downloaded when it has a media id.
Wants(raw) == raw.type # "text" /\ raw.media_id

\* Expected, in terms of the message that the request holds.
LEMMA ExpectedIs ==
    ASSUME NEW raw \in RawMessage, Supported(raw),
           NEW m \in Message, m = MessageOf(raw, m.raw_ref)
    PROVE  /\ Unprocessable(MessageOf(raw, FALSE)) = Unprocessable(m)
           /\ m.type = "text" <=> raw.type = "text"
           /\ m.type = "text" => Expected(raw) = <<Processed(m, "text", FALSE)>>
           /\ m.type # "text" /\ ~(Wants(raw) /\ Safe(m.id)) =>
                 Expected(raw) = <<Unprocessable(m)>>
           /\ Wants(raw) /\ Safe(m.id) =>
                 /\ m.type \in {"audio", "voice"} =>
                       Expected(raw) = <<Processed(m, "audio", FALSE)>>
                 /\ m.type = "image" =>
                       Expected(raw) = <<Processed(m, "image", m.caption)>>
                 /\ m.type = "video" => Expected(raw) = Partial(m, max_frames + 1)
                 /\ m.type = "document" =>
                       Expected(raw) =
                          <<IF m.mime_type = "text/"
                            THEN Processed(m, "document", FALSE)
                            ELSE Unprocessable(m)>>
<1> DEFINE x == MessageOf(raw, TRUE)
<1>1. /\ x.id = m.id /\ x.type = m.type /\ m.id = raw.id /\ m.type = Type(raw)
      /\ MessageOf(raw, FALSE).id = m.id /\ MessageOf(raw, FALSE).type = m.type
  BY DEF MessageOf
<1>2. \A source, caption : Processed(x, source, caption) = Processed(m, source, caption)
  BY <1>1 DEF Processed
<1>3. /\ Unprocessable(x) = Unprocessable(m)
      /\ Unprocessable(MessageOf(raw, FALSE)) = Unprocessable(m)
  BY <1>1 DEF Unprocessable
<1>4. m.type = "text" <=> raw.type = "text"
  BY <1>1 DEF Type
<1>5. raw.type # "text" => m.caption = raw.caption /\ m.mime_type = raw.mime_type
  <2>1. m.caption = (raw.type # "text" /\ raw.caption) /\ raw.caption \in BOOLEAN
    BY DEF MessageOf, RawMessage
  <2>2. m.mime_type = IF raw.type = "text" THEN "absent" ELSE raw.mime_type
    BY DEF MessageOf
  <2> QED
    BY <2>1, <2>2
<1>6. m.type = "text" => Expected(raw) = <<Processed(m, "text", FALSE)>>
  BY <1>1, <1>2 DEF Expected
<1>7. m.type # "text" /\ ~(Wants(raw) /\ Safe(m.id)) =>
         Expected(raw) = <<Unprocessable(m)>>
  BY <1>1, <1>3, <1>4 DEF Expected, Wants
<1>8. ASSUME Wants(raw) /\ Safe(m.id), m.type = "video"
      PROVE  Expected(raw) = Partial(m, max_frames + 1)
  <2>1. Expected(raw) =
           <<Processed(x, "video-audio", FALSE)>>
              \o [n \in 1 .. max_frames |-> Processed(x, "video-frame", FALSE)]
    BY <1>1, <1>8 DEF Expected, Wants
  <2>2. Expected(raw) =
           <<Processed(m, "video-audio", FALSE)>>
              \o [n \in 1 .. max_frames |-> Processed(m, "video-frame", FALSE)]
    BY <1>2, <2>1
  <2> QED
    BY <2>2, PartialWhole
<1>9. ASSUME Wants(raw) /\ Safe(m.id), m.type \in {"audio", "voice"}
      PROVE  Expected(raw) = <<Processed(m, "audio", FALSE)>>
  BY <1>1, <1>2, <1>9 DEF Expected, Wants
<1>10. ASSUME Wants(raw) /\ Safe(m.id), m.type = "image"
       PROVE  Expected(raw) = <<Processed(m, "image", m.caption)>>
  <2>1. Expected(raw) = <<Processed(x, "image", raw.caption)>>
    BY <1>1, <1>10 DEF Expected, Wants
  <2> QED
    BY <1>2, <1>5, <1>10, <2>1 DEF Wants
<1>11. ASSUME Wants(raw) /\ Safe(m.id), m.type = "document"
       PROVE  Expected(raw) =
                 <<IF m.mime_type = "text/" THEN Processed(m, "document", FALSE)
                                            ELSE Unprocessable(m)>>
  <2>1. Expected(raw) =
           IF raw.mime_type = "text/" THEN <<Processed(x, "document", FALSE)>>
                                      ELSE <<Unprocessable(x)>>
    BY <1>1, <1>11 DEF Expected, Wants
  <2> QED
    BY <1>2, <1>3, <1>5, <1>11, <2>1 DEF Wants
<1> QED
  BY <1>3, <1>4, <1>6, <1>7, <1>8, <1>9, <1>10, <1>11

LEMMA ExpectedTyped ==
    ASSUME NEW raw \in RawMessage, Supported(raw)
    PROVE  /\ Expected(raw) \in Seq(Segment)
           /\ <<Unprocessable(MessageOf(raw, FALSE))>> \in Seq(Segment)
<1> DEFINE m == MessageOf(raw, TRUE)
<1>1. m \in Message /\ m = MessageOf(raw, m.raw_ref)
  <2>1. m.raw_ref = TRUE
    BY DEF MessageOf
  <2> QED
    BY <2>1, MessageTyped
<1>2. m.type \in MessageType /\ m.caption \in BOOLEAN
  BY <1>1 DEF Message
<1> HIDE DEF m
<1>3. /\ Unprocessable(m) \in Segment
      /\ \A source \in Source, caption \in BOOLEAN :
            Processed(m, source, caption) \in Segment
  BY <1>1, <1>2, SegmentTyped DEF Source
<1>4. {"text", "audio", "image", "document"} \subseteq Source
  BY DEF Source, MessageType
<1>5. Partial(m, max_frames + 1) \in Seq(Segment)
  BY <1>1, PartialTyped, TranscriptAssumption
<1>6. <<Unprocessable(m)>> \in Seq(Segment)
  BY <1>3
<1>7. \A source \in Source, caption \in BOOLEAN :
         <<Processed(m, source, caption)>> \in Seq(Segment)
  BY <1>3
<1>8. Unprocessable(MessageOf(raw, FALSE)) = Unprocessable(m)
  BY <1>1, ExpectedIs
<1>9. CASE m.type = "text"
  BY <1>1, <1>4, <1>6, <1>7, <1>8, <1>9, ExpectedIs
<1>10. CASE m.type # "text" /\ ~(Wants(raw) /\ Safe(m.id))
  BY <1>1, <1>6, <1>8, <1>10, ExpectedIs
<1>11. CASE m.type # "text" /\ Wants(raw) /\ Safe(m.id)
  <2>1. CASE m.type \in {"audio", "voice"}
    BY <1>1, <1>4, <1>6, <1>7, <1>8, <1>11, <2>1, ExpectedIs
  <2>2. CASE m.type = "image"
    BY <1>1, <1>2, <1>4, <1>6, <1>7, <1>8, <1>11, <2>2, ExpectedIs
  <2>3. CASE m.type = "video"
    BY <1>1, <1>5, <1>6, <1>8, <1>11, <2>3, ExpectedIs
  <2>4. CASE m.type = "document"
    <3>1. Expected(raw) = <<Processed(m, "document", FALSE)>>
          \/ Expected(raw) = <<Unprocessable(m)>>
      BY <1>1, <1>11, <2>4, ExpectedIs
    <3> QED
      BY <1>4, <1>6, <1>7, <1>8, <3>1
  <2> QED
    BY <1>2, <1>11, <2>1, <2>2, <2>3, <2>4 DEF MessageType
<1> QED
  BY <1>9, <1>10, <1>11

LEMMA ToldNext ==
    ASSUME NEW k \in Nat, NEW h, Accepted \in Seq(RawMessage), k < Len(Accepted),
           \A n \in DOMAIN Accepted : Supported(Accepted[n])
    PROVE  Told(k + 1, h) = Told(k, h) \o Line(k + 1, h)
<1> DEFINE f == [n \in 1 .. k + 1 |-> Line(n, h)]
<1>1. ASSUME NEW n \in 1 .. k + 1 PROVE Line(n, h) \in Seq(Segment)
  <2>1. n \in DOMAIN Accepted /\ Accepted[n] \in RawMessage
    OBVIOUS
  <2> QED
    BY <2>1, ExpectedTyped DEF Line
<1>2. f \in [1 .. k + 1 -> Seq(Segment)] /\ f[k + 1] = Line(k + 1, h)
  BY <1>1
<1>3. [n \in 1 .. k |-> f[n]] = [n \in 1 .. k |-> Line(n, h)]
  OBVIOUS
<1>4. Told(k, h) = FlattenSeq([n \in 1 .. k |-> f[n]]) /\ Told(k + 1, h) = FlattenSeq(f)
  BY <1>3 DEF Told
<1> HIDE DEF f
<1> QED
  BY <1>2, <1>4, FlattenNext

\* A call that raises on a later message changes nothing of an earlier one.
LEMMA ToldSame ==
    ASSUME NEW k, NEW h, NEW g,
           \A n \in 1 .. k : Accepted[n].id \in h <=> Accepted[n].id \in g
    PROVE  Told(k, h) = Told(k, g)
<1>1. \A n \in 1 .. k : Line(n, h) = Line(n, g)
  BY DEF Line
<1>2. [n \in 1 .. k |-> Line(n, h)] = [n \in 1 .. k |-> Line(n, g)]
  BY <1>1
<1> QED
  BY <1>2 DEF Told

-----------------------------------------------------------------------------
(* The invariant: the request is what the bodies read so far should leave,  *)
(* and the transcript what the messages worked on so far should contribute. *)

ParsePC == {"parse", "download", "check", "put"}

SegmentPC == CallPC \cup {"segment", "classify"}

\* How many messages of the bodies are done with.
Received == IF pc \in ParsePC THEN next - 1 ELSE Len(payload)

IdsOf(b) == {b[k].id : k \in DOMAIN b}

\* b holds the messages A, of which all ids are in c; a call raised on those
\* in h, and only on such that have media to download.
Holds(A, b, c, h) ==
    /\ A \in Seq(RawMessage) /\ Len(b) = Len(A)
    /\ \A k \in DOMAIN b :
          /\ Supported(A[k])
          /\ b[k] = MessageOf(A[k], b[k].raw_ref)
          /\ b[k].raw_ref => Wants(A[k]) /\ Safe(b[k].id)
          /\ ~b[k].raw_ref /\ Wants(A[k]) /\ Safe(b[k].id) => b[k].id \in h
          /\ b[k].id \in h => Wants(A[k])
    /\ \A j, k \in DOMAIN b : b[j].id = b[k].id => j = k
    /\ IdsOf(b) \subseteq c
    /\ h \subseteq IdsOf(b)

\* No call has raised on a message of b, from the k-th on, that has its media.
Spared(b, h, k) == \A i \in DOMAIN b : i >= k /\ b[i].raw_ref => b[i].id \notin h

\* The messages of the bodies that have been claimed.
ClaimedIs(k) ==
    claimed = {payload[j].id : j \in {i \in 1 .. k : Supported(payload[i])}}

\* The messages of the first k whose media has been reloaded.
MediaIs(k) ==
    media = {batch[i].id : i \in {j \in DOMAIN batch : j <= k /\ batch[j].raw_ref}}

ParseInv ==
    pc \in ParsePC =>
        /\ next <= Len(payload) + 1
        /\ pc = "parse" => ClaimedIs(next - 1)
        /\ pc # "parse" =>
              /\ ClaimedIs(next) /\ Wants(Raw) /\ Counts(next)
              /\ Raw.id \notin IdsOf(batch)
        /\ media = {} /\ segments = << >>

ReloadInv ==
    pc = "reload" =>
        next <= Len(batch) + 1 /\ MediaIs(next - 1) /\ segments = << >>

SegmentInv ==
    pc \in SegmentPC =>
        /\ next <= Len(batch) + 1
        /\ pc = "classify" => next = Len(batch) + 1
        /\ MediaIs(Len(batch))
        /\ segments = Told(next - 1, hit)
        /\ pc = "transcribe" => Current.type \in {"audio", "voice", "video"}
        /\ pc \in {"extract_audio", "sample_frames"} => Current.type = "video"
        /\ pc = "describe" => Current.type \in {"image", "video"}
        /\ pc = "extract" => Current.type = "document"
        /\ pc = "sample_frames" => partial = Partial(Current, 1)
        /\ pc = "describe" /\ Current.type = "video" =>
              \E j \in 1 .. max_frames : partial = Partial(Current, j)

FaithfulInv ==
    /\ Holds(AcceptedTo(Received), batch, claimed, hit)
    /\ Spared(batch, hit, IF pc \in SegmentPC THEN next ELSE 1)
    /\ ParseInv
    /\ ReloadInv
    /\ SegmentInv

LEMMA ReceivedIs ==
    ASSUME payload' = payload, NEW k, Received' = k
    PROVE  AcceptedTo(Received)' = AcceptedTo(k)
BY DEF AcceptedTo, Counts

LEMMA ToldIs ==
    ASSUME payload' = payload, NEW k, next' - 1 = k, NEW h, hit' = h
    PROVE  Told(next - 1, hit)' = Told(k, h)
BY DEF Told, Line, Accepted, Counts

-----------------------------------------------------------------------------
(* receive *)

LEMMA HoldsAppend ==
    ASSUME NEW A, NEW b \in Seq(Message), NEW c, NEW h,
           Holds(A, b, c, h), Spared(b, h, 1),
           NEW raw \in RawMessage, Supported(raw), raw.id \notin IdsOf(b),
           NEW stands \in BOOLEAN,
           NEW d, c \subseteq d, raw.id \in d,
           NEW g,
           \/ g = h /\ (stands <=> Wants(raw) /\ Safe(raw.id))
           \/ g = h \cup {raw.id} /\ ~stands /\ Wants(raw)
    PROVE  /\ Holds(Append(A, raw), Append(b, MessageOf(raw, stands)), d, g)
           /\ Spared(Append(b, MessageOf(raw, stands)), g, 1)
<1> DEFINE m == MessageOf(raw, stands)
           B == Append(A, raw)
           q == Append(b, m)
           l == Len(b)
<1>1. m \in Message /\ m.id = raw.id /\ m.raw_ref = stands
      /\ m = MessageOf(raw, m.raw_ref)
  <2>1. m.id = raw.id /\ m.raw_ref = stands
    BY DEF MessageOf
  <2> QED
    BY <2>1, MessageTyped
<1> HIDE DEF m
<1>2. A \in Seq(RawMessage) /\ Len(A) = l /\ l \in Nat
  BY DEF Holds
<1>3. /\ q \in Seq(Message) /\ Len(q) = l + 1 /\ q[l + 1] = m
      /\ B \in Seq(RawMessage) /\ Len(B) = l + 1 /\ B[l + 1] = raw
      /\ \A k \in 1 .. l : q[k] = b[k] /\ B[k] = A[k]
      /\ DOMAIN b = 1 .. l /\ DOMAIN q = 1 .. l + 1
  BY <1>1, <1>2
<1> HIDE DEF q, B, l
<1>4. IdsOf(q) = IdsOf(b) \cup {raw.id}
  <2>1. \A k \in DOMAIN q : q[k].id \in IdsOf(b) \cup {raw.id}
    BY <1>1, <1>2, <1>3 DEF IdsOf
  <2>2. \A k \in DOMAIN b : k \in DOMAIN q /\ q[k].id = b[k].id
    BY <1>2, <1>3
  <2>3. l + 1 \in DOMAIN q /\ q[l + 1].id = raw.id
    BY <1>1, <1>2, <1>3
  <2> QED
    BY <2>1, <2>2, <2>3 DEF IdsOf
<1>5. h \subseteq IdsOf(b) /\ raw.id \notin h
  BY DEF Holds
<1>6. ASSUME NEW k \in 1 .. l
      PROVE  /\ b[k].id # raw.id
             /\ b[k].id \in g <=> b[k].id \in h
  BY <1>3, <1>6 DEF IdsOf
<1>7. ASSUME NEW k \in DOMAIN q
      PROVE  /\ Supported(B[k])
             /\ q[k] = MessageOf(B[k], q[k].raw_ref)
             /\ q[k].raw_ref => Wants(B[k]) /\ Safe(q[k].id) /\ q[k].id \notin g
             /\ ~q[k].raw_ref /\ Wants(B[k]) /\ Safe(q[k].id) => q[k].id \in g
             /\ q[k].id \in g => Wants(B[k])
  <2>1. CASE k \in 1 .. l
    <3>1. q[k] = b[k] /\ B[k] = A[k] /\ k \in DOMAIN b /\ k >= 1
      BY <1>3, <2>1
    <3>2. b[k].raw_ref => b[k].id \notin h
      BY <3>1 DEF Spared
    <3> QED
      BY <1>6, <2>1, <3>1, <3>2 DEF Holds
  <2>2. CASE k = l + 1
    <3>1. q[k] = m /\ B[k] = raw
      BY <1>3, <2>2
    <3> QED
      BY <1>1, <1>5, <3>1
  <2> QED
    BY <1>2, <1>3, <2>1, <2>2
<1>8. ASSUME NEW j \in DOMAIN q, NEW k \in DOMAIN q, q[j].id = q[k].id PROVE j = k
  <2>1. CASE j \in 1 .. l /\ k \in 1 .. l
    BY <1>3, <1>8, <2>1 DEF Holds
  <2>2. CASE j \in 1 .. l /\ k = l + 1
    BY <1>1, <1>3, <1>6, <1>8, <2>2
  <2>3. CASE j = l + 1 /\ k \in 1 .. l
    BY <1>1, <1>3, <1>6, <1>8, <2>3
  <2> QED
    BY <1>2, <1>3, <2>1, <2>2, <2>3
<1>9. IdsOf(q) \subseteq d /\ g \subseteq IdsOf(q)
  BY <1>4, <1>5 DEF Holds
<1>10. Holds(B, q, d, g)
  BY <1>3, <1>7, <1>8, <1>9 DEF Holds
<1>11. Spared(q, g, 1)
  BY <1>7 DEF Spared
<1> QED
  BY <1>10, <1>11 DEF B, q, m

LEMMA FaithfulInit == TranscriptInit => FaithfulInv
<1> SUFFICES ASSUME TranscriptInit PROVE FaithfulInv
  OBVIOUS
<1>1. pc = "parse" /\ next = 1 /\ batch = << >> /\ claimed = {} /\ hit = {}
      /\ media = {} /\ segments = << >> /\ payload \in Seq(RawMessage)
  BY TranscriptAssumption DEF TranscriptInit
<1>2. Received = 0 /\ AcceptedTo(Received) = << >>
  <2>1. Received = 0
    BY <1>1 DEF Received, ParsePC
  <2> QED
    BY <2>1, AcceptedStart
<1>3. Holds(<< >>, << >>, {}, {})
  <2>1. << >> \in Seq(RawMessage) /\ Len(<< >>) = 0
    OBVIOUS
  <2> QED
    BY <2>1 DEF Holds, IdsOf
<1>4. \A k : Spared(<< >>, {}, k)
  BY DEF Spared
<1>5. ParseInv
  <2>1. ClaimedIs(next - 1)
    BY <1>1 DEF ClaimedIs
  <2> QED
    BY <1>1, <2>1 DEF ParseInv
<1>6. ReloadInv /\ SegmentInv
  BY <1>1 DEF ReloadInv, SegmentInv, SegmentPC, CallPC
<1> QED
  BY <1>1, <1>2, <1>3, <1>4, <1>5, <1>6 DEF FaithfulInv

\* The message at the loop is new: it enters the request.
LEMMA FaithfulAccept ==
    ASSUME SafeInv, FaithfulInv, pc \in ParsePC, next <= Len(payload),
           Supported(Raw), Counts(next), Raw.id \notin IdsOf(batch),
           NEW stands \in BOOLEAN, Accept(stands),
           UNCHANGED <<payload, media, segments>>,
           ClaimedIs(next - 1)', claimed \subseteq claimed', Raw.id \in claimed',
           \/ hit' = hit /\ (stands <=> Wants(Raw) /\ Safe(Raw.id))
           \/ hit' = hit \cup {Raw.id} /\ ~stands /\ Wants(Raw)
    PROVE  FaithfulInv'
<1>0. /\ TranscriptTypeOK /\ next \in Nat \ {0} /\ payload \in Seq(RawMessage)
      /\ batch \in Seq(Message) /\ Raw \in RawMessage
      /\ pc' = "parse" /\ next' = next + 1
      /\ batch' = Append(batch, MessageOf(Raw, stands))
  BY RawTyped, TranscriptAssumption DEF SafeInv, TranscriptTypeOK, Accept
<1>1. Received = next - 1 /\ Received' = next
  BY <1>0 DEF Received, ParsePC
<1>2. AcceptedTo(next) = Append(AcceptedTo(next - 1), Raw)
  <2>1. next - 1 \in Nat /\ (next - 1) + 1 = next
    BY <1>0
  <2> QED
    BY <1>0, <2>1, AcceptedNext DEF Raw
<1>3. AcceptedTo(Received)' = AcceptedTo(next)
  BY <1>1, ReceivedIs
<1>4. Holds(AcceptedTo(next - 1), batch, claimed, hit) /\ Spared(batch, hit, 1)
  BY <1>1 DEF FaithfulInv, ParsePC, SegmentPC, CallPC
<1>5. /\ Holds(AcceptedTo(next), batch', claimed', hit')
      /\ Spared(batch', hit', 1)
  BY <1>0, <1>2, <1>4, HoldsAppend
<1>6. ParseInv'
  <2>1. media' = {} /\ segments' = << >>
    BY DEF FaithfulInv, ParseInv
  <2> QED
    BY <1>0, <2>1 DEF ParseInv
<1>7. ReloadInv' /\ SegmentInv' /\ pc' \notin SegmentPC
  BY <1>0 DEF ReloadInv, SegmentInv, SegmentPC, CallPC
<1> QED
  BY <1>3, <1>5, <1>6, <1>7 DEF FaithfulInv

LEMMA FaithfulReceive ==
    ASSUME SafeInv, FaithfulInv, Skip \/ Claim \/ Download \/ Check \/ Put \/ CloseBucket
    PROVE  FaithfulInv'
<1>0. /\ TranscriptTypeOK /\ next \in Nat \ {0} /\ payload \in Seq(RawMessage)
      /\ payload' = payload /\ media' = media /\ segments' = segments
      /\ pc \in ParsePC
      /\ next <= Len(payload) + 1 /\ media = {} /\ segments = << >>
  <2>1. TranscriptTypeOK /\ next \in Nat \ {0} /\ payload \in Seq(RawMessage)
    BY TranscriptAssumption DEF SafeInv, TranscriptTypeOK
  <2>2. payload' = payload /\ media' = media /\ segments' = segments /\ pc \in ParsePC
    BY DEF Skip, Claim, Download, Check, Put, CloseBucket, ParsePC
  <2> QED
    BY <2>1, <2>2 DEF FaithfulInv, ParseInv
<1>1. CASE Skip
  <2>0. /\ next <= Len(payload) /\ (~Supported(Raw) \/ Raw.id \in claimed)
        /\ next' = next + 1 /\ pc' = pc /\ pc = "parse"
        /\ batch' = batch /\ claimed' = claimed /\ hit' = hit
    BY <1>1 DEF Skip
  <2>1. claimed = {payload[j].id : j \in {i \in 1 .. next - 1 : Supported(payload[i])}}
    BY <2>0 DEF FaithfulInv, ParseInv, ParsePC, ClaimedIs
  <2>2. ~Counts(next)
    BY <2>0, <2>1 DEF Counts, Raw
  <2>3. Received = next - 1 /\ Received' = next
    BY <1>0, <2>0 DEF Received, ParsePC
  <2>4. AcceptedTo(next) = AcceptedTo(next - 1)
    <3>1. next - 1 \in Nat /\ (next - 1) + 1 = next
      BY <1>0
    <3> QED
      BY <1>0, <1>1, <2>2, <3>1, AcceptedNext DEF Skip
  <2>5. AcceptedTo(Received)' = AcceptedTo(next - 1)
    BY <1>0, <2>3, <2>4, ReceivedIs
  <2>6. /\ Holds(AcceptedTo(next - 1), batch', claimed', hit')
        /\ Spared(batch', hit', 1) /\ pc' \notin SegmentPC
    BY <2>0, <2>3 DEF FaithfulInv, SegmentPC, CallPC
  <2>7. claimed' = {payload[j].id : j \in {i \in 1 .. next : Supported(payload[i])}}
    <3>1. \A j \in 1 .. next : j \in 1 .. next - 1 \/ j = next
      BY <1>0
    <3>2. \A j \in 1 .. next - 1 : j \in 1 .. next
      BY <1>0
    <3>3. Supported(payload[next]) => payload[next].id \in claimed
      BY <2>0 DEF Raw
    <3> QED
      BY <2>0, <2>1, <3>1, <3>2, <3>3
  <2>8. ClaimedIs(next - 1)'
    BY <1>0, <2>0, <2>7 DEF ClaimedIs
  <2>9. ParseInv'
    BY <1>0, <2>0, <2>8, <1>1 DEF ParseInv, Skip
  <2>10. ReloadInv' /\ SegmentInv'
    BY <2>0, <2>6 DEF ReloadInv, SegmentInv
  <2> QED
    BY <2>5, <2>6, <2>9, <2>10 DEF FaithfulInv
<1>2. CASE Claim
  <2>0. /\ next <= Len(payload) /\ Supported(Raw) /\ Raw.id \notin claimed
        /\ claimed' = claimed \cup {Raw.id} /\ hit' = hit /\ pc = "parse"
    BY <1>2 DEF Claim
  <2>1. claimed = {payload[j].id : j \in {i \in 1 .. next - 1 : Supported(payload[i])}}
    BY <2>0 DEF FaithfulInv, ParseInv, ParsePC, ClaimedIs
  <2>2. Counts(next)
    BY <2>0, <2>1 DEF Counts, Raw
  <2>3. /\ Holds(AcceptedTo(next - 1), batch, claimed, hit)
        /\ Spared(batch, hit, 1) /\ Received = next - 1
    BY <2>0 DEF FaithfulInv, SegmentPC, CallPC, Received, ParsePC
  <2>4. Raw.id \notin IdsOf(batch)
    BY <2>0, <2>3 DEF Holds
  <2>5. claimed' = {payload[j].id : j \in {i \in 1 .. next : Supported(payload[i])}}
    <3>1. \A j \in 1 .. next : j \in 1 .. next - 1 \/ j = next
      BY <1>0
    <3>2. next \in 1 .. next /\ \A j \in 1 .. next - 1 : j \in 1 .. next
      BY <1>0
    <3>3. Supported(payload[next]) /\ payload[next].id = Raw.id
      BY <2>0 DEF Raw
    <3> QED
      BY <2>0, <2>1, <3>1, <3>2, <3>3
  <2>6. CASE Wants(Raw)
    <3>0. pc' = "download" /\ batch' = batch /\ next' = next
      BY <1>2, <2>6 DEF Claim, Wants
    <3>1. Received' = next - 1 /\ pc' \notin SegmentPC
      BY <3>0 DEF Received, ParsePC, SegmentPC, CallPC
    <3>2. AcceptedTo(Received)' = AcceptedTo(next - 1)
      BY <1>0, <3>1, ReceivedIs
    <3>3. /\ Holds(AcceptedTo(next - 1), batch', claimed', hit')
          /\ Spared(batch', hit', 1)
      BY <2>0, <2>3, <3>0 DEF Holds
    <3>4. /\ ClaimedIs(next)' /\ Wants(Raw)' /\ Counts(next)'
          /\ (Raw.id \notin IdsOf(batch))'
      BY <1>0, <2>2, <2>4, <2>5, <2>6, <3>0 DEF ClaimedIs, Raw, Counts
    <3>5. ParseInv'
      BY <1>0, <3>0, <3>4, <2>0 DEF ParseInv
    <3>6. ReloadInv' /\ SegmentInv'
      BY <3>0, <3>1 DEF ReloadInv, SegmentInv
    <3> QED
      BY <3>1, <3>2, <3>3, <3>5, <3>6 DEF FaithfulInv
  <2>7. CASE ~Wants(Raw)
    <3>1. Accept(FALSE)
      BY <1>2, <2>7 DEF Claim, Wants
    <3>2. ClaimedIs(next - 1)'
      <4>1. next' - 1 = next
        BY <1>0, <3>1 DEF Accept
      <4> QED
        BY <1>0, <2>5, <4>1 DEF ClaimedIs
    <3> QED
      BY <1>0, <2>0, <2>2, <2>4, <2>7, <3>1, <3>2, FaithfulAccept
  <2> QED
    BY <2>6, <2>7
<1>3. CASE Download \/ Check \/ Put
  <2>0. /\ pc \in {"download", "check", "put"} /\ claimed' = claimed
        /\ pc = "put" => Safe(Raw.id)
        /\ next <= Len(payload) /\ Supported(Raw) /\ Wants(Raw) /\ Counts(next)
        /\ Raw.id \notin IdsOf(batch)
        /\ claimed = {payload[j].id : j \in {i \in 1 .. next : Supported(payload[i])}}
    <3>1. pc \in {"download", "check", "put"} /\ claimed' = claimed
      BY <1>3 DEF Download, Check, Put
    <3> QED
      BY <3>1 DEF SafeInv, FaithfulInv, ParseInv, ParsePC, ClaimedIs
  <2>1. Raw.id \in claimed
    <3>1. next \in 1 .. next /\ Supported(payload[next]) /\ payload[next].id = Raw.id
      BY <1>0, <2>0 DEF Raw
    <3> QED
      BY <2>0, <3>1
  <2>2. ASSUME NEW stands \in BOOLEAN, Accept(stands),
               \/ hit' = hit /\ (stands <=> Safe(Raw.id))
               \/ hit' = hit \cup {Raw.id} /\ ~stands
        PROVE  FaithfulInv'
    <3>1. ClaimedIs(next - 1)'
      <4>1. next' - 1 = next
        BY <1>0, <2>2 DEF Accept
      <4> QED
        BY <1>0, <2>0, <4>1 DEF ClaimedIs
    <3> QED
      BY <1>0, <2>0, <2>1, <2>2, <3>1, FaithfulAccept
  <2>3. CASE /\ Download \/ (Check /\ Safe(Raw.id))
             /\ pc' \in {"check", "put"} /\ UNCHANGED <<batch, next, hit>>
    <3>1. Received = next - 1 /\ Received' = next - 1 /\ pc' \notin SegmentPC
          /\ pc \notin SegmentPC
      BY <2>0, <2>3 DEF Received, ParsePC, SegmentPC, CallPC
    <3>2. AcceptedTo(Received)' = AcceptedTo(next - 1)
      BY <1>0, <3>1, ReceivedIs
    <3>3. /\ Holds(AcceptedTo(next - 1), batch', claimed', hit')
          /\ Spared(batch', hit', 1)
      BY <2>0, <2>3, <3>1 DEF FaithfulInv
    <3>4. /\ ClaimedIs(next)' /\ Wants(Raw)' /\ Counts(next)'
          /\ (Raw.id \notin IdsOf(batch))'
      BY <1>0, <2>0, <2>3 DEF ClaimedIs, Raw, Counts
    <3>5. ParseInv'
      BY <1>0, <2>3, <3>4 DEF ParseInv
    <3>6. ReloadInv' /\ SegmentInv'
      BY <2>3, <3>1 DEF ReloadInv, SegmentInv
    <3> QED
      BY <3>1, <3>2, <3>3, <3>5, <3>6 DEF FaithfulInv
  <2>4. CASE Accept(FALSE) /\ hit' = hit /\ ~Safe(Raw.id)
    BY <2>2, <2>4
  <2>5. CASE Accept(FALSE) /\ hit' = hit \cup {Raw.id}
    BY <2>2, <2>5
  <2>6. CASE Accept(TRUE) /\ hit' = hit /\ Safe(Raw.id)
    BY <2>2, <2>6
  <2>7. CASE Put
    BY <2>0, <2>5, <2>6, <2>7 DEF Put, Hit
  <2>8. CASE Download
    BY <2>3, <2>5, <2>8 DEF Download, Hit
  <2>9. CASE Check
    BY <2>3, <2>4, <2>9 DEF Check
  <2> QED
    BY <1>3, <2>7, <2>8, <2>9
<1>4. CASE CloseBucket
  <2>0. /\ pc = "parse" /\ next = Len(payload) + 1 /\ pc' = "reload" /\ next' = 1
        /\ batch' = batch /\ claimed' = claimed /\ hit' = hit
    BY <1>0, <1>4 DEF CloseBucket
  <2>1. /\ Received = Len(payload) /\ Received' = Len(payload)
        /\ pc \notin SegmentPC /\ pc' \notin SegmentPC
    BY <1>0, <2>0 DEF Received, ParsePC, SegmentPC, CallPC
  <2>2. AcceptedTo(Received)' = AcceptedTo(Len(payload))
    BY <1>0, <2>1, ReceivedIs
  <2>3. /\ Holds(AcceptedTo(Len(payload)), batch', claimed', hit')
        /\ Spared(batch', hit', 1)
    BY <2>0, <2>1 DEF FaithfulInv
  <2>4. MediaIs(next - 1)'
    BY <1>0, <2>0 DEF MediaIs
  <2>5. ReloadInv'
    <3>1. next' <= Len(batch') + 1
      BY <2>0 DEF SafeInv, TranscriptTypeOK
    <3> QED
      BY <1>0, <2>4, <3>1 DEF ReloadInv
  <2>6. ParseInv' /\ SegmentInv'
    BY <2>0, <2>1 DEF ParseInv, SegmentInv, ParsePC
  <2> QED
    BY <2>1, <2>2, <2>3, <2>5, <2>6 DEF FaithfulInv
<1> QED
  BY <1>1, <1>2, <1>3, <1>4

-----------------------------------------------------------------------------
(* _media_for and build_transcript *)

\* Once the bucket is closed the request holds what it should, for good.
LEMMA HoldsAll ==
    ASSUME SafeInv, FaithfulInv, pc \notin ParsePC
    PROVE  /\ Holds(Accepted, batch, claimed, hit)
           /\ Spared(batch, hit, IF pc \in SegmentPC THEN next ELSE 1)
           /\ batch \in Seq(Message) /\ next \in Nat \ {0}
<1>1. AcceptedTo(Received) = Accepted
  BY AcceptedEnd DEF SafeInv, Received
<1> QED
  BY <1>1 DEF FaithfulInv, SafeInv, TranscriptTypeOK

LEMMA FaithfulLater ==
    ASSUME SafeInv, pc' \notin ParsePC, payload' = payload,
           Holds(Accepted, batch', claimed', hit'),
           Spared(batch', hit', IF pc' \in SegmentPC THEN next' ELSE 1),
           ReloadInv', SegmentInv'
    PROVE  FaithfulInv'
<1>1. AcceptedTo(Received)' = AcceptedTo(Len(payload))
  <2>1. Received' = Len(payload)
    BY DEF Received
  <2> QED
    BY <2>1, ReceivedIs
<1>2. AcceptedTo(Received)' = Accepted
  BY <1>1, AcceptedEnd DEF SafeInv
<1>3. ParseInv'
  BY DEF ParseInv
<1> QED
  BY <1>2, <1>3 DEF FaithfulInv

LEMMA FaithfulReload ==
    ASSUME SafeInv, FaithfulInv,
           Reload \/ ReloadRaises \/ StartTranscript \/ EndTranscript
    PROVE  FaithfulInv'
<1>0. /\ payload' = payload /\ batch' = batch /\ claimed' = claimed /\ hit' = hit
      /\ segments' = segments /\ pc \in {"reload", "segment"}
  BY DEF Reload, ReloadRaises, StartTranscript, EndTranscript, AtMessage
<1>1. pc \notin ParsePC /\ (pc = "reload" => pc \notin SegmentPC)
      /\ pc' \notin ParsePC
  BY <1>0 DEF ParsePC, SegmentPC, CallPC, Reload, ReloadRaises, StartTranscript,
              EndTranscript, AtMessage
<1>2. /\ Holds(Accepted, batch', claimed', hit')
      /\ Spared(batch, hit, IF pc \in SegmentPC THEN next ELSE 1)
      /\ batch \in Seq(Message) /\ next \in Nat \ {0}
  BY <1>0, <1>1, HoldsAll
<1>3. CASE Reload
  <2>0. /\ pc = "reload" /\ pc' = "reload" /\ next <= Len(batch)
        /\ next' = next + 1 /\ segments = << >>
        /\ media = {batch[i].id :
                       i \in {j \in DOMAIN batch : j <= next - 1 /\ batch[j].raw_ref}}
        /\ media' = IF batch[next].raw_ref THEN media \cup {batch[next].id} ELSE media
    BY <1>3 DEF Reload, AtMessage, FaithfulInv, ReloadInv, MediaIs, Current
  <2>1. media' = {batch[i].id :
                     i \in {j \in DOMAIN batch : j <= next /\ batch[j].raw_ref}}
    <3>1. next \in DOMAIN batch
      BY <1>2, <2>0
    <3>2. \A j \in DOMAIN batch : j <= next <=> j <= next - 1 \/ j = next
      BY <1>2
    <3> QED
      BY <2>0, <3>1, <3>2
  <2>2. MediaIs(next - 1)'
    <3>1. next' - 1 = next
      BY <1>2, <2>0
    <3> QED
      BY <1>0, <2>1, <3>1 DEF MediaIs
  <2>3. ReloadInv' /\ SegmentInv' /\ pc' \notin SegmentPC
    BY <1>0, <1>2, <2>0, <2>2 DEF ReloadInv, SegmentInv, SegmentPC, CallPC
  <2> QED
    BY <1>0, <1>1, <1>2, <2>0, <2>3, FaithfulLater
<1>4. CASE ReloadRaises
  <2>1. pc = "reload" /\ pc' = "lost" /\ next' = next /\ pc' \notin SegmentPC
    BY <1>4 DEF ReloadRaises, AtMessage, SegmentPC, CallPC
  <2>2. ReloadInv' /\ SegmentInv'
    BY <2>1 DEF ReloadInv, SegmentInv
  <2> QED
    BY <1>0, <1>1, <1>2, <2>1, <2>2, FaithfulLater
<1>5. CASE StartTranscript
  <2>0. /\ pc = "reload" /\ pc' = "segment" /\ next = Len(batch) + 1 /\ next' = 1
        /\ media' = media /\ segments = << >> /\ MediaIs(next - 1)
    <3>1. pc = "reload" /\ pc' = "segment" /\ next' = 1 /\ media' = media
          /\ next > Len(batch)
      BY <1>5 DEF StartTranscript
    <3>2. next <= Len(batch) + 1 /\ segments = << >> /\ MediaIs(next - 1)
      BY <3>1 DEF FaithfulInv, ReloadInv
    <3> QED
      BY <1>2, <3>1, <3>2
  <2>1. MediaIs(Len(batch))'
    <3>1. next - 1 = Len(batch)
      BY <1>2, <2>0
    <3> QED
      BY <1>0, <2>0, <3>1 DEF MediaIs
  <2>2. Told(next - 1, hit)' = << >>
    <3>1. Told(next - 1, hit)' = Told(0, hit)
      BY <1>0, <2>0, ToldIs
    <3>2. [n \in 1 .. 0 |-> Line(n, hit)] = << >>
      OBVIOUS
    <3> QED
      BY <3>1, <3>2, FlattenEmpty DEF Told
  <2>3. SegmentInv'
    BY <1>0, <1>2, <2>0, <2>1, <2>2 DEF SegmentInv
  <2>4. ReloadInv' /\ pc' \in SegmentPC
    BY <2>0 DEF ReloadInv, SegmentPC
  <2> QED
    BY <1>0, <1>1, <1>2, <2>0, <2>3, <2>4, FaithfulLater
<1>6. CASE EndTranscript
  <2>0. /\ pc = "segment" /\ pc' = "classify" /\ next > Len(batch) /\ next' = next
        /\ media' = media /\ pc \in SegmentPC /\ pc' \in SegmentPC
    BY <1>6 DEF EndTranscript, SegmentPC
  <2>1. next = Len(batch) + 1 /\ MediaIs(Len(batch)) /\ segments = Told(next - 1, hit)
    <3>1. next <= Len(batch) + 1 /\ MediaIs(Len(batch)) /\ segments = Told(next - 1, hit)
      BY <2>0 DEF FaithfulInv, SegmentInv
    <3> QED
      BY <1>2, <2>0, <3>1
  <2>2. MediaIs(Len(batch))'
    BY <1>0, <2>0, <2>1 DEF MediaIs
  <2>3. Told(next - 1, hit)' = Told(next - 1, hit)
    BY <1>0, <2>0, ToldIs
  <2>4. SegmentInv'
    BY <1>0, <1>2, <2>0, <2>1, <2>2, <2>3 DEF SegmentInv
  <2>5. ReloadInv'
    BY <2>0 DEF ReloadInv
  <2> QED
    BY <1>0, <1>1, <1>2, <2>0, <2>4, <2>5, FaithfulLater
<1> QED
  BY <1>3, <1>4, <1>5, <1>6

\* The message at the transcript, and what the bodies say of it.
LEMMA AtLine ==
    ASSUME SafeInv, FaithfulInv, pc \in SegmentPC, next <= Len(batch)
    PROVE  /\ next \in DOMAIN batch /\ Current = batch[next] /\ Current \in Message
           /\ next \in DOMAIN Accepted /\ Accepted[next] \in RawMessage
           /\ Supported(Accepted[next]) /\ Accepted[next].id = Current.id
           /\ Current = MessageOf(Accepted[next], Current.raw_ref)
           /\ Current.id \in media <=> Current.raw_ref
           /\ Current.raw_ref => /\ Wants(Accepted[next]) /\ Safe(Current.id)
                                 /\ Current.id \notin hit
           /\ ~Current.raw_ref /\ Wants(Accepted[next]) /\ Safe(Current.id) =>
                 Current.id \in hit
           /\ Current.id \in hit => Wants(Accepted[next])
           /\ \A n \in 1 .. next - 1 : Accepted[n].id # Current.id
<1>0. pc \notin ParsePC
  BY DEF SegmentPC, CallPC, ParsePC
<1>1. /\ Holds(Accepted, batch, claimed, hit) /\ Spared(batch, hit, next)
      /\ batch \in Seq(Message) /\ next \in Nat \ {0}
  BY <1>0, HoldsAll
<1>2. /\ next \in DOMAIN batch /\ Current = batch[next] /\ Current \in Message
  BY <1>1 DEF Current
<1>3. Accepted \in Seq(RawMessage) /\ Len(batch) = Len(Accepted)
  BY <1>1 DEF Holds
<1>4. next \in DOMAIN Accepted /\ Accepted[next] \in RawMessage
  BY <1>1, <1>3
<1>5. Current = MessageOf(Accepted[next], Current.raw_ref)
  BY <1>1, <1>2 DEF Holds
<1>6. Current.id = Accepted[next].id
  BY <1>5 DEF MessageOf
<1>7. Current.id \in media <=> Current.raw_ref
  <2>1. MediaIs(Len(batch))
    BY DEF FaithfulInv, SegmentInv
  <2>2. \A j \in DOMAIN batch : batch[j].id = Current.id => j = next
    BY <1>1, <1>2 DEF Holds
  <2>3. next <= Len(batch)
    OBVIOUS
  <2> QED
    BY <1>2, <2>1, <2>2, <2>3 DEF MediaIs
<1>8. Current.raw_ref => Current.id \notin hit
  <2>1. next >= next
    BY <1>1
  <2> QED
    BY <1>1, <1>2, <2>1 DEF Spared
<1>9. ASSUME NEW n \in 1 .. next - 1 PROVE Accepted[n].id # Current.id
  <2>1. n \in DOMAIN batch /\ n # next
    BY <1>1
  <2>2. batch[n].id = Accepted[n].id
    BY <1>1, <2>1 DEF Holds, MessageOf
  <2> QED
    BY <1>1, <1>2, <2>1, <2>2 DEF Holds
<1> QED
  BY <1>1, <1>2, <1>4, <1>5, <1>6, <1>7, <1>8, <1>9 DEF Holds

\* A message is done with when the transcript is extended by its lines.
LEMMA FaithfulExtend ==
    ASSUME SafeInv, FaithfulInv, pc \in SegmentPC, next <= Len(batch),
           NEW new, Extend(new), new = Line(next, hit'),
           hit' = hit \/ (hit' = hit \cup {Current.id} /\ Wants(Accepted[next])),
           UNCHANGED <<payload, claimed, batch, media>>
    PROVE  FaithfulInv'
<1>0. pc \notin ParsePC /\ pc' = "segment" /\ next' = next + 1
      /\ pc' \in SegmentPC /\ pc' \notin ParsePC
  BY DEF SegmentPC, CallPC, ParsePC, Extend
<1>1. /\ Holds(Accepted, batch, claimed, hit) /\ Spared(batch, hit, next)
      /\ batch \in Seq(Message) /\ next \in Nat \ {0}
  BY <1>0, HoldsAll
<1>2. /\ next \in DOMAIN batch /\ Current = batch[next]
      /\ \A n \in 1 .. next - 1 : Accepted[n].id # Current.id
      /\ \A j \in DOMAIN batch : batch[j].id = Current.id => j = next
  <2>1. /\ next \in DOMAIN batch /\ Current = batch[next]
        /\ \A n \in 1 .. next - 1 : Accepted[n].id # Current.id
    BY AtLine
  <2> QED
    BY <1>1, <2>1 DEF Holds
<1>3. Holds(Accepted, batch', claimed', hit')
  <2>1. CASE hit' = hit
    BY <1>1, <2>1
  <2>2. CASE hit' = hit \cup {Current.id} /\ Wants(Accepted[next])
    <3>1. hit' \subseteq IdsOf(batch)
      BY <1>1, <1>2, <2>2 DEF Holds, IdsOf
    <3>2. \A k \in DOMAIN batch : batch[k].id \in hit' => Wants(Accepted[k])
      BY <1>1, <1>2, <2>2 DEF Holds
    <3> QED
      BY <1>1, <2>2, <3>1, <3>2 DEF Holds
  <2> QED
    BY <2>1, <2>2
<1>4. Spared(batch', hit', next')
  <2>1. ASSUME NEW i \in DOMAIN batch, i >= next + 1, batch[i].raw_ref
        PROVE  batch[i].id \notin hit'
    <3>1. i \in Nat /\ i >= next /\ i # next
      BY <1>1, <2>1
    <3>2. batch[i].id \notin hit /\ batch[i].id # Current.id
      BY <1>1, <1>2, <2>1, <3>1 DEF Spared
    <3> QED
      BY <3>2
  <2> QED
    BY <1>0, <2>1 DEF Spared
<1>5. /\ MediaIs(Len(batch)) /\ segments = Told(next - 1, hit)
  BY DEF FaithfulInv, SegmentInv
<1>6. MediaIs(Len(batch))'
  BY <1>5 DEF MediaIs
<1>7. segments' = Told(next, hit')
  <2>1. Told(next - 1, hit) = Told(next - 1, hit')
    BY <1>2, ToldSame
  <2>2. /\ Accepted \in Seq(RawMessage) /\ Len(Accepted) = Len(batch)
        /\ \A n \in DOMAIN Accepted : Supported(Accepted[n])
    <3>1. Accepted \in Seq(RawMessage) /\ Len(Accepted) = Len(batch)
      BY <1>1 DEF Holds
    <3>2. DOMAIN Accepted = DOMAIN batch
      BY <1>1, <3>1
    <3> QED
      BY <1>1, <3>1, <3>2 DEF Holds
  <2>3. next - 1 \in Nat /\ (next - 1) + 1 = next /\ next - 1 < Len(Accepted)
    BY <1>1, <2>2
  <2>4. Told(next, hit') = Told(next - 1, hit') \o Line(next, hit')
    BY <2>2, <2>3, ToldNext
  <2> QED
    BY <1>5, <2>1, <2>4 DEF Extend
<1>8. Told(next - 1, hit)' = Told(next, hit')
  <2>1. next' - 1 = next
    BY <1>0, <1>1
  <2> QED
    BY <2>1, ToldIs
<1>9. SegmentInv'
  <2>1. next' <= Len(batch') + 1
    BY <1>0, <1>1
  <2> QED
    BY <1>0, <1>6, <1>7, <1>8, <2>1 DEF SegmentInv
<1>10. ReloadInv'
  BY <1>0 DEF ReloadInv
<1> QED
  BY <1>0, <1>3, <1>4, <1>9, <1>10, FaithfulLater

\* So does whatever goes on to another call on the same message.
LEMMA FaithfulGoOn ==
    ASSUME SafeInv, FaithfulInv, pc \in SegmentPC, next <= Len(batch), pc' \in CallPC,
           UNCHANGED <<payload, next, claimed, batch, media, segments, hit>>,
           pc' = "transcribe" => Current.type \in {"audio", "voice", "video"},
           pc' \in {"extract_audio", "sample_frames"} => Current.type = "video",
           pc' = "describe" => Current.type \in {"image", "video"},
           pc' = "extract" => Current.type = "document",
           pc' = "sample_frames" => partial' = Partial(Current, 1),
           pc' = "describe" /\ Current.type = "video" =>
              \E j \in 1 .. max_frames : partial' = Partial(Current, j)
    PROVE  FaithfulInv'
<1>0. pc \notin ParsePC /\ pc' \in SegmentPC /\ pc' \notin ParsePC
      /\ pc' \notin {"classify", "reload"} /\ Current' = Current
  BY DEF SegmentPC, CallPC, ParsePC, Current
<1>1. /\ Holds(Accepted, batch', claimed', hit') /\ Spared(batch', hit', next')
      /\ batch \in Seq(Message) /\ next \in Nat \ {0}
  BY <1>0, HoldsAll
<1>2. /\ MediaIs(Len(batch)) /\ segments = Told(next - 1, hit)
  BY DEF FaithfulInv, SegmentInv
<1>3. MediaIs(Len(batch))'
  BY <1>2 DEF MediaIs
<1>4. Told(next - 1, hit)' = Told(next - 1, hit)
  BY ToldIs
<1>5. next' <= Len(batch') + 1
  BY <1>1
<1>6. SegmentInv'
  BY <1>0, <1>2, <1>3, <1>4, <1>5 DEF SegmentInv
<1>7. ReloadInv'
  BY <1>0 DEF ReloadInv
<1> QED
  BY <1>0, <1>1, <1>6, <1>7, FaithfulLater

LEMMA FaithfulRaises ==
    ASSUME SafeInv, FaithfulInv, NEW call \in CallPC, Raises(call),
           UNCHANGED <<payload, claimed, stored, batch, media>>
    PROVE  FaithfulInv'
<1>0. /\ pc \in SegmentPC /\ pc \in CallPC /\ next <= Len(batch)
      /\ Extend(<<Unprocessable(Current)>>) /\ hit' = hit \cup {Current.id}
  BY DEF Raises, AtMessage, Hit, SegmentPC
<1>1. /\ Current \in Message /\ Accepted[next] \in RawMessage
      /\ Supported(Accepted[next]) /\ Accepted[next].id = Current.id
      /\ Current = MessageOf(Accepted[next], Current.raw_ref)
      /\ Wants(Accepted[next])
  <2>1. Current.id \in media
    BY <1>0 DEF SafeInv
  <2> QED
    BY <1>0, <2>1, AtLine
<1>2. <<Unprocessable(Current)>> = Line(next, hit')
  <2>1. Unprocessable(MessageOf(Accepted[next], FALSE)) = Unprocessable(Current)
    BY <1>1, ExpectedIs
  <2> QED
    BY <1>0, <1>1, <2>1 DEF Line
<1> QED
  BY <1>0, <1>1, <1>2, FaithfulExtend

LEMMA FaithfulBegin ==
    ASSUME SafeInv, FaithfulInv, BeginMessage
    PROVE  FaithfulInv'
<1>0. /\ pc = "segment" /\ pc \in SegmentPC /\ next <= Len(batch) /\ hit' = hit
      /\ UNCHANGED <<payload, claimed, stored, batch, media>>
  BY DEF BeginMessage, AtMessage, SegmentPC
<1> DEFINE raw == Accepted[next]
<1>1. /\ Current \in Message /\ raw \in RawMessage /\ Supported(raw)
      /\ raw.id = Current.id /\ Current = MessageOf(raw, Current.raw_ref)
      /\ Current.id \in media <=> Current.raw_ref
      /\ Current.id \in media => Current.id \notin hit
      /\ ~Current.raw_ref /\ Wants(raw) /\ Safe(Current.id) => Current.id \in hit
      /\ Current.id \in hit => Wants(raw)
  BY <1>0, AtLine
<1>2. Line(next, hit') = IF Current.id \in hit
                         THEN <<Unprocessable(MessageOf(raw, FALSE))>>
                         ELSE Expected(raw)
  BY <1>0, <1>1 DEF Line
<1> HIDE DEF raw
<1>3. /\ Unprocessable(MessageOf(raw, FALSE)) = Unprocessable(Current)
      /\ Current.type = "text" <=> raw.type = "text"
      /\ Current.type = "text" => Expected(raw) = <<Processed(Current, "text", FALSE)>>
      /\ Current.type # "text" /\ ~(Wants(raw) /\ Safe(Current.id)) =>
            Expected(raw) = <<Unprocessable(Current)>>
  BY <1>1, ExpectedIs
<1>4. CASE Current.type = "text" /\ Extend(<<Processed(Current, "text", FALSE)>>)
  <2>1. Current.id \notin hit
    BY <1>1, <1>3, <1>4 DEF Wants
  <2>2. Line(next, hit') = <<Processed(Current, "text", FALSE)>>
    BY <1>2, <1>3, <1>4, <2>1
  <2> QED
    BY <1>0, <1>4, <2>2, FaithfulExtend
<1>5. CASE /\ Current.type # "text" /\ Current.id \notin media
           /\ Extend(<<Unprocessable(Current)>>)
  <2>1. Line(next, hit') = <<Unprocessable(Current)>>
    BY <1>1, <1>2, <1>3, <1>5
  <2> QED
    BY <1>0, <1>5, <2>1, FaithfulExtend
<1>6. CASE /\ Current.type # "text" /\ Current.id \in media
           /\ pc' = firstCall[Current.type]
           /\ UNCHANGED <<segments, partial, next>>
  <2>1. Current.type \in MessageType
    BY <1>1 DEF Message
  <2>2. /\ pc' \in CallPC
        /\ pc' = "transcribe" => Current.type \in {"audio", "voice", "video"}
        /\ pc' = "extract_audio" => Current.type = "video"
        /\ pc' = "describe" => Current.type = "image"
        /\ pc' = "extract" => Current.type = "document"
        /\ pc' # "sample_frames"
    BY <1>6, <2>1 DEF firstCall, CallPC, MessageType
  <2> QED
    BY <1>0, <1>6, <2>2, FaithfulGoOn
<1> QED
  BY <1>4, <1>5, <1>6 DEF BeginMessage

LEMMA FaithfulCalls ==
    ASSUME SafeInv, FaithfulInv, Transcribe \/ Describe \/ RunFfmpeg \/ Extract
    PROVE  FaithfulInv'
<1>0. UNCHANGED <<payload, claimed, stored, batch, media>>
  BY DEF Transcribe, Describe, RunFfmpeg, Extract
<1>1. SUFFICES ASSUME \A call \in CallPC : ~Raises(call), UNCHANGED hit
               PROVE  FaithfulInv'
  BY <1>0, FaithfulRaises DEF Transcribe, Describe, RunFfmpeg, Extract, CallPC
<1>2. /\ pc \in CallPC /\ pc \in SegmentPC /\ next <= Len(batch)
      /\ Current.id \in media
  BY <1>1 DEF Transcribe, Describe, RunFfmpeg, Extract, AtMessage, CallPC,
              SegmentPC, SafeInv
<1> DEFINE raw == Accepted[next]
<1>3. /\ Current \in Message /\ raw \in RawMessage /\ Supported(raw)
      /\ raw.id = Current.id /\ Current = MessageOf(raw, Current.raw_ref)
      /\ Wants(raw) /\ Safe(Current.id) /\ Current.id \notin hit
  BY <1>2, AtLine
<1>4. Line(next, hit') = Expected(raw)
  BY <1>1, <1>3 DEF Line
<1> HIDE DEF raw
<1>5. /\ Current.type \in {"audio", "voice"} =>
            Expected(raw) = <<Processed(Current, "audio", FALSE)>>
      /\ Current.type = "image" =>
            Expected(raw) = <<Processed(Current, "image", Current.caption)>>
      /\ Current.type = "video" => Expected(raw) = Partial(Current, max_frames + 1)
      /\ Current.type = "document" =>
            Expected(raw) = <<IF Current.mime_type = "text/"
                              THEN Processed(Current, "document", FALSE)
                              ELSE Unprocessable(Current)>>
  BY <1>3, ExpectedIs
<1>6. ASSUME NEW new, Extend(new), new = Expected(raw) PROVE FaithfulInv'
  BY <1>0, <1>1, <1>2, <1>4, <1>6, FaithfulExtend
<1>7. /\ pc = "transcribe" => Current.type \in {"audio", "voice", "video"}
      /\ pc \in {"extract_audio", "sample_frames"} => Current.type = "video"
      /\ pc = "extract" => Current.type = "document"
      /\ pc = "sample_frames" => partial = Partial(Current, 1)
      /\ pc = "describe" /\ Current.type = "video" =>
            \E j \in 1 .. max_frames : partial = Partial(Current, j)
  BY <1>2 DEF FaithfulInv, SegmentInv
<1>8. max_frames \in Nat
  BY TranscriptAssumption
<1>9. CASE Transcribe
  <2>0. pc = "transcribe"
    BY <1>1, <1>9 DEF Transcribe, AtMessage, CallPC
  <2>1. CASE Current.type = "video"
    <3>1. /\ pc' = "sample_frames" /\ UNCHANGED <<segments, next>>
          /\ partial' = <<Processed(Current, "video-audio", FALSE)>>
      BY <1>1, <1>9, <2>1 DEF Transcribe, CallPC
    <3>2. partial' = Partial(Current, 1) /\ pc' \in CallPC
      BY <1>3, <3>1, PartialOne DEF CallPC
    <3> QED
      BY <1>0, <1>1, <1>2, <2>1, <3>1, <3>2, FaithfulGoOn
  <2>2. CASE Current.type # "video"
    <3>1. Extend(<<Processed(Current, "audio", FALSE)>>)
      BY <1>1, <1>9, <2>2 DEF Transcribe, CallPC
    <3>2. Current.type \in {"audio", "voice"}
      BY <1>7, <2>0, <2>2
    <3> QED
      BY <1>5, <1>6, <3>1, <3>2
  <2> QED
    BY <2>1, <2>2
<1>10. CASE Describe
  <2>0. pc = "describe" /\ Current.type \in {"image", "video"}
    BY <1>1, <1>10 DEF Describe, AtMessage, CallPC
  <2>1. CASE Current.type = "image"
    <3>1. Extend(<<Processed(Current, "image", Current.caption)>>)
      BY <1>1, <1>10, <2>1 DEF Describe, CallPC
    <3> QED
      BY <1>5, <1>6, <2>1, <3>1
  <2>2. CASE Current.type = "video"
    <3>1. PICK j \in 1 .. max_frames : partial = Partial(Current, j)
      BY <1>7, <2>0, <2>2
    <3> DEFINE seen == Append(partial, Processed(Current, "video-frame", FALSE))
    <3>2. seen = Partial(Current, j + 1) /\ Len(Partial(Current, j + 1)) = j + 1
      <4>1. j \in Nat \ {0} /\ j + 1 \in Nat
        BY <1>8
      <4> QED
        BY <1>3, <3>1, <4>1, PartialNext, PartialTyped
    <3>3. IF Len(seen) > max_frames
          THEN Extend(seen)
          ELSE partial' = seen /\ UNCHANGED <<segments, next, pc>>
      BY <1>1, <1>10, <2>2 DEF Describe, CallPC
    <3> HIDE DEF seen
    <3>4. CASE Len(seen) > max_frames
      <4>1. j = max_frames
        BY <1>8, <3>2, <3>4
      <4>2. Extend(seen) /\ seen = Expected(raw)
        BY <1>5, <2>2, <3>2, <3>3, <3>4, <4>1
      <4> QED
        BY <1>6, <4>2
    <3>5. CASE ~(Len(seen) > max_frames)
      <4>1. j + 1 \in 1 .. max_frames
        BY <1>8, <3>2, <3>5
      <4>2. partial' = Partial(Current, j + 1) /\ UNCHANGED <<segments, next, pc>>
        BY <3>2, <3>3, <3>5
      <4> QED
        BY <1>0, <1>1, <1>2, <2>0, <2>2, <4>1, <4>2, FaithfulGoOn
    <3> QED
      BY <3>4, <3>5
  <2> QED
    BY <2>0, <2>1, <2>2
<1>11. CASE RunFfmpeg
  <2>1. CASE AtMessage("extract_audio") /\ pc' = "transcribe"
             /\ UNCHANGED <<segments, partial, next, hit>>
    <3>1. Current.type = "video" /\ pc' \in CallPC
      BY <1>7, <2>1 DEF AtMessage, CallPC
    <3> QED
      BY <1>0, <1>1, <1>2, <2>1, <3>1, FaithfulGoOn
  <2>2. CASE AtMessage("sample_frames")
             /\ IF max_frames = 0
                THEN Extend(partial)
                ELSE pc' = "describe" /\ UNCHANGED <<segments, partial, next>>
    <3>1. Current.type = "video" /\ partial = Partial(Current, 1)
      BY <1>7, <2>2 DEF AtMessage
    <3>2. CASE max_frames = 0
      <4>1. Extend(partial) /\ partial = Expected(raw)
        BY <1>5, <2>2, <3>1, <3>2
      <4> QED
        BY <1>6, <4>1
    <3>3. CASE max_frames # 0
      <4>1. pc' = "describe" /\ UNCHANGED <<segments, partial, next>>
            /\ 1 \in 1 .. max_frames /\ pc' \in CallPC
        BY <1>8, <2>2, <3>3 DEF CallPC
      <4> QED
        BY <1>0, <1>1, <1>2, <3>1, <4>1, FaithfulGoOn
    <3> QED
      BY <3>2, <3>3
  <2> QED
    BY <1>1, <1>11, <2>1, <2>2 DEF RunFfmpeg, CallPC
<1>12. CASE Extract
  <2>1. /\ Current.type = "document"
        /\ Extend(<<IF Current.mime_type = "text/"
                    THEN Processed(Current, "document", FALSE)
                    ELSE Unprocessable(Current)>>)
    BY <1>7, <1>12 DEF Extract, AtMessage
  <2> QED
    BY <1>5, <1>6, <2>1
<1> QED
  BY <1>9, <1>10, <1>11, <1>12

LEMMA FaithfulStep ==
    SafeInv /\ FaithfulInv /\ [TranscriptStep]_transcriptVars => FaithfulInv'
<1> SUFFICES ASSUME SafeInv, FaithfulInv, [TranscriptStep]_transcriptVars
             PROVE  FaithfulInv'
  OBVIOUS
<1>1. CASE TranscriptStep
  BY <1>1, FaithfulReceive, FaithfulReload, FaithfulBegin, FaithfulCalls
     DEF TranscriptStep
<1>2. CASE UNCHANGED transcriptVars
  <2>0. UNCHANGED <<payload, pc, next, claimed, batch, media, partial, segments, hit>>
    BY <1>2 DEF transcriptVars
  <2>1. AcceptedTo(Received)' = AcceptedTo(Received)
    <3>1. Received' = Received
      BY <2>0 DEF Received
    <3> QED
      BY <2>0, <3>1, ReceivedIs
  <2>2. Told(next - 1, hit)' = Told(next - 1, hit)
    BY <2>0, ToldIs
  <2>3. ParseInv'
    BY <2>0 DEF FaithfulInv, ParseInv, ClaimedIs, Raw, Counts
  <2>4. ReloadInv'
    BY <2>0 DEF FaithfulInv, ReloadInv, MediaIs
  <2>5. SegmentInv'
    BY <2>0, <2>2 DEF FaithfulInv, SegmentInv, MediaIs, Current
  <2> QED
    BY <2>0, <2>1, <2>3, <2>4, <2>5 DEF FaithfulInv
<1> QED
  BY <1>1, <1>2

LEMMA FaithfulEnough == SafeInv /\ FaithfulInv => TranscriptIsFaithful
<1> SUFFICES ASSUME SafeInv, FaithfulInv, pc = "classify"
             PROVE  segments = FlattenSeq([n \in DOMAIN Accepted |-> Line(n, hit)])
  BY DEF TranscriptIsFaithful, Line
<1>1. pc \in SegmentPC /\ pc \notin ParsePC
  BY DEF SegmentPC, CallPC, ParsePC
<1>2. /\ Holds(Accepted, batch, claimed, hit)
      /\ batch \in Seq(Message)
  BY <1>1, HoldsAll
<1>3. DOMAIN Accepted = 1 .. Len(batch)
  BY <1>2 DEF Holds
<1>4. next - 1 = Len(batch) /\ segments = Told(next - 1, hit)
  <2>1. next = Len(batch) + 1 /\ segments = Told(next - 1, hit)
    BY <1>1 DEF FaithfulInv, SegmentInv
  <2> QED
    BY <1>2, <2>1
<1> QED
  BY <1>3, <1>4 DEF Told

\* FR-MED-06 and FR-MED-07, for any bodies, files and number of frames: the
\* transcript has the segments of every message that counts, once and in order,
\* and a call that raises costs the segments of its own message only.
THEOREM TranscriptIsFaithfulAlways == TranscriptSpec => []TranscriptIsFaithful
<1>1. TranscriptInit => SafeInv /\ FaithfulInv
  BY SafeInit, FaithfulInit
<1>2. SafeInv /\ FaithfulInv /\ [TranscriptStep]_transcriptVars =>
         (SafeInv /\ FaithfulInv)'
  BY SafeStep, FaithfulStep
<1> QED
  BY <1>1, <1>2, FaithfulEnough, PTL DEF TranscriptSpec

=============================================================================
