---------------------------- MODULE MCDocuments ----------------------------
(***************************************************************************)
(* Small instance of Documents for TLC: all bodies of up to two messages   *)
(* out of twelve, and one of three in which every kind of call occurs.     *)
(***************************************************************************)
EXTENDS Documents

MCIds == {"text", "voice", "image", "video", "pdf", "txt", "mislabelled",
          "large", "unsafe"}

MCNoId == "absent"

MCfile ==
    [id \in MCIds |->
        [mime_type |->
            CASE id \in {"text", "txt", "large"} -> "text/"
              [] id = "voice" -> "audio/"
              [] id = "image" -> "image/"
              [] id = "video" -> "video/"
              [] id \in {"pdf", "mislabelled"} -> "application/pdf"
              [] OTHER -> "other",
         too_large |-> id = "large"]]

\* A message as a client sends it.
Sent(id, type, mime_type) ==
    [id |-> id, voice |-> id = "voice", media_id |-> type # "text",
     caption |-> type = "image", type |-> type,
     mime_type |-> mime_type]

MCMessages ==
    {Sent("text", "text", "absent"),
     Sent("voice", "audio", "audio/"),
     Sent("image", "image", "image/"),
     Sent("video", "video", "video/"),
     Sent("pdf", "document", "application/pdf"),
     Sent("txt", "document", "text/"),
     Sent("mislabelled", "document", "text/"),
     Sent("large", "document", "text/"),
     Sent("unsafe", "document", "absent"),
     [Sent("image", "image", "image/") EXCEPT !.media_id = FALSE],
     Sent("text", "sticker", "absent"),
     Sent(MCNoId, "text", "absent")}

MCPayloads ==
    {<< >>} \cup {<<a>> : a \in MCMessages}
    \cup {<<a, b>> : a, b \in MCMessages}
    \cup {<<Sent("voice", "audio", "audio/"), Sent("video", "video", "video/"),
            Sent("image", "image", "image/")>>}

\* The clicks of the owner follow a single text.
MCContinued == {<<Sent("text", "text", "absent")>>}

=============================================================================
