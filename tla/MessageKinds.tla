---------------------------- MODULE MessageKinds ----------------------------
(***************************************************************************)
(* Of what type a message is: ZaloNormalizer makes attachments of a raw     *)
(* message and a type of the attachments; MessageService makes the row's    *)
(* type of both, or, for a message of the history, of the attachments only. *)
(*                                                                         *)
(* A raw message is known by its msgType, or by its content being a string  *)
(* whatever the msgType.  What an attachment has besides its type is left   *)
(* out.                                                                    *)
(***************************************************************************)
EXTENDS Naturals, Sequences, SequencesExt

RawKinds == {"string", "chat.photo", "chat.video.msg", "chat.attach", "share.file",
             "chat.voice", "chat.sticker", "chat.link", "chat.recommended",
             "chat.location.new", "other"}

Types == {"webchat", "image", "video", "file", "voice", "sticker", "link", "unknown"}

\* extractVideo, extractFile, extractVoice, extractRecommended, extractLocation: one
\* attachment of this type, whatever its content lacks and even if its JSON cannot
\* be parsed.  A business card and a place are links.
Extracted(raw) ==
    CASE raw = "chat.video.msg" -> "video"
      [] raw \in {"chat.attach", "share.file"} -> "file"
      [] raw = "chat.voice" -> "voice"
      [] raw \in {"chat.recommended", "chat.location.new"} -> "link"

\* The types of the attachments that extractContent makes.  What it does not know
\* has neither text nor attachment.
Attachments(raw) ==
    CASE raw \in {"string", "other"} -> <<>>
      [] raw = "chat.photo" -> <<"image">>
      [] raw = "chat.sticker" -> <<"sticker">>
      [] raw = "chat.link" -> <<"link">>
      [] OTHER -> <<Extracted(raw)>>

\* ZaloNormalizer.resolveMessageType: by the first attachment.  It is what the
\* console is told when the message comes.
NormalizedType(attachments) ==
    IF attachments = <<>> THEN "webchat"
    ELSE IF Head(attachments) \in Types THEN Head(attachments) ELSE "unknown"

\* ZaloNormalizer.normalizeMessage, of which only these two matter to the type.
Normalized(raw) ==
    [type |-> NormalizedType(Attachments(raw)), attachments |-> Attachments(raw)]

\* MessageService.resolveMessageType: by the attachment that comes first in this
\* order.  The history passes no type.
TypeOrder == <<"image", "video", "file", "voice", "sticker", "link">>

RowType(type, attachments) ==
    LET first == SelectInSeq(TypeOrder, LAMBDA t : t \in ToSet(attachments)) IN
    IF type \in {"pin", "unknown"} THEN type
    ELSE IF attachments = <<>> THEN "webchat"
    ELSE IF first = 0 THEN "unknown" ELSE TypeOrder[first]

\* persistInbound goes by the normalized message, the import of the history by
\* attachments alone.
LiveType(raw) == RowType(Normalized(raw).type, Normalized(raw).attachments)
HistoryType(raw) == RowType("none", Attachments(raw))

\* The table in the normalizer's comment, by which the types are meant to be
\* told; it has no line for the others.
Documented == [raw \in RawKinds \ {"share.file", "chat.recommended", "chat.location.new", "other"} |->
    CASE raw = "string" -> "webchat"
      [] raw = "chat.photo" -> "image"
      [] raw = "chat.video.msg" -> "video"
      [] raw = "chat.attach" -> "file"
      [] raw = "chat.voice" -> "voice"
      [] raw = "chat.sticker" -> "sticker"
      [] raw = "chat.link" -> "link"]

=============================================================================
