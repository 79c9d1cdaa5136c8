------------------------------- MODULE Loaders -------------------------------
(***************************************************************************)
(* What becomes of a thing that is to be imported: the text that            *)
(* FileLoaderService, DocumentLoaderService and GoogleDocsLoaderService     *)
(* get out of it, or their refusal.                                         *)
(*                                                                         *)
(* A file is known by what its name and its content type say of it and by  *)
(* what it holds.  Formats stand for all their spellings: "xlsx" for xls,   *)
(* "html" for htm, "text" for txt, md and markdown.  The content type      *)
(* application/vnd.ms-excel, which is compared by its prefix, is "excel".   *)
(***************************************************************************)
EXTENDS Naturals, Sequences, SequencesExt

Formats == {"pdf", "docx", "xlsx", "csv", "html", "text"}
Sizes == {"empty", "fits", "large"}

Files == [ext    : Formats \cup {"other"},            \* by its name
          mime   : Formats \cup {"excel", "none"},    \* by its content type,
          params : BOOLEAN,                           \* with a charset or so
          holds  : Formats, size : Sizes]

Refused == [ok |-> FALSE]
Text(kind, mime) == [ok |-> TRUE, kind |-> kind, mime |-> mime]

\* What resolveKind asks of a file before it answers this kind.
Matches(kind, file) ==
    \/ file.ext = kind
    \/ file.mime = kind /\ ~file.params
    \/ kind = "xlsx" /\ file.mime = "excel"
    \/ kind = "text" /\ file.mime \in {"csv", "html", "text"}

\* Deviation: the text types are asked for ahead of those they include.
KindOrderTextFirst == <<"pdf", "docx", "xlsx", "text", "csv", "html">>

\* The order of its questions.
KindOrder == <<"pdf", "docx", "xlsx", "csv", "html", "text">>

ResolveKind(file) ==
    LET first == SelectInSeq(KindOrder, LAMBDA kind : Matches(kind, file))
    IN  IF first = 0 THEN "unsupported" ELSE KindOrder[first]

\* pdf-parse and mammoth refuse what they cannot parse; the others read anything.
Parses(kind, file) == kind \in {"pdf", "docx"} => file.holds = kind

\* FileLoaderService.load: a plain text keeps the content type it came with.
LoadFile(file) ==
    LET kind == ResolveKind(file) IN
    IF file.size # "fits" \/ kind = "unsupported" \/ ~Parses(kind, file) THEN Refused
    ELSE Text(kind, IF kind = "text" /\ file.mime # "none" THEN file.mime ELSE kind)

-----------------------------------------------------------------------------
(* Addresses                                                               *)

\* What fetch answers: the file, another status, or nothing in time.
Responses == {"ok", "status", "aborted", "unreachable"}

\* DocumentLoaderService.loadGenericUrl
LoadGenericUrl(response, file) == IF response = "ok" THEN LoadFile(file) ELSE Refused

\* What Google shows at the address: the document, a page that offers to sign
\* in or to request access, a refusal, a limit; and what its export answers.
\* A document may itself have the words that are looked for.
Pages == {"document", "wording", "sign-in", "forbidden", "limited", "aborted", "unreachable"}
Exports == {"text", "login page", "status", "aborted", "large"}
Paths == {"docs", "sheets", "other"}

\* GoogleDocsLoaderService.checkAccess: whatever is not told private is public,
\* answers with other statuses than 401, 403 and 429 as well.
CheckAccess(page) ==
    CASE page = "document" -> "public"
      [] page \in {"wording", "sign-in", "forbidden"} -> "private"
      [] page = "limited" -> "rate_limited"
      [] page = "aborted" -> "request_timeout"
      [] page = "unreachable" -> "error_checking_access"

\* GoogleDocsLoaderService.fetchText
FetchText(export) == export = "text"

\* GoogleDocsLoaderService.load
LoadGoogle(path, page, export) ==
    IF path = "other" \/ CheckAccess(page) # "public" \/ ~FetchText(export) THEN Refused
    ELSE Text("text", path)

-----------------------------------------------------------------------------
(* Sources                                                                 *)

\* A text in the request itself, an upload, the address of a file, a Google link.
Raw == [via |-> "raw"]
Upload(file) == [via |-> "upload", file |-> file]
Url(response, file) == [via |-> "url", response |-> response, file |-> file]
Google(path, page, export) ==
    [via |-> "google", path |-> path, page |-> page, export |-> export]

Sources ==
    {Raw} \cup [via : {"upload"}, file : Files]
          \cup [via : {"url"}, response : Responses, file : Files]
          \cup [via : {"google"}, path : Paths, page : Pages, export : Exports]

LoadUrl(source) ==
    IF source.via = "google" THEN LoadGoogle(source.path, source.page, source.export)
    ELSE LoadGenericUrl(source.response, source.file)

Load(source) ==
    CASE source.via = "raw"    -> Text("text", "text")
      [] source.via = "upload" -> LoadFile(source.file)
      [] OTHER                 -> LoadUrl(source)

-----------------------------------------------------------------------------
(* What a reader of the text expects                                       *)

\* What is said of the file, as far as anything is said, is what it holds.
Honest(file) ==
    /\ file.ext \in {file.holds, "other"}
    /\ \/ file.mime \in {file.holds, "none"}
       \/ file.mime = "excel" /\ file.holds = "xlsx"

\* resolveKind compares content types as a whole, so that one with parameters,
\* such as "text/html; charset=utf-8", is not recognised by itself.
OnlyByParams(file) == file.ext = "other" /\ file.params

\* What to remember of a text: the format it was read as, the one its file has,
\* and whether the file said enough.
Reading(source) ==
    [kind  |-> Load(source).kind,
     holds |-> IF source.via \in {"upload", "url"} THEN source.file.holds ELSE "text",
     known |-> \/ source.via \notin {"upload", "url"}
               \/ Honest(source.file) /\ ~OnlyByParams(source.file)]

\* Comma-separated values are a text as well.
Readable(kind, holds) == kind = holds \/ {kind, holds} \subseteq {"csv", "text"}

=============================================================================
