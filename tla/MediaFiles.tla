------------------------------ MODULE MediaFiles ------------------------------
(***************************************************************************)
(* What FinancePipeline leaves open about one file: how a messenger's      *)
(* adapter says what type it has, which category and extension follow from *)
(* the type, and what the readers behind the categories do with it: the    *)
(* two speech-to-text adapters, the document parsers, and the encoding of  *)
(* an image for the provider.  These tables are kept in eight modules, and *)
(* they do not agree on everything: ReadersAgree says where they part.     *)
(***************************************************************************)
EXTENDS FinancePipeline

CONSTANT Attachments   \* the attachments the files of a call are taken from

\* Contents stand for the types the tables treat alike, and each also names the
\* type its content has: ogg, as mp3 and m4a, is in every table, webm and opus
\* are in all but Yandex', flac is known to the readers alone; heic, aac and csv
\* stand for what no table has: an image, a recording and anything else.
Images     == {"jpeg", "heic"}
Recordings == {"ogg", "webm", "wav", "opus", "flac", "aac"}
Documents  == {"pdf", "docx"}
Contents   == Images \cup Recordings \cup Documents \cup {"csv", "mp4"}

\* An attachment comes as some form of message.  A document or file has the type
\* (Telegram, MAX) or the file name (Yandex) its sender gave it: the one of its
\* content, or an alias of that, or it has none.
Forms == [TG |-> {"photo", "document"}, YM |-> {"image", "file"},
          MX |-> {"image", "video", "audio", "file"}]
IsAttachment(a) == /\ a.via \in DOMAIN Forms /\ a.form \in Forms[a.via]
                   /\ a.content \in Contents /\ a.named \in {"type", "alias", "no"}

ASSUME MediaConstants == \A a \in Attachments : IsAttachment(a)

-----------------------------------------------------------------------------
(* The tables. *)

\* What is passed on as it came.  No table has the aliases (image/jpg, audio/x-wav,
\* audio/opus, application/x-pdf), so they count as the unknown of their kind.
AsNamed(a) == IF a.named = "type"              THEN a.content
              ELSE IF a.content \in Images     THEN "heic"
              ELSE IF a.content \in Recordings THEN "aac"
              ELSE "csv"

\* The parse_webhook of each adapter; "none" where file_type is None.
TelegramType(a) == IF a.form = "photo"      THEN "jpeg"
                   ELSE IF a.named = "no"   THEN "none"
                   ELSE AsNamed(a)

GuessedFromName == {"jpeg", "ogg", "wav", "pdf", "docx", "csv"}
YandexType(a) == IF a.form = "image"        THEN "jpeg"
                 ELSE IF a.named = "no"     THEN "none"
                 ELSE IF a.named = "type" /\ a.content \in GuessedFromName THEN a.content
                 ELSE "octets"

MaxType(a) == IF a.form = "image"           THEN "jpeg"
              ELSE IF a.form = "video"      THEN "mp4"
              ELSE IF a.named # "no"        THEN AsNamed(a)
              ELSE IF a.form = "audio"      THEN "ogg"
              ELSE "octets"

FileType(a) == CASE a.via = "TG" -> TelegramType(a)
                 [] a.via = "YM" -> YandexType(a)
                 [] a.via = "MX" -> MaxType(a)

\* A slip: recordings of a type that is not mapped count as unknown.
CategoryOfMapped(type) == CASE type \in Images     -> "image"
                            [] type \in Documents  -> "document"
                            [] type \in Recordings \cap {"ogg", "wav"} -> "audio"
                            [] OTHER               -> "unknown"

\* SUPPORTED_EXTENSIONS of both adapters, and those Riva has to convert.
Supported == {"ogg", "webm", "wav", "opus", "flac"}
NeedConversion == {"ogg", "webm"}

\* _get_file_info; flac is not in its mapping, and becomes a .bin.
CategoryOf(type) == CASE type \in Images     -> "image"
                      [] type \in Recordings -> "audio"
                      [] type \in Documents  -> "document"
                      [] OTHER               -> "unknown"
Mapped == {"jpeg", "ogg", "webm", "wav", "opus", "pdf", "docx"}
Extension(type) == IF type \in Mapped THEN type ELSE "bin"

-----------------------------------------------------------------------------
VARIABLES sent,      \* the attachment each file came as
          big,       \* the files above the size limit of their reader
          riva,      \* the configured provider is Riva, not Groq
          loaded,    \* Riva's adapter has the bytes to send
          temps,     \* recordings whose conversion directory is on disk
          channel,   \* Riva's channel is open
          read,      \* history: files that reached a reader
          missed     \* history: files something outside kept from one

media  == <<loaded, temps, channel, read, missed>>
Inputs == <<sent, big, riva>>
mvars  == <<vars, Inputs, media>>

MediaInit ==
    /\ sent \in [Files -> Attachments]
    /\ \A f, g \in Files : sent[f].via = sent[g].via
    /\ Init
    /\ category = [f \in Files |-> CategoryOf(FileType(sent[f]))]
    /\ big \in SUBSET Files
    /\ riva \in BOOLEAN
    /\ loaded = FALSE /\ temps = {} /\ channel = FALSE /\ read = {} /\ missed = {}

Suffix == Extension(FileType(sent[file]))
Reads == read' = read \cup {file} /\ UNCHANGED missed
Misses == missed' = missed \cup {file} /\ UNCHANGED read

\* The steps that are the pipeline's alone.
Elsewhere ==
    /\ \/ Download \/ KeepImage \/ SkipUnknown \/ StartStt \/ PrimaryFails
       \/ FallbackFails \/ AskRaises \/ WriteCsv \/ WriteCsvFails
       \/ SoftLimit \/ Kill
    /\ UNCHANGED <<Inputs, media>>

\* No file, or nobody to listen to it.
Miss ==
    /\ DownloadFails \/ SttUnavailable
    /\ Misses
    /\ UNCHANGED <<Inputs, loaded, temps, channel>>

\* A document: its parser returns text that is not empty, or raises.
ParseDocument ==
    /\ Is("document")
    /\ (Parse /\ parts' # parts) \/ ParseFails
    /\ Reads
    /\ UNCHANGED <<Inputs, loaded, temps, channel>>

Transcribing == Is("audio") /\ stt /\ ~loaded
Acceptable == Suffix \in Supported /\ file \notin big

\* The checks of both transcribe methods.
Refuse ==
    /\ Transcribing /\ ~Acceptable
    /\ ParseFails
    /\ UNCHANGED <<Inputs, media>>

\* Groq: one request, with the file as it is.
Transcribe ==
    /\ Transcribing /\ Acceptable /\ ~riva
    /\ Parse \/ ParseFails
    /\ Reads
    /\ UNCHANGED <<Inputs, loaded, temps, channel>>

\* Riva: ffmpeg writes a WAV into a directory of its own.
Convert ==
    /\ Transcribing /\ Acceptable /\ riva
    /\ Suffix \in NeedConversion
    /\ temps' = temps \cup {file}
    /\ loaded' = TRUE
    /\ UNCHANGED <<vars, Inputs, channel, read, missed>>

\* A slip: a conversion that fails is not caught file by file.
ConvertFailsEndsLoop ==
    /\ Transcribing /\ Acceptable /\ riva
    /\ Suffix \in NeedConversion
    /\ pc' = "merge" /\ file' = NumFiles + 1 /\ disk' = disk \ {file}
    /\ temps' \in {temps, temps \cup {file}}
    /\ Misses
    /\ UNCHANGED <<inputs, stt, parts, images, waiting, outcome, torn, spoken, Inputs,
                   loaded, channel>>

\* It is not installed, or it fails, and then its directory stays: the caller
\* that is responsible for it never learns its name.
ConvertFails ==
    /\ Transcribing /\ Acceptable /\ riva
    /\ Suffix \in NeedConversion
    /\ ParseFails
    /\ temps' \in {temps, temps \cup {file}}
    /\ Misses
    /\ UNCHANGED <<Inputs, loaded, channel>>

Load ==
    /\ Transcribing /\ Acceptable /\ riva
    /\ Suffix \notin NeedConversion
    /\ loaded' = TRUE
    /\ UNCHANGED <<vars, Inputs, temps, channel, read, missed>>

\* A slip: the directory is removed after the answer, not in a finally.
RecognizeCleansUpLast ==
    /\ Is("audio") /\ loaded
    /\ channel' = TRUE
    /\ \/ Parse /\ temps' = temps \ {file}
       \/ ParseFails /\ UNCHANGED temps
    /\ loaded' = FALSE
    /\ Reads
    /\ UNCHANGED Inputs

\* The channel is made with the first request; the directory goes either way.
Recognize ==
    /\ Is("audio") /\ loaded
    /\ channel' = TRUE
    /\ Parse \/ ParseFails
    /\ temps' = temps \ {file}
    /\ loaded' = FALSE
    /\ Reads
    /\ UNCHANGED Inputs

\* Before the texts are merged both adapters are closed.
MergeParts ==
    /\ Merge
    /\ channel' = FALSE
    /\ UNCHANGED <<Inputs, loaded, temps, read, missed>>

\* generate_json encodes the images first: one that is too large is an
\* AIServiceError, with either provider.
Ask ==
    /\ Answers
    /\ images \cap big = {}
    /\ read' = read \cup images
    /\ UNCHANGED <<Inputs, loaded, temps, channel, missed>>

MediaNext ==
    \/ Elsewhere \/ Miss \/ ParseDocument \/ Refuse \/ Transcribe
    \/ Convert \/ ConvertFails \/ Load \/ Recognize \/ MergeParts \/ Ask

MediaSpec == MediaInit /\ [][MediaNext]_mvars

-----------------------------------------------------------------------------
(***************************************************************************)
(* ImplementsPipeline: with its readers spelled out the handler still does *)
(* nothing FinancePipeline does not allow, so that what is proved of that  *)
(* module for any number of files holds of this one.                       *)
(***************************************************************************)
ImplementsPipeline == Init /\ [][Next]_vars

(***************************************************************************)
(* NothingOpen: once the texts are merged Riva's channel is closed, and    *)
(* when the handler ends in any way but the end of its process the         *)
(* directories on disk are those of conversions that failed.               *)
(***************************************************************************)
NothingOpen ==
    /\ channel => pc \in {"download", "route", "merge"} \/ outcome = "killed"
    /\ pc = "end" /\ outcome # "killed" => temps \cap read = {}
    /\ temps \subseteq {f \in Files : Extension(FileType(sent[f])) \in NeedConversion}

(***************************************************************************)
(* ReadersAgree: when rows come back, every file with a content a reader   *)
(* of the bot understands has been read by it.  The exceptions are         *)
(*   - something outside kept the file from its reader;                    *)
(*   - neither its sender nor its messenger gave it a type, or Yandex' one *)
(*     has a name the adapter does not know, as for opus;                  *)
(*   - MAX sent it as a video;                                             *)
(*   - it is no image and has an alias of its type, which is not mapped;   *)
(*   - its type is one both speech-to-text adapters accept and the mapping *)
(*     lacks, which is flac: it is saved as a .bin and refused;            *)
(*   - it is a recording above the limit.                                  *)
(* An image above the limit is none: it costs all the rows.                *)
(***************************************************************************)
Understood == {"jpeg"} \cup Supported \cup Documents

ReadersAgree ==
    outcome = "rows" =>
        \A f \in Files : LET a == sent[f] IN
            \/ f \in read \/ f \in missed
            \/ a.content \notin Understood
            \/ FileType(a) \in {"none", "octets"}
            \/ a.form = "video"
            \/ a.named = "alias" /\ a.content \notin Images
            \/ FileType(a) \in Supported \ Mapped
            \/ category[f] = "audio" /\ f \in big
=============================================================================
