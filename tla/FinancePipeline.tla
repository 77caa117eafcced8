---------------------------- MODULE FinancePipeline ----------------------------
(***************************************************************************)
(* One call of _finance_module_handler.  A thread of its own downloads the *)
(* files of the items one after the other, turns audio and documents into  *)
(* text, asks the primary AI provider and perhaps the fallback, and        *)
(* removes the images; the task's own thread waits for it and writes the   *)
(* CSV.  The soft time limit strikes the thread that waits, and leaving    *)
(* the executor waits for the other one all the same.                      *)
(*                                                                         *)
(* Temporary names do not collide, and closing an HTTP client raises       *)
(* nothing.                                                                *)
(***************************************************************************)
EXTENDS Integers, Sequences

CONSTANTS NumFiles,   \* the call has this many file items
          Faults      \* a subset of {"disk", "limits"}

ASSUME PipelineConstants == NumFiles \in Nat /\ Faults \subseteq {"disk", "limits"}

Files      == 1..NumFiles
Categories == {"image", "audio", "document", "unknown"}

VARIABLES
    category,     \* _get_file_info of each file
    hasText,      \* some item carries text
    fallback,     \* the bot's config names a fallback provider and model
    sttSet,       \* the settings name an STT provider and its key
    pc,           \* the pipeline's thread
    file,         \* the file it is at
    stt,          \* the STT adapter is there
    parts,        \* parsed_parts: the files that gave text, in order
    images,       \* image_paths
    disk,         \* files downloaded and not removed
    waiting,      \* the task's thread: TRUE until the soft limit strikes it
    outcome,      \* what the handler ends with, "none" before that
    torn,         \* history: files of which a failed write left a part
    spoken        \* history: files that had text to give

inputs == <<category, hasText, fallback, sttSet>>
vars   == <<category, hasText, fallback, sttSet, pc, file, stt, parts, images, disk, waiting,
            outcome, torn, spoken>>

Init ==
    /\ category \in [Files -> Categories]
    /\ hasText \in BOOLEAN
    /\ fallback \in BOOLEAN
    /\ sttSet \in BOOLEAN
    /\ pc = IF NumFiles = 0 THEN "merge" ELSE "download"
    /\ file = 1
    /\ stt = FALSE
    /\ parts = <<>>
    /\ images = {}
    /\ disk = {}
    /\ waiting = TRUE
    /\ outcome = "none"
    /\ torn = {}
    /\ spoken = {}

Is(c) == pc = "route" /\ category[file] = c

\* A slip in the loop: it is left one file too late.
NextFileOneTooMany ==
    /\ file' = file + 1
    /\ pc' = IF file > NumFiles THEN "merge" ELSE "download"

\* The loop goes on with the next file, or is left.
NextFile ==
    /\ file' = file + 1
    /\ pc' = IF file = NumFiles THEN "merge" ELSE "download"

Download ==
    /\ pc = "download"
    /\ pc' = "route"
    /\ disk' = disk \cup {file}
    /\ UNCHANGED <<inputs, file, stt, parts, images, waiting, outcome, torn, spoken>>

\* Whatever download_file raises, the file is skipped; a write may have begun.
DownloadFails ==
    /\ pc = "download"
    /\ NextFile
    /\ \/ UNCHANGED <<disk, torn>>
       \/ "disk" \in Faults /\ disk' = disk \cup {file} /\ torn' = torn \cup {file}
    /\ UNCHANGED <<inputs, stt, parts, images, waiting, outcome, spoken>>

KeepImage ==
    /\ Is("image")
    /\ images' = images \cup {file}
    /\ NextFile
    /\ UNCHANGED <<inputs, stt, parts, disk, waiting, outcome, torn, spoken>>

SkipUnknown ==
    /\ Is("unknown")
    /\ NextFile
    /\ UNCHANGED <<inputs, stt, parts, images, disk, waiting, outcome, torn, spoken>>

StartStt ==
    /\ Is("audio") /\ ~stt
    /\ sttSet
    /\ stt' = TRUE
    /\ UNCHANGED <<inputs, pc, file, parts, images, disk, waiting, outcome, torn, spoken>>

\* A provider that is not configured raises before the try that removes the file.
SttUnavailable ==
    /\ Is("audio") /\ ~stt
    /\ ~sttSet
    /\ NextFile
    /\ UNCHANGED <<inputs, stt, parts, images, disk, waiting, outcome, torn, spoken>>

Readable == Is("document") \/ (Is("audio") /\ stt)

\* transcribe or process_document returns text, or nothing; the file goes.
Parse ==
    /\ Readable
    /\ \/ parts' = Append(parts, file) /\ spoken' = spoken \cup {file}
       \/ UNCHANGED <<parts, spoken>>
    /\ disk' = disk \ {file}
    /\ NextFile
    /\ UNCHANGED <<inputs, stt, images, waiting, outcome, torn>>

\* A slip: the file is removed after the parser returned, not in a finally.
ParseFailsKeepsFile ==
    /\ Readable
    /\ NextFile
    /\ UNCHANGED <<inputs, stt, parts, images, disk, waiting, outcome, torn, spoken>>

\* It raises: the file goes, and the others are still to come.
ParseFails ==
    /\ Readable
    /\ disk' = disk \ {file}
    /\ NextFile
    /\ UNCHANGED <<inputs, stt, parts, images, waiting, outcome, torn, spoken>>

-----------------------------------------------------------------------------
\* What the pipeline returned or raised reaches the handler, if it still waits for it.
Ends(result) ==
    /\ pc' = IF waiting /\ result = "rows" THEN "csv" ELSE "end"
    /\ outcome' = IF ~waiting THEN "interrupted"
                  ELSE IF result = "rows" THEN outcome ELSE result

\* A slip: what the files said does not count.
MergeForgetsMedia ==
    /\ pc = "merge"
    /\ IF hasText \/ images # {}
       THEN pc' = "primary" /\ UNCHANGED outcome
       ELSE Ends("no_data")
    /\ UNCHANGED <<inputs, file, stt, parts, images, disk, waiting, torn, spoken>>

\* Text of items and files is joined; with neither text nor images there is nothing to ask.
Merge ==
    /\ pc = "merge"
    /\ IF hasText \/ parts # <<>> \/ images # {}
       THEN pc' = "primary" /\ UNCHANGED outcome
       ELSE Ends("no_data")
    /\ UNCHANGED <<inputs, file, stt, parts, images, disk, waiting, torn, spoken>>

Asking == pc \in {"primary", "fallback"}

\* The finally of the pipeline, and its end.
Finish(result) == Ends(result) /\ disk' = disk \ images

\* generate_json returns an object, with rows or without.
Answers ==
    /\ Asking
    /\ images \subseteq disk
    /\ \E result \in {"rows", "no_rows"} : Finish(result)
    /\ UNCHANGED <<inputs, file, stt, parts, images, waiting, torn, spoken>>

\* A slip: each attempt to ask cleans up after itself.
PrimaryFailsCleansUp ==
    /\ pc = "primary"
    /\ IF fallback THEN pc' = "fallback" /\ disk' = disk \ images /\ UNCHANGED outcome
                   ELSE Finish("no_rows")
    /\ UNCHANGED <<inputs, file, stt, parts, images, waiting, torn, spoken>>

\* AIServiceError: a timeout, an HTTP error, an answer that is no JSON, an image too large.
PrimaryFails ==
    /\ pc = "primary"
    /\ IF fallback THEN pc' = "fallback" /\ UNCHANGED <<disk, outcome>>
                   ELSE Finish("no_rows")
    /\ UNCHANGED <<inputs, file, stt, parts, images, waiting, torn, spoken>>

\* fallback_failed is set, and lost: the handler sees a result without rows.
FallbackFails ==
    /\ pc = "fallback"
    /\ Finish("no_rows")
    /\ UNCHANGED <<inputs, file, stt, parts, images, waiting, torn, spoken>>

\* A connection error, or a provider without a key or a model, is no AIServiceError.
AskRaises ==
    /\ Asking
    /\ \E result \in {"retry", "fatal"} : Finish(result)
    /\ UNCHANGED <<inputs, file, stt, parts, images, waiting, torn, spoken>>

WriteCsv ==
    /\ pc = "csv" /\ waiting
    /\ pc' = "end"
    /\ outcome' = "rows"
    /\ UNCHANGED <<inputs, file, stt, parts, images, disk, waiting, torn, spoken>>

WriteCsvFails ==
    /\ pc = "csv"
    /\ "disk" \in Faults \/ ~waiting
    /\ pc' = "end"
    /\ outcome' = IF waiting THEN "fatal" ELSE "interrupted"
    /\ UNCHANGED <<inputs, file, stt, parts, images, disk, waiting, torn, spoken>>

-----------------------------------------------------------------------------
\* The soft limit strikes the task's thread; the pipeline does not notice.
SoftLimit ==
    /\ "limits" \in Faults
    /\ pc # "end" /\ waiting
    /\ waiting' = FALSE
    /\ UNCHANGED <<inputs, pc, file, stt, parts, images, disk, outcome, torn, spoken>>

\* The hard limit, or the end of the process.
Kill ==
    /\ "limits" \in Faults
    /\ pc # "end"
    /\ pc' = "end"
    /\ outcome' = "killed"
    /\ UNCHANGED <<inputs, file, stt, parts, images, disk, waiting, torn, spoken>>

Next ==
    \/ Download \/ DownloadFails
    \/ KeepImage \/ SkipUnknown \/ StartStt \/ SttUnavailable
    \/ Parse \/ ParseFails
    \/ Merge \/ Answers \/ PrimaryFails \/ FallbackFails \/ AskRaises
    \/ WriteCsv \/ WriteCsvFails
    \/ SoftLimit \/ Kill

Spec == Init /\ [][Next]_vars

-----------------------------------------------------------------------------
(***************************************************************************)
(* Type invariant: only files seen so far are on disk, only images are     *)
(* kept as images, and text comes from audio and documents.                *)
(***************************************************************************)
TypeOK ==
    /\ category \in [Files -> Categories]
    /\ hasText \in BOOLEAN /\ fallback \in BOOLEAN /\ sttSet \in BOOLEAN /\ waiting \in BOOLEAN
    /\ stt \in BOOLEAN /\ (stt => sttSet)
    /\ pc \in {"download", "route", "merge", "primary", "fallback", "csv", "end"}
    /\ file \in 1..NumFiles + 1
    /\ pc \in {"download", "route"} => file <= NumFiles
    /\ parts \in Seq(Files)
    /\ outcome \in {"none", "rows", "no_rows", "no_data", "retry", "fatal",
                    "interrupted", "killed"}
    /\ outcome # "none" <=> pc = "end"
    /\ disk \subseteq 1..file /\ torn \subseteq disk /\ spoken \subseteq Files
    /\ \A f \in images : category[f] = "image"
    /\ \A i \in DOMAIN parts : category[parts[i]] \in {"audio", "document"}

(***************************************************************************)
(* Every image a provider is shown is still on disk, at the second attempt *)
(* as well as at the first.                                                *)
(***************************************************************************)
ImagesAreThere == Asking => images \subseteq disk

(***************************************************************************)
(* When the handler ends in any way but the end of its process, no file is *)
(* left but those of an unknown category, recordings for which no STT      *)
(* adapter was available, and parts of failed writes.  The first two are   *)
(* what the finally blocks of _download_and_parse_media do not reach.      *)
(***************************************************************************)
LeavesFew ==
    pc = "end" /\ outcome # "killed" =>
        \A f \in disk : \/ category[f] = "unknown"
                        \/ category[f] = "audio" /\ ~sttSet
                        \/ f \in torn

(***************************************************************************)
(* One bad file spoils nothing: the handler gives up for want of data only *)
(* when every file was tried and neither the items nor any file had        *)
(* anything to say or to show.                                             *)
(***************************************************************************)
GivesUpOnlyOnNothing ==
    outcome = "no_data" => file > NumFiles /\ ~hasText /\ spoken = {} /\ images = {}
=============================================================================
