------------------------- MODULE FinancePipelineProofs -------------------------
(***************************************************************************)
(* Theorems about FinancePipeline, for any number of files of any          *)
(* categories: its images are there when a provider is asked, it leaves    *)
(* only the files LeavesFew names, and it gives up only on nothing.  And   *)
(* about MediaFiles, for any attachments: it implements FinancePipeline,   *)
(* leaves nothing open, and its readers agree.                             *)
(***************************************************************************)
EXTENDS MediaFiles, TLAPS

USE PipelineConstants

Over == pc \in {"csv", "end"}

\* The file at hand is new, and downloaded when it is routed.
FileAtHand ==
    /\ pc = "download" => disk \subseteq 1..(file - 1)
    /\ pc = "route" => file \in disk /\ file \notin torn \cup images

\* Images stay on disk until the pipeline ends, and then all go.
ImagesKept ==
    /\ torn \cap images = {}
    /\ ~Over => images \subseteq disk
    /\ Over /\ outcome # "killed" => disk \cap images = {}

\* Why each file on disk is still there.
Accounted ==
    outcome # "killed" =>
        \A f \in disk : \/ f \in images
                        \/ category[f] = "unknown"
                        \/ category[f] = "audio" /\ ~sttSet
                        \/ f \in torn
                        \/ pc = "route" /\ f = file

\* Whatever was said is kept until it is joined, and that is after the last file.
AllHeard ==
    /\ \A f \in spoken : \E i \in DOMAIN parts : parts[i] = f
    /\ outcome # "killed" /\ pc \notin {"download", "route"} => file > NumFiles

IInv == TypeOK /\ FileAtHand /\ ImagesKept /\ Accounted /\ AllHeard /\ GivesUpOnlyOnNothing

LEMMA InitIInv == Init => IInv
<1> SUFFICES ASSUME Init PROVE IInv
  OBVIOUS
<1>1. pc \in {"download", "merge"} /\ (pc = "download" => NumFiles >= 1)
  BY DEF Init
<1>2. parts \in Seq(Files) /\ DOMAIN parts = {}
  BY DEF Init
<1>3. /\ file = 1 /\ file \in 1..(NumFiles + 1)
      /\ pc \in {"download", "route"} => file <= NumFiles
      /\ disk \subseteq 1..file /\ torn \subseteq disk /\ spoken \subseteq Files
  BY <1>1 DEF Init
<1>4. TypeOK
  BY <1>1, <1>2, <1>3 DEF Init, TypeOK
<1>5. pc # "download" => file > NumFiles
  BY DEF Init
<1>6. QED
  BY <1>1, <1>2, <1>4, <1>5 DEF Init, IInv, FileAtHand, ImagesKept, Accounted, AllHeard,
       GivesUpOnlyOnNothing, Over

\* Downloading keeps the invariant.
LEMMA DownloadIInv ==
    ASSUME IInv, Download \/ DownloadFails
    PROVE  IInv'
<1>1. CASE Download
  BY <1>1 DEF IInv, TypeOK, FileAtHand, ImagesKept, Accounted, AllHeard,
       GivesUpOnlyOnNothing, Over, Files, Download, inputs
<1>2. CASE DownloadFails
  <2>1. file \notin disk
    BY <1>2 DEF IInv, TypeOK, FileAtHand, DownloadFails
  <2>2. \/ disk' = disk /\ torn' = torn
        \/ disk' = disk \cup {file} /\ torn' = torn \cup {file}
    BY <1>2 DEF DownloadFails
  <2>3. /\ file \in 1..NumFiles /\ file' = file + 1
        /\ disk' \subseteq 1..file /\ torn' \subseteq disk'
    <3>1. file \in 1..(NumFiles + 1) /\ file <= NumFiles /\ file' = file + 1
      BY <1>2 DEF IInv, TypeOK, DownloadFails, NextFile
    <3>2. disk \subseteq 1..file /\ torn \subseteq disk
      BY DEF IInv, TypeOK
    <3>3. file \in 1..file
      BY <3>1
    <3>4. disk' \subseteq 1..file
      <4>1. CASE disk' = disk
        BY <3>2, <4>1
      <4>2. CASE disk' = disk \cup {file}
        BY <3>2, <3>3, <4>2, Zenon
      <4>3. QED
        BY <2>2, <4>1, <4>2
    <3>5. torn' \subseteq disk'
      BY <2>2, <3>2
    <3>6. QED
      BY <3>1, <3>4, <3>5
  <2>4. /\ file' \in 1..(NumFiles + 1) /\ file' - 1 = file /\ disk' \subseteq 1..file'
        /\ pc' \in {"download", "merge"} /\ (pc' = "download" => file' <= NumFiles)
    BY <1>2, <2>3 DEF DownloadFails, NextFile
  <2>5. TypeOK'
    BY <1>2, <2>3, <2>4 DEF IInv, TypeOK, DownloadFails, inputs
  <2>6. FileAtHand'
    BY <2>3, <2>4 DEF FileAtHand
  <2>7. ImagesKept'
    BY <1>2, <2>1, <2>2 DEF IInv, TypeOK, ImagesKept, Over, DownloadFails, NextFile, inputs
  <2>8. Accounted'
    BY <1>2, <2>2 DEF IInv, TypeOK, Accounted, DownloadFails, NextFile, inputs
  <2>9. AllHeard' /\ GivesUpOnlyOnNothing'
    BY <1>2, <2>3 DEF IInv, TypeOK, AllHeard, GivesUpOnlyOnNothing, DownloadFails, NextFile, inputs
  <2>10. QED
    BY <2>5, <2>6, <2>7, <2>8, <2>9 DEF IInv
<1>3. QED
  BY <1>1, <1>2

\* Files that are kept or skipped, and the adapter for recordings.
LEMMA RouteIInv ==
    ASSUME IInv, KeepImage \/ SkipUnknown \/ StartStt \/ SttUnavailable
    PROVE  IInv'
<1> USE DEF IInv, TypeOK, FileAtHand, ImagesKept, Accounted, AllHeard,
       GivesUpOnlyOnNothing, Over, Files, Is, NextFile, inputs
<1>1. CASE KeepImage
  BY <1>1 DEF KeepImage
<1>2. CASE SkipUnknown
  BY <1>2 DEF SkipUnknown
<1>3. CASE StartStt
  BY <1>3 DEF StartStt
<1>4. CASE SttUnavailable
  BY <1>4 DEF SttUnavailable
<1>5. QED
  BY <1>1, <1>2, <1>3, <1>4

\* A file that is read goes, whether it had anything to say or not.
LEMMA ParseIInv ==
    ASSUME IInv, Parse \/ ParseFails
    PROVE  IInv'
<1>1. category[file] \in {"audio", "document"} /\ file \notin images /\ file \notin torn
  BY DEF IInv, TypeOK, FileAtHand, Parse, ParseFails, Readable, Is
<1>2. CASE Parse
  <2>1. file \in Files /\ parts \in Seq(Files)
    BY <1>2 DEF IInv, TypeOK, Parse, Readable, Is, Files
  <2>2. /\ category' = category /\ spoken \subseteq Files
        /\ \A f \in spoken : \E i \in DOMAIN parts : parts[i] = f
        /\ \A i \in DOMAIN parts : category[parts[i]] \in {"audio", "document"}
    BY <1>2 DEF IInv, TypeOK, AllHeard, Parse, inputs
  <2>3. /\ parts' \in Seq(Files) /\ spoken' \subseteq Files
        /\ \A f \in spoken' : \E i \in DOMAIN parts' : parts'[i] = f
        /\ \A i \in DOMAIN parts' : category'[parts'[i]] \in {"audio", "document"}
    <3>1. CASE parts' = Append(parts, file) /\ spoken' = spoken \cup {file}
      <4>1. /\ parts' \in Seq(Files)
            /\ DOMAIN parts' = 1..(Len(parts) + 1)
            /\ parts'[Len(parts) + 1] = file
            /\ \A i \in 1..Len(parts) : parts'[i] = parts[i]
        BY <2>1, <3>1
      <4>2. DOMAIN parts = 1..Len(parts) /\ Len(parts) \in Nat
        BY <2>1
      <4>3. \A f \in spoken' : \E i \in DOMAIN parts' : parts'[i] = f
        BY <2>2, <3>1, <4>1, <4>2
      <4>4. \A i \in DOMAIN parts' : category[parts'[i]] \in {"audio", "document"}
        BY <1>1, <2>2, <4>1, <4>2
      <4>5. spoken' \subseteq Files
        BY <2>1, <2>2, <3>1
      <4>6. QED
        BY <2>2, <4>1, <4>3, <4>4, <4>5
    <3>2. CASE UNCHANGED <<parts, spoken>>
      BY <2>1, <2>2, <3>2
    <3>3. QED
      BY <1>2, <3>1, <3>2 DEF Parse
  <2>5. TypeOK'
    BY <1>1, <1>2, <2>3
       DEF IInv, TypeOK, FileAtHand, Parse, Readable, Is, NextFile, inputs, Files
  <2>6. FileAtHand' /\ ImagesKept' /\ Accounted'
    BY <1>1, <1>2 DEF IInv, TypeOK, FileAtHand, ImagesKept, Accounted, Over, Parse, Readable, Is,
       NextFile, inputs
  <2>7. AllHeard' /\ GivesUpOnlyOnNothing'
    BY <1>2, <2>3 DEF IInv, TypeOK, AllHeard, GivesUpOnlyOnNothing, Parse, Readable, Is,
       NextFile, inputs
  <2>8. QED
    BY <2>5, <2>6, <2>7 DEF IInv
<1>3. CASE ParseFails
  BY <1>1, <1>3 DEF IInv, TypeOK, FileAtHand, ImagesKept, Accounted, AllHeard,
       GivesUpOnlyOnNothing, Over, Files, ParseFails, Readable, Is, NextFile, inputs
<1>4. QED
  BY <1>2, <1>3

\* Joining the text gives up only when there is none.
LEMMA MergeIInv ==
    ASSUME IInv, Merge
    PROVE  IInv'
<1>1. parts = <<>> => spoken = {}
  BY DEF IInv, AllHeard
<1>2. QED
  BY <1>1 DEF IInv, TypeOK, FileAtHand, ImagesKept, Accounted, AllHeard,
       GivesUpOnlyOnNothing, Over, Files, Merge, Ends, inputs

\* Asking ends with the images removed, or goes on with them in place.
LEMMA AskIInv ==
    ASSUME IInv, Answers \/ PrimaryFails \/ FallbackFails \/ AskRaises
    PROVE  IInv'
<1> USE DEF IInv, TypeOK, FileAtHand, ImagesKept, Accounted, AllHeard,
       GivesUpOnlyOnNothing, Over, Files, Asking, Finish, Ends, inputs
<1>1. CASE Answers
  BY <1>1 DEF Answers
<1>2. CASE PrimaryFails
  BY <1>2 DEF PrimaryFails
<1>3. CASE FallbackFails
  BY <1>3 DEF FallbackFails
<1>4. CASE AskRaises
  BY <1>4 DEF AskRaises
<1>5. QED
  BY <1>1, <1>2, <1>3, <1>4

\* The CSV and the limits leave the files alone.
LEMMA EndIInv ==
    ASSUME IInv, WriteCsv \/ WriteCsvFails \/ SoftLimit \/ Kill
    PROVE  IInv'
<1> USE DEF IInv, TypeOK, FileAtHand, ImagesKept, Accounted, AllHeard,
       GivesUpOnlyOnNothing, Over, Files, inputs
<1>1. CASE WriteCsv
  BY <1>1 DEF WriteCsv
<1>2. CASE WriteCsvFails
  BY <1>2 DEF WriteCsvFails
<1>3. CASE SoftLimit
  BY <1>3 DEF SoftLimit
<1>4. CASE Kill
  BY <1>4 DEF Kill
<1>5. QED
  BY <1>1, <1>2, <1>3, <1>4

LEMMA NextIInv == IInv /\ [Next]_vars => IInv'
<1> SUFFICES ASSUME IInv, [Next]_vars PROVE IInv'
  OBVIOUS
<1>1. CASE UNCHANGED vars
  BY <1>1 DEF vars, IInv, TypeOK, FileAtHand, ImagesKept, Accounted, AllHeard,
       GivesUpOnlyOnNothing, Over
<1>2. CASE Next
  BY <1>2, DownloadIInv, RouteIInv, ParseIInv, MergeIInv, AskIInv, EndIInv DEF Next
<1>3. QED
  BY <1>1, <1>2

LEMMA AlwaysIInv == Spec => []IInv
BY InitIInv, NextIInv, PTL DEF Spec

\* The type invariant, for any number of files.
THEOREM TypeCorrect == Spec => []TypeOK
<1>1. IInv => TypeOK
  BY DEF IInv
<1>2. QED
  BY <1>1, AlwaysIInv, PTL

\* No provider, first or second, is ever shown an image that is gone.
THEOREM ImagesAreThereAlways == Spec => []ImagesAreThere
<1>1. IInv => ImagesAreThere
  BY DEF IInv, ImagesKept, ImagesAreThere, Asking, Over
<1>2. QED
  BY <1>1, AlwaysIInv, PTL

\* What is on disk when the handler has ended is exactly of the kinds named.
THEOREM LeavesFewAlways == Spec => []LeavesFew
<1>1. IInv => LeavesFew
  BY DEF IInv, TypeOK, ImagesKept, Accounted, LeavesFew, Over
<1>2. QED
  BY <1>1, AlwaysIInv, PTL

\* One bad file never makes the handler give up on what the others brought.
THEOREM GivesUpOnlyOnNothingAlways == Spec => []GivesUpOnlyOnNothing
<1>1. IInv => GivesUpOnlyOnNothing
  BY DEF IInv
<1>2. QED
  BY <1>1, AlwaysIInv, PTL

-----------------------------------------------------------------------------
(***************************************************************************)
(* MediaFiles.  Every step is one of FinancePipeline's, or loads a file.   *)
(***************************************************************************)
LEMMA StepImplements == [MediaNext]_mvars => [Next]_vars
<1>1. Elsewhere \/ Miss \/ ParseDocument \/ MergeParts \/ Ask => Next
  BY DEF Elsewhere, Miss, ParseDocument, MergeParts, Ask, Next
<1>2. Refuse \/ Transcribe \/ ConvertFails \/ Recognize => Next
  BY DEF Refuse, Transcribe, ConvertFails, Recognize, Next
<1>3. Convert \/ Load => UNCHANGED vars
  BY DEF Convert, Load
<1>4. UNCHANGED mvars => UNCHANGED vars
  BY DEF mvars
<1>5. QED
  BY <1>1, <1>2, <1>3, <1>4 DEF MediaNext

(***************************************************************************)
(* With its readers spelled out the handler does nothing FinancePipeline   *)
(* does not allow, so the theorems above hold of MediaFiles as well.       *)
(***************************************************************************)
THEOREM MediaImplementsPipeline == MediaSpec => ImplementsPipeline
<1>1. MediaInit => Init
  BY DEF MediaInit
<1>2. QED
  BY <1>1, StepImplements, PTL DEF MediaSpec, ImplementsPipeline

\* The category of a file is what its adapter's type says.
Categorized ==
    /\ sent \in [Files -> Attachments]
    /\ category = [f \in Files |-> CategoryOf(FileType(sent[f]))]

ChannelInUse == channel => pc \in {"download", "route", "merge"} \/ outcome = "killed"

\* A directory belongs to a recording Riva converts, and to none that was read.
Directories ==
    /\ temps \cap read = {} /\ (temps # {} => riva)
    /\ temps \subseteq {f \in Files : Extension(FileType(sent[f])) \in NeedConversion}

\* Files are read in order, and images after all others.
ReadBefore == \A f \in read : category[f] = "image" \/ f \in 1..(file - 1)

\* The exceptions of ReadersAgree.
Excepted(f) ==
    \/ sent[f].content \notin Understood
    \/ FileType(sent[f]) \in {"none", "octets"}
    \/ sent[f].form = "video"
    \/ sent[f].named = "alias" /\ sent[f].content \notin Images
    \/ FileType(sent[f]) \in Supported \ Mapped
    \/ category[f] = "audio" /\ f \in big

\* No file is passed over but for a reason.
Passed ==
    \A f \in Files : f < file => f \in read \cup missed \cup images \/ Excepted(f)

ImagesRead == pc = "csv" \/ outcome = "rows" => images \subseteq read

MInv ==
    /\ IInv /\ Categorized /\ ChannelInUse /\ Directories
    /\ ReadBefore /\ Passed /\ ImagesRead

-----------------------------------------------------------------------------
(* The tables. *)

LEMMA AttachmentForms ==
    ASSUME NEW a, IsAttachment(a)
    PROVE  /\ \/ a.via = "TG" /\ a.form \in {"photo", "document"}
              \/ a.via = "YM" /\ a.form \in {"image", "file"}
              \/ a.via = "MX" /\ a.form \in {"image", "video", "audio", "file"}
           /\ a.content \in Contents /\ a.named \in {"type", "alias", "no"}
<1>1. /\ DOMAIN Forms = {"TG", "YM", "MX"}
      /\ Forms["TG"] = {"photo", "document"} /\ Forms["YM"] = {"image", "file"}
      /\ Forms["MX"] = {"image", "video", "audio", "file"}
  BY DEF Forms
<1>2. /\ a.via \in DOMAIN Forms /\ a.form \in Forms[a.via] /\ a.content \in Contents
      /\ a.named \in {"type", "alias", "no"}
  BY DEF IsAttachment
<1>3. CASE a.via = "TG"
  BY <1>1, <1>2, <1>3
<1>4. CASE a.via = "YM"
  BY <1>1, <1>2, <1>4
<1>5. CASE a.via = "MX"
  BY <1>1, <1>2, <1>5
<1>6. QED
  BY <1>1, <1>2, <1>3, <1>4, <1>5

\* The type is that of the content, unless a form, an alias or a missing name decides it.
LEMMA TypeOfAttachment ==
    ASSUME NEW a, IsAttachment(a)
    PROVE  \/ FileType(a) = a.content
           \/ FileType(a) \in {"jpeg", "ogg", "none", "octets"}
           \/ a.form = "video"
           \/ a.named = "alias" /\ (a.content \in Images => FileType(a) = "heic")
<1>1. a.named # "no" =>
        \/ AsNamed(a) = a.content
        \/ a.named = "alias" /\ (a.content \in Images => AsNamed(a) = "heic")
  <2>1. CASE a.named = "type"
    BY <2>1 DEF AsNamed
  <2>2. CASE a.named = "alias" /\ a.content \in Images
    BY <2>2 DEF AsNamed
  <2>3. CASE a.named = "alias" /\ a.content \notin Images
    BY <2>3
  <2>4. QED
    BY <2>1, <2>2, <2>3, AttachmentForms
<1>2. CASE a.via = "TG"
  <2>1. FileType(a) \in {"jpeg", "none"} \/ (a.named # "no" /\ FileType(a) = AsNamed(a))
    BY <1>2 DEF FileType, TelegramType
  <2>2. QED
    BY <1>1, <2>1
<1>3. CASE a.via = "YM"
  BY <1>3 DEF FileType, YandexType
<1>4. CASE a.via = "MX"
  <2>1. \/ FileType(a) \in {"jpeg", "ogg", "octets"} \/ a.form = "video"
        \/ a.named # "no" /\ FileType(a) = AsNamed(a)
    BY <1>4 DEF FileType, MaxType
  <2>2. QED
    BY <1>1, <2>1
<1>5. QED
  BY <1>2, <1>3, <1>4, AttachmentForms

LEMMA UnknownIsExcepted ==
    ASSUME Categorized, NEW f \in Files, category[f] = "unknown"
    PROVE  Excepted(f)
<1>1. IsAttachment(sent[f]) /\ CategoryOf(FileType(sent[f])) = "unknown"
  BY MediaConstants DEF Categorized
<1>2. FileType(sent[f]) \notin Images \cup Recordings \cup Documents
  BY <1>1 DEF CategoryOf, Images, Recordings, Documents
<1>3. QED
  BY <1>1, <1>2, TypeOfAttachment
     DEF Excepted, Understood, Supported, Images, Recordings, Documents

\* A recording both providers refuse for its type is of a type the mapping lacks.
LEMMA RefusedIsExcepted ==
    ASSUME Categorized, NEW f \in Files, category[f] = "audio",
           Extension(FileType(sent[f])) \notin Supported
    PROVE  Excepted(f)
<1>1. IsAttachment(sent[f]) /\ CategoryOf(FileType(sent[f])) = "audio"
  BY MediaConstants DEF Categorized
<1>2. FileType(sent[f]) \in Recordings
  BY <1>1 DEF CategoryOf
<1>3. FileType(sent[f]) \in {"flac", "aac"}
  BY <1>2 DEF Recordings, Extension, Mapped, Supported
<1>4. CASE FileType(sent[f]) = "flac"
  BY <1>4 DEF Excepted, Supported, Mapped
<1>5. CASE FileType(sent[f]) = "aac"
  BY <1>1, <1>5, TypeOfAttachment DEF Excepted, Understood, Supported, Documents
<1>6. QED
  BY <1>3, <1>4, <1>5

\* Only recordings are converted.
LEMMA ConvertedIsAudio ==
    ASSUME Categorized, NEW f \in Files, Extension(FileType(sent[f])) \in NeedConversion
    PROVE  category[f] = "audio"
<1>1. FileType(sent[f]) \in {"ogg", "webm"}
  BY DEF Extension, Mapped, NeedConversion
<1>2. QED
  BY <1>1 DEF Categorized, CategoryOf, Images, Recordings, Documents

-----------------------------------------------------------------------------
(* The steps. *)

LEMMA MediaInitInv == MediaInit => MInv
<1> SUFFICES ASSUME MediaInit PROVE MInv
  OBVIOUS
<1>1. IInv
  BY InitIInv DEF MediaInit
<1>2. QED
  BY <1>1 DEF MediaInit, Init, MInv, Categorized, ChannelInUse, Directories, ReadBefore, Passed,
              ImagesRead, Files

LEMMA PassedOn ==
    ASSUME MInv, UNCHANGED <<category, sent, big>>,
           read \subseteq read', missed \subseteq missed', images \subseteq images',
           \/ file' = file
           \/ /\ file' = file + 1
              /\ file \in read' \cup missed' \cup images' \/ Excepted(file)
    PROVE  Passed' /\ (read' = read => ReadBefore')
<1>1. file \in Int
  BY DEF MInv, IInv, TypeOK
<1>2. ASSUME NEW f \in Files, f < file'
      PROVE  (f \in read \cup missed \cup images \/ Excepted(f)) \/ (f = file /\ file' = file + 1)
  BY <1>1, <1>2 DEF MInv, Passed, Files
<1>3. Passed'
  <2>1. Files' = Files /\ \A f \in Files : Excepted(f)' <=> Excepted(f)
    BY DEF Files, Excepted
  <2>2. ASSUME NEW f \in Files, f < file'
        PROVE  f \in read' \cup missed' \cup images' \/ Excepted(f)
    BY <1>1, <1>2, <2>2
  <2>3. QED
    BY <2>1, <2>2 DEF Passed
<1>4. ASSUME read' = read
      PROVE  ReadBefore'
  <2>1. ASSUME NEW f \in read
        PROVE  category[f] = "image" \/ f \in 1..(file' - 1)
    <3>1. CASE file' = file
      BY <3>1 DEF MInv, ReadBefore
    <3>2. CASE file' = file + 1
      BY <1>1, <3>2 DEF MInv, ReadBefore
    <3>3. QED
      BY <3>1, <3>2
  <2>2. QED
    BY <1>4, <2>1 DEF ReadBefore
<1>5. QED
  BY <1>3, <1>4

\* A step that opens nothing and reads nothing, and ends no call with rows but from "csv".
LEMMA PipelineSteps ==
    ASSUME MInv, IInv', Categorized', UNCHANGED <<riva, temps, read>>, channel' = channel,
           missed \subseteq missed', images \subseteq images', UNCHANGED <<category, sent, big>>,
           \/ file' = file
           \/ /\ file' = file + 1
              /\ file \in missed' \cup images' \/ Excepted(file),
           channel => pc' \in {"download", "route", "merge"} \/ outcome' = "killed",
           pc' = "csv" \/ outcome' = "rows" => images' \subseteq read
    PROVE  MInv'
<1>1. Passed' /\ ReadBefore'
  BY PassedOn
<1>2. ChannelInUse' /\ Directories' /\ ImagesRead'
  BY DEF MInv, ChannelInUse, Directories, ImagesRead
<1>3. QED
  BY <1>1, <1>2 DEF MInv

\* What holds after any step.
LEMMA AfterStep ==
    ASSUME MInv, MediaNext
    PROVE  IInv' /\ Categorized' /\ UNCHANGED <<category, sent, big, riva>>
<1>1. IInv'
  BY StepImplements, NextIInv DEF MInv
<1>2. UNCHANGED <<sent, big, riva>>
  BY DEF MediaNext, Elsewhere, Miss, ParseDocument, Refuse, Transcribe, Convert, ConvertFails,
         Load, Recognize, MergeParts, Ask, Inputs
<1>3. UNCHANGED category
  <2>1. Next => UNCHANGED category
    BY DEF Next, Download, DownloadFails, KeepImage, SkipUnknown, StartStt, SttUnavailable,
           Parse, ParseFails, Merge, Answers, PrimaryFails, FallbackFails, AskRaises,
           WriteCsv, WriteCsvFails, SoftLimit, Kill, inputs
  <2>2. QED
    BY <2>1, StepImplements DEF vars
<1>4. QED
  BY <1>1, <1>2, <1>3 DEF MInv, Categorized

LEMMA ElsewhereMInv ==
    ASSUME MInv, Elsewhere
    PROVE  MInv'
<1>1. MediaNext /\ UNCHANGED <<Inputs, media>>
  BY DEF MediaNext, Elsewhere
<1>2. /\ IInv' /\ Categorized' /\ UNCHANGED <<category, sent, big, riva>>
      /\ UNCHANGED <<temps, read, channel, missed>>
  BY <1>1, AfterStep DEF media
<1>3. /\ outcome # "none" <=> pc = "end"
      /\ channel => pc \in {"download", "route", "merge"} \/ outcome = "killed"
      /\ pc = "csv" \/ outcome = "rows" => images \subseteq read
      /\ pc \in {"download", "route", "merge", "primary", "fallback", "csv", "end"}
  BY DEF MInv, IInv, TypeOK, ChannelInUse, ImagesRead
<1>4. CASE Download \/ StartStt
  <2>1. file' = file /\ images' = images /\ outcome' = outcome /\ pc' = "route" /\ pc # "end"
    BY <1>4 DEF Download, StartStt, Is
  <2>2. QED
    BY <1>2, <1>3, <2>1, PipelineSteps
<1>5. CASE KeepImage \/ SkipUnknown
  <2>1. /\ file' = file + 1 /\ images \subseteq images' /\ outcome' = outcome
        /\ pc = "route" /\ pc' \in {"download", "merge"}
        /\ file \in images' \/ category[file] = "unknown"
    BY <1>5 DEF KeepImage, SkipUnknown, Is, NextFile
  <2>2. file \in Files
    BY <2>1 DEF MInv, IInv, TypeOK, Files
  <2>3. file \in images' \/ Excepted(file)
    BY <2>1, <2>2, UnknownIsExcepted DEF MInv
  <2>4. QED
    BY <1>2, <1>3, <2>1, <2>3, PipelineSteps
<1>6. CASE PrimaryFails \/ FallbackFails \/ AskRaises
  <2>1. /\ file' = file /\ images' = images /\ pc \in {"primary", "fallback"}
        /\ pc' \in {"fallback", "end"}
        /\ outcome' \in {outcome, "no_rows", "retry", "fatal", "interrupted"}
    BY <1>6 DEF PrimaryFails, FallbackFails, AskRaises, Finish, Ends, Asking
  <2>2. QED
    BY <1>2, <1>3, <2>1, PipelineSteps
<1>7. CASE WriteCsv \/ WriteCsvFails
  <2>1. /\ file' = file /\ images' = images /\ pc = "csv"
        /\ pc' = "end" /\ outcome' \in {"rows", "fatal", "interrupted"}
    BY <1>7 DEF WriteCsv, WriteCsvFails
  <2>2. QED
    BY <1>2, <1>3, <2>1, PipelineSteps
<1>8. CASE SoftLimit \/ Kill
  <2>1. /\ file' = file /\ images' = images
        /\ (pc' = pc /\ outcome' = outcome) \/ (pc' = "end" /\ outcome' = "killed")
    BY <1>8 DEF SoftLimit, Kill
  <2>2. QED
    BY <1>2, <1>3, <2>1, PipelineSteps
<1>9. QED
  BY <1>4, <1>5, <1>6, <1>7, <1>8 DEF Elsewhere

\* The file at hand is left behind, read or not; what a reader did is in its own lemma.
LEMMA FileDone ==
    ASSUME MInv, MediaNext, NextFile, pc \in {"download", "route"}, UNCHANGED outcome
    PROVE  /\ file \in Files /\ file' = file + 1 /\ pc' \in {"download", "merge"}
           /\ outcome' = "none" /\ pc # "end"
BY DEF NextFile, MInv, IInv, TypeOK, Files

LEMMA NotReadMInv ==
    ASSUME MInv, Miss \/ Refuse
    PROVE  MInv'
<1>1. MediaNext
  BY DEF MediaNext
<1>2. IInv' /\ Categorized' /\ UNCHANGED <<category, sent, big, riva>>
  BY <1>1, AfterStep
<1>3. /\ NextFile /\ pc \in {"download", "route"} /\ images' = images
      /\ UNCHANGED <<temps, read, channel, outcome>> /\ missed \subseteq missed'
  BY DEF Miss, Misses, Refuse, DownloadFails, SttUnavailable, ParseFails, Transcribing, Is, media
<1>4. file \in Files /\ file' = file + 1 /\ pc' \in {"download", "merge"} /\ outcome' = "none"
  BY <1>1, <1>3, FileDone
<1>5. file \in missed' \/ Excepted(file)
  <2>1. CASE Miss
    BY <2>1 DEF Miss, Misses
  <2>2. CASE Refuse
    <3>1. category[file] = "audio" /\ (Suffix \notin Supported \/ file \in big)
      BY <2>2 DEF Refuse, Transcribing, Is, Acceptable
    <3>2. QED
      BY <1>4, <3>1, RefusedIsExcepted DEF Suffix, Excepted, MInv
  <2>3. QED
    BY <2>1, <2>2
<1>6. QED
  BY <1>2, <1>3, <1>4, <1>5, PipelineSteps

\* A reader that only reads: a parser, or Groq.
LEMMA ReadMInv ==
    ASSUME MInv, ParseDocument \/ Transcribe \/ Recognize
    PROVE  MInv'
<1>1. MediaNext
  BY DEF MediaNext
<1>2. IInv' /\ Categorized' /\ UNCHANGED <<category, sent, big, riva>>
  BY <1>1, AfterStep
<1>3. /\ NextFile /\ pc = "route" /\ images' = images /\ UNCHANGED <<outcome, missed>>
      /\ read' = read \cup {file}
  BY DEF ParseDocument, Transcribe, Recognize, Reads, Parse, ParseFails, Transcribing, Is
<1>4. /\ file \in Files /\ file' = file + 1 /\ pc' \in {"download", "merge"}
      /\ outcome' = "none" /\ file \in Int
  BY <1>1, <1>3, FileDone DEF Files
<1>5. Passed'
  BY <1>2, <1>3, <1>4, PassedOn
<1>6. ReadBefore'
  BY <1>2, <1>3, <1>4 DEF MInv, ReadBefore, Files
<1>7. ChannelInUse' /\ ImagesRead'
  BY <1>3, <1>4 DEF ChannelInUse, ImagesRead
<1>8. Directories'
  <2>1. temps' \subseteq temps /\ file \notin temps'
    <3>1. CASE ParseDocument
      <4>1. category[file] = "document" /\ temps' = temps
        BY <3>1 DEF ParseDocument, Is
      <4>2. QED
        BY <1>4, <4>1, ConvertedIsAudio DEF MInv, Directories
    <3>2. CASE Transcribe
      BY <3>2 DEF Transcribe, MInv, Directories
    <3>3. CASE Recognize
      BY <3>3 DEF Recognize
    <3>4. QED
      BY <3>1, <3>2, <3>3
  <2>2. QED
    BY <1>2, <1>3, <2>1 DEF MInv, Directories
<1>9. QED
  BY <1>2, <1>5, <1>6, <1>7, <1>8 DEF MInv

\* Riva's conversion of a recording that nobody has read yet.
LEMMA ConvertMInv ==
    ASSUME MInv, Convert \/ ConvertFails \/ Load
    PROVE  MInv'
<1>1. MediaNext
  BY DEF MediaNext
<1>2. IInv' /\ Categorized' /\ UNCHANGED <<category, sent, big, riva>>
  BY <1>1, AfterStep
<1>3. /\ pc = "route" /\ category[file] = "audio" /\ riva
      /\ temps' \in {temps, temps \cup {file}}
      /\ temps' # temps => Extension(FileType(sent[file])) \in NeedConversion
      /\ UNCHANGED <<read, channel, images, outcome>>
  BY DEF Convert, ConvertFails, Load, Transcribing, Is, Suffix, ParseFails, vars, Misses
<1>4. file \in Files /\ file \in Int /\ file \notin read /\ outcome = "none"
  BY <1>3 DEF MInv, IInv, TypeOK, Files, ReadBefore
<1>5. Directories'
  BY <1>2, <1>3, <1>4 DEF MInv, Directories
<1>6. CASE ConvertFails
  <2>1. NextFile /\ missed' = missed \cup {file}
    BY <1>6 DEF ConvertFails, ParseFails, Misses
  <2>2. file' = file + 1 /\ pc' \in {"download", "merge"}
    BY <2>1 DEF NextFile
  <2>3. Passed' /\ ReadBefore'
    BY <1>2, <1>3, <2>1, <2>2, PassedOn
  <2>4. ChannelInUse' /\ ImagesRead'
    BY <1>3, <1>4, <2>2 DEF ChannelInUse, ImagesRead
  <2>5. QED
    BY <1>2, <1>5, <2>3, <2>4 DEF MInv
<1>7. CASE Convert \/ Load
  <2>1. UNCHANGED <<pc, file, missed>>
    BY <1>7 DEF Convert, Load, vars
  <2>2. Passed' /\ ReadBefore'
    BY <1>2, <1>3, <2>1, PassedOn
  <2>3. ChannelInUse' /\ ImagesRead'
    BY <1>3, <2>1 DEF MInv, ChannelInUse, ImagesRead
  <2>4. QED
    BY <1>2, <1>5, <2>2, <2>3 DEF MInv
<1>8. QED
  BY <1>6, <1>7

LEMMA MergeMInv ==
    ASSUME MInv, MergeParts
    PROVE  MInv'
<1>1. IInv' /\ Categorized' /\ UNCHANGED <<category, sent, big, riva>>
  BY AfterStep DEF MediaNext
<1>2. /\ UNCHANGED <<temps, read, missed, file, images>> /\ ~channel'
      /\ pc = "merge" /\ pc' \in {"primary", "end"}
      /\ outcome' \in {outcome, "no_data", "interrupted"}
  BY DEF MergeParts, Merge, Ends
<1>3. outcome = "none"
  BY <1>2 DEF MInv, IInv, TypeOK
<1>4. Passed' /\ ReadBefore'
  BY <1>1, <1>2, PassedOn
<1>5. QED
  BY <1>1, <1>2, <1>3, <1>4 DEF MInv, ChannelInUse, Directories, ImagesRead

\* The provider that answers has been shown every image.
LEMMA AskMInv ==
    ASSUME MInv, Ask
    PROVE  MInv'
<1>1. IInv' /\ Categorized' /\ UNCHANGED <<category, sent, big, riva>>
  BY AfterStep DEF MediaNext
<1>2. /\ UNCHANGED <<temps, channel, missed, file, images>> /\ read' = read \cup images
      /\ pc \in {"primary", "fallback"}
  BY DEF Ask, Answers, Asking
<1>3. ~channel
  BY <1>2 DEF MInv, IInv, TypeOK, ChannelInUse
<1>4. \A f \in images : category[f] = "image"
  BY DEF MInv, IInv, TypeOK
<1>5. Passed' /\ ReadBefore'
  BY <1>1, <1>2, <1>4, PassedOn DEF MInv, ReadBefore
<1>6. Directories'
  BY <1>1, <1>2, <1>4, ConvertedIsAudio DEF MInv, Directories
<1>7. QED
  BY <1>1, <1>2, <1>3, <1>5, <1>6 DEF MInv, ChannelInUse, ImagesRead

LEMMA MediaInvariance == MInv /\ [MediaNext]_mvars => MInv'
<1> SUFFICES ASSUME MInv, [MediaNext]_mvars PROVE MInv'
  OBVIOUS
<1>1. CASE MediaNext
  BY <1>1, ElsewhereMInv, NotReadMInv, ReadMInv, ConvertMInv, MergeMInv, AskMInv DEF MediaNext
<1>2. CASE UNCHANGED mvars
  <2>1. IInv'
    BY <1>2, StepImplements, NextIInv DEF MInv
  <2>2. QED
    BY <1>2, <2>1 DEF mvars, vars, Inputs, media, MInv, Categorized, ChannelInUse, Directories,
                      ReadBefore, Passed, Excepted, ImagesRead
<1>3. QED
  BY <1>1, <1>2

LEMMA MediaInvariant == MediaSpec => []MInv
BY MediaInitInv, MediaInvariance, PTL DEF MediaSpec

\* No channel outlives the merge, and no directory but that of a failed conversion the call.
THEOREM NothingOpenAlways == MediaSpec => []NothingOpen
<1>1. MInv => NothingOpen
  BY DEF MInv, ChannelInUse, Directories, NothingOpen
<1>2. QED
  BY <1>1, MediaInvariant, PTL

(***************************************************************************)
(* By Passed no file is left behind unread without a reason, and when rows *)
(* come back all files are behind, the images read last.  The reasons are  *)
(* those ReadersAgree names: where the tables do not agree, as on flac, it *)
(* says so.                                                                *)
(***************************************************************************)
THEOREM ReadersAgreeAlways == MediaSpec => []ReadersAgree
<1>1. MInv => ReadersAgree
  <2> SUFFICES ASSUME MInv, outcome = "rows", NEW f \in Files
               PROVE  f \in read \/ f \in missed \/ Excepted(f)
    BY DEF ReadersAgree, Excepted
  <2>1. pc = "end" /\ file > NumFiles
    BY DEF MInv, IInv, TypeOK, AllHeard
  <2>2. f < file
    BY <2>1 DEF Files, MInv, IInv, TypeOK
  <2>3. QED
    BY <2>2 DEF MInv, Passed, ImagesRead
<1>2. QED
  BY <1>1, MediaInvariant, PTL
=============================================================================
