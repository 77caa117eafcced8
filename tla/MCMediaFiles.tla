----------------------------- MODULE MCMediaFiles -----------------------------
\* Two files: what the three messengers call what they send, type by type.
EXTENDS MediaFiles, TLC

A(via, form, content, named) ==
    [via |-> via, form |-> form, content |-> content, named |-> named]

MCAttachments ==
    {A("TG", "photo", "jpeg", "no"), A("TG", "document", "pdf", "no")}
        \cup {A("TG", "document", c, "type") :
                 c \in {"jpeg", "ogg", "webm", "opus", "flac", "aac", "pdf", "heic"}}
        \cup {A("TG", "document", c, "alias") : c \in {"jpeg", "wav", "pdf"}}
        \cup {A("YM", "image", "jpeg", "no"), A("YM", "file", "pdf", "no"),
              A("YM", "file", "ogg", "alias")}
        \cup {A("YM", "file", c, "type") : c \in {"jpeg", "ogg", "wav", "opus", "docx", "csv"}}
        \cup {A("MX", "image", "jpeg", "no"), A("MX", "video", "mp4", "no"),
              A("MX", "audio", "ogg", "no"), A("MX", "audio", "flac", "no"),
              A("MX", "audio", "wav", "type"), A("MX", "audio", "aac", "type"),
              A("MX", "audio", "opus", "alias"), A("MX", "file", "flac", "type"),
              A("MX", "file", "pdf", "type"), A("MX", "file", "csv", "type"),
              A("MX", "file", "docx", "no")}
=============================================================================
