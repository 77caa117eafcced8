\* Two files of one messenger, either STT provider, no disk faults.
SPECIFICATION MediaSpec
CONSTANTS
    NumFiles = 2
    Faults = {"limits"}
    Attachments <- MCAttachments
INVARIANTS NothingOpen ReadersAgree
PROPERTIES ImplementsPipeline
CHECK_DEADLOCK FALSE
