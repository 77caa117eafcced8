\* Three files of any categories; disk and time limits fail.
SPECIFICATION Spec
CONSTANTS
    NumFiles = 3
    Faults = {"disk", "limits"}
INVARIANTS TypeOK ImagesAreThere LeavesFew GivesUpOnlyOnNothing
CHECK_DEADLOCK FALSE
