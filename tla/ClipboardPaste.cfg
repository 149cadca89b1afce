SPECIFICATION Spec
CONSTANTS
    MaxRequests = 4
    MaxUserCopies = 2
INVARIANT
    TypeOK
PROPERTIES
    RestoresWhatWasThere
    ClipboardComesBack
CHECK_DEADLOCK FALSE
