CONSTANTS
    MaxVersions = 3
SPECIFICATION Spec
PROPERTIES LoadedChangesAreKept TypingIsKept CreatedOnce
CHECK_DEADLOCK FALSE
