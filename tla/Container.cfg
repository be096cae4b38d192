SPECIFICATION Spec
CONSTANTS
    MaxArguments = 8
    MaxBytes = 9
    MaxValueBytes = 4
    MaxRelabels = 2
    Parts <- MCParts
    Containers <- MCContainers
INVARIANTS
    FieldsFaithful
    CommandReadAsPodman
    HintsTellTheCommand
    ConflictsAreReal
    RelationshipsExact
    MalformedIsReported
CHECK_DEADLOCK FALSE
