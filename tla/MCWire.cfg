SPECIFICATION Spec
CONSTANTS
    Ids <- SmallIds
    Texts <- SmallTexts
    MaxRows = 2
INVARIANTS
    TypeOK
    NothingStaleIsSent
    RequestArrives
    ResponseArrives
    PlannedFieldsAreSkipped
