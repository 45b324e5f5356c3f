SPECIFICATION Spec
CONSTANTS
    b1 = b1
    m1 = m1
    m2 = m2
    Buyers <- OneBuyer
    Messages <- TwoMessages
    Fields <- ExtractFields
    Titles = {"call"}
    Stages = {"won"}
    NoStage = NoStage
    TaskLimit = 1
    Deliveries = {d1, d2}
    Batches <- Singles
    Sender <- SenderOne
    AsksHuman = {m1}
    HandoffConfigs <- OnlyOff
    HumanSends = {}
    Hours = {1}
    ExtractorEnabled = TRUE
    Stride = 1
    Results <- SomeResults
    MaxItems = 1
    Faults = {"crm"}
    OperatorEdits = {"contact", "task"}
    MaxNow = 1
INVARIANTS
    OneRowPerExternalId
PROPERTIES
    TurnCountNeverLost
    DeletedContactStaysDeleted
    NoDuplicateOpenTask
