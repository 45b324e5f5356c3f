SPECIFICATION Spec
CONSTANTS
    b1 = b1
    m1 = m1
    m2 = m2
    Buyers <- OneBuyer
    Messages <- TwoMessages
    Fields <- ExtractFields
    Titles = {"call"}
    Stages = {"won"}
    NoStage = NoStage
    TaskLimit = 3
    Deliveries = {d1, d2}
    Batches <- Singles
    Sender <- SenderOne
    AsksHuman = {}
    HandoffConfigs <- OnlyMuting
    HumanSends = {h1}
    Hours = {0, 1}
    ExtractorEnabled = FALSE
    Stride = 2
    Results <- NoResults
    MaxItems = 5
    Faults = {}
    OperatorEdits = {}
    MaxNow = 2
PROPERTIES
    BotSilentOncePaused
