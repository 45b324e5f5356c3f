SPECIFICATION FairSpec
CONSTANTS
    b1 = b1
    m1 = m1
    m2 = m2
    Buyers <- OneBuyer
    Messages <- TwoMessages
    Fields <- ExtractFields
    Titles = {"call"}
    Stages = {"won"}
    NoStage = NoStage
    TaskLimit = 3
    Deliveries = {d1}
    Batches <- NoneOrPair
    Sender <- SenderOne
    AsksHuman = {m1}
    HandoffConfigs <- OnlyMuting
    HumanSends = {h1}
    Hours = {1}
    ExtractorEnabled = FALSE
    Stride = 2
    Results <- NoResults
    MaxItems = 1
    Faults = {"limiter", "tenants", "memory", "crm", "pauses", "llm", "gateway"}
    OperatorEdits = {"activity"}
    MaxNow = 1
INVARIANTS
    Bookkeeping
    AtMostOneSend
PROPERTIES
    AnsweredUnlessPaused
    DeliveryAcknowledged
