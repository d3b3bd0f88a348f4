SPECIFICATION LiveSpec
CONSTANTS
    Ids <- MCIds
    NoId <- MCNoId
    Payloads <- MCPayloads
    file <- MCfile
    max_frames = 2
    max_attempts = 3
    MaxClicks = 3
    Continued <- MCContinued
INVARIANTS
    TypeOK
    OnlySafeMedia
    TranscriptIsFaithful
    NobodyMissing
    CopiesMatchChannel
    DeliveredIsStored
    ClaimIsTrue
    GenerationRetries
PROPERTY HandlersEnd
CHECK_DEADLOCK FALSE
