SPECIFICATION FormatsSpec
CONSTANTS
    Payload <- Payloads
    MAX_FRAME_LEN = 3
    COALESCE_LIMIT = 1
    MaxFrames = 3
CHECK_DEADLOCK FALSE
INVARIANT ExactKeysOfAll
