CONSTANTS
    Attempts = {older, newer}
    NoAttempt = NoAttempt
    NoReason = NoReason
    OthersAdd = FALSE
SPECIFICATION AttemptSpec
INVARIANT PhaseIsOwn
CHECK_DEADLOCK FALSE
