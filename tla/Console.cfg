SPECIFICATION Spec
CONSTANTS
    Addresses = {a1}
    Patience = 0
    LongestWait = 1
    Forget = 2
    NonceTtl = 1
    MaxNonces = 2
    MaxSessions = 2
    MaxTime = 3
    MaxGiven = 3
    MaxNoRandom = 1
    Streams = {s1}
    Capacity = 1
    MaxEvents = 2
INVARIANTS TypeOK OneSessionPerNonce GuessesSlowDown ChallengeHolds SessionsLast NoSilentGap
CHECK_DEADLOCK FALSE
