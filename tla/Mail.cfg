SPECIFICATION Spec
CONSTANTS
    Conns = {"d", "a1", "a2", "s1"}
    Mailers = {"a1", "a2", "s1"}
    Implicit = {"s1"}
    Ip <- ipOf
    Vocabulary = {"HELLO", "STARTTLS", "AUTH?", "PLAIN", "PLAIN right", "LOGIN", "CRAM", "MAIL", "MAIL?", "RCPT", "DATA", "RSET", "QUIT", "right", "*", ".", "text"}
    Ahead <- ahead
    Policies <- policies
    HasTls = TRUE
    MaxConns = 2
    MaxRcpt = 2
    MaxSize = 1
    MaxTrouble = 1
    SinkSize = 1
    MaxLines = 4
    Encryption = {"none", "starttls", "tls"}
    Tries <- triesFor
    Login = {"right"}
    Recipients = 2
    Nodes = {"here", "there"}
    Here = "here"
    HostName <- names
    Targets <- targets
    PushLimit = 1
    MaxLost = 1
    FewLines = 1
    PushLines = 3
    PushWords = {"DATA", "RCPT", "."}
INVARIANTS TypeOK EnvelopeOfOneTransaction PlaintextStaysOut LoginOfThisSession NoDowngrade AttemptsTellTheTruth StoredInOrder NoForwardingLoop
CHECK_DEADLOCK FALSE
PROPERTY SlotComesBack
