SPECIFICATION Spec
CONSTANTS
    PreviewChars = 3
    DefaultLimit = 2
    MaxLimit = 3
    Kilo = 4
    Word = 1024
    Host <- MCHost
    Attempts = 3
    MaxRedirects = 2
    MaxBody = 9
    MaxPiece = 5
    LineLetters = 8
    MaxSize = 200
    MaxDepth = 1
    MaxAttachments = 2
    Patterns <- MCPatterns
    Sortings <- MCSortings
    Pagings <- MCPagings
    Changes <- MCChanges
    Deliveries <- MCDeliveries
    Notes <- MCNotes
    Trees <- MCTrees
    Attachments <- MCAttachments
INVARIANTS SameVerdicts PagesCoverOnce SettingsSurvive RepliesJudged MailReadsBack
CHECK_DEADLOCK FALSE
