SPECIFICATION FrontSpec
CONSTANTS
    n1 = n1
    n2 = n2
    r1 = r1
    Addr <- TwoAddr
    NoNode = NoNode
    InitialLists <- StartLists
    failure_threshold = 1
    base_timeout = 0
    max_timeout = 0
    backoff_multiplier = 1
    MaxFailures = 1
    Call = {r1}
    max_attempts = 2
    max_retries = 1
INVARIANTS
    FrontTypeOK
    ReRunOnlyAfterLoss
    SendBudget
    SuccessIsFinal
    AnsweredErrorsAreFinal
PROPERTIES
    ServiceImplemented
    HangsOnlyOnSilentNode
